------------------------------ MODULE Programs ------------------------------
(***************************************************************************)
(* The processes that use the serial port and the logical channel, one     *)
(* after the other: the two modes of src/src/main.c, and any program that  *)
(* calls the operations of uicc_test.h in an order of its own.  Each is a  *)
(* sequence of calls of LogicalChannel, and "at" names the next one.       *)
(***************************************************************************)
EXTENDS LogicalChannel

CONSTANT NDraws     \* random numbers the get_rand mode asks for, 10 in the code

ASSUME DrawsAssumption == NDraws \in Nat \ {0}

VARIABLES mode,     \* what the process runs
          at,       \* the next call, or where the process waits
          draws,    \* i of the loop of the get_rand mode
          trouble,  \* an answer was lost or displaced in this process
          unread    \* text may stand in the port before the next answer

own == <<mode, at, draws>>
pvars == <<vars, own, trouble, unread>>

Modes == {"interactive", "get_rand", "library"}
Places == {"open_se", "close_force", "open_crypto", "select_crypto", "commands",
           "draw", "close_se", "any", "ended"}

First(m) == IF m = "library" THEN "any" ELSE "open_se"

PlaceTypeOK ==
  /\ mode \in Modes /\ at \in Places
  /\ draws \in 0..NDraws /\ trouble \in BOOLEAN /\ unread \in BOOLEAN

ProgramTypeOK == TypeOK /\ PlaceTypeOK

ProgramInit ==
  /\ Init
  /\ mode \in Modes /\ at = First(mode)
  /\ draws = 0 /\ trouble = FALSE /\ unread = FALSE

-----------------------------------------------------------------------------
(* Calls *)

\* The start-up of func2, and the last lines of it; the get_rand mode of main.
ScriptCall ==
  \/ at = "open_se" /\ OpenConnection
  \/ at = "close_force" /\ CloseChannel(TRUE)
  \/ at = "open_crypto" /\ OpenChannel
  \/ at = "select_crypto" /\ SelectCrypto
  \/ at = "draw" /\ GetRandom
  \/ at = "close_se" /\ CloseConnection

\* The commands of the interactive mode.
CommandCall ==
  /\ at = "commands"
  /\ \/ OpenConnection \/ CloseConnection
     \/ OpenChannel \/ CloseChannel(FALSE)
     \/ SelectCrypto \/ GetRandom \/ CheckExists
     \/ SelectFile \/ CustomCommand
     \/ ExitCommand

\* The operations a program linked with the library may call.
LibraryCall ==
  /\ at = "any"
  /\ \/ OpenConnection \/ CloseConnection
     \/ OpenChannel \/ \E force \in BOOLEAN : CloseChannel(force)
     \/ SelectCrypto \/ GetRandom \/ CheckExists

\* What goes on inside a call.
Progress ==
  \/ ConnectTrial \/ Configure
  \/ AnswerOpen \/ AnswerClose
  \/ Answer

\* Only the return of select_crypto_aid is looked at: every other call of the
\* two modes is followed by the next one whatever it returned.
After(selected, drawsMore) ==
  CASE at = "open_se" -> IF mode = "interactive" THEN "close_force" ELSE "open_crypto"
    [] at = "close_force" -> "open_crypto"
    [] at = "open_crypto" -> IF mode = "interactive" THEN "select_crypto" ELSE "draw"
    [] at = "select_crypto" -> IF selected THEN "commands" ELSE "close_se"
    [] at = "commands" -> IF op = "exit" THEN "close_se" ELSE "commands"
    [] at = "draw" -> IF drawsMore THEN "draw" ELSE "close_se"
    [] at = "close_se" -> "ended"
    [] OTHER -> at

\* Mutant: a failed selection of the applet does not stop the mode.
StartsAnyway == After(TRUE, draws + 1 < NDraws)

\* Mutant: the loop draws one number too many.
DrawsOneMore == After(ret = 0, draws < NDraws)

Following == After(ret = 0, draws + 1 < NDraws)

Continue ==
  /\ Resume
  /\ at' = Following
  /\ draws' = IF at = "draw" THEN draws + 1 ELSE draws
  /\ UNCHANGED <<mode, trouble, unread>>

\* The places where a process reads an answer.
Reading == pc \in {"opening", "closing", "awaiting"}

\* A process ends, or is killed, and the next one starts; a kill is bounded as
\* a mishap even when it forgets no session.  What stands in the port may stay,
\* the answer the process was waiting for included.
NextProcess(m) ==
  /\ Restart
  /\ at \notin {"any", "ended"} => Mishap
  /\ mode' = m /\ at' = First(m) /\ draws' = 0 /\ trouble' = FALSE
  /\ unread' \in {FALSE, unread \/ Reading}

\* read_message stops at the ERROR of an answer and leaves its line end in the
\* port, or takes it away with the read after the loop; an answer that is lost
\* may come later, and the read for a command typed by the user takes what is
\* there at one moment.
Leaves ==
  \/ mishaps' # mishaps
  \/ pc = "opening" /\ session' = session
  \/ pc = "closing" /\ channels' = channels
  \/ pc = "awaiting" /\ ~ (op \in {"get_random_int", "select_file"} /\ ret' = 0)

Stay ==
  /\ trouble' = (trouble \/ mishaps' # mishaps)
  /\ UNCHANGED own

ScriptStep == ScriptCall /\ Stay /\ UNCHANGED unread
ProgressStep == Progress /\ Stay /\ unread' \in {FALSE, unread \/ Leaves}
UserStep == (CommandCall \/ LibraryCall) /\ Stay /\ UNCHANGED unread

\* The modem reports something of its own, and a read that waits for nothing
\* else comes back with it, or with a part of it.
ReportStep == Report /\ Stay /\ unread' \in BOOLEAN
Intrude == Reports /\ unread' = TRUE /\ UNCHANGED <<vars, own, trouble>>

ProgramNext ==
  \/ ScriptStep \/ ProgressStep \/ UserStep \/ ReportStep
  \/ Intrude \/ Continue
  \/ \E m \in Modes : NextProcess(m)

\* A read of an answer comes back when nothing stands before that answer.  With
\* text before it the number of line ends may pass the one that is asked for,
\* and the loop of read_message goes on for ever (see ReadMessage).
Heard == ProgressStep /\ ~ (Reading /\ unread)

\* A process goes on with its calls; the device is there in the end, and the
\* modem answers what is written.  Nobody has to type a command, call an
\* operation, report anything or start another process.
ProgramSpec ==
  /\ ProgramInit /\ [][ProgramNext]_pvars
  /\ WF_pvars(Continue)
  /\ WF_pvars(ScriptStep) /\ WF_pvars(Heard)

-----------------------------------------------------------------------------
\* The close command always names channel 1.  In an interactive process none of
\* whose answers was lost or displaced that is the channel of the session,
\* although earlier processes may have left channels open: func2 closes channel 1
\* before it opens one, and the element hands out the lowest that is free.
ClosesItsOwn ==
  mode = "interactive" /\ ~ trouble => session \in {NoSession, 1}

\* A process comes to the commands with channel 1, the one its close names, open
\* on the element, unless an answer was lost or displaced on the way: no other
\* failure of the start-up is taken for success, although open_crypto_lchannel
\* reports a failed AT+CCHO as 0.  Whether the applet was selected on the channel
\* nothing tells: receive_responce_from_select_aid looks at no answer.
CommandsHaveChannel ==
  [][at = "select_crypto" /\ at' = "commands"
      => trouble \/ (session = 1 /\ 1 \in channels)]_pvars

\* The get_rand mode ends, and the interactive mode comes to its commands or
\* ends, whatever its calls returned, unless one of its reads finds text before
\* the answer it waits for: no call of theirs waits for an answer to a command
\* that was not written, and none goes round for ever.
ModesGetThrough ==
  (mode # "library") ~> (at \in {"commands", "ended", "any"} \/ (Reading /\ unread))
=============================================================================
