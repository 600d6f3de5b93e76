--------------------------- MODULE LogicalChannel ---------------------------
(***************************************************************************)
(* The serial port and the logical channel to the Crypto applet, as        *)
(* src/src/uicc_test1.c keeps them in the statics serial_port and          *)
(* crypto_app_session_id and src/src/at_commands.c opens and closes them   *)
(* with AT+CCHO and AT+CCHC.  The channels the secure element holds open   *)
(* outlive the process: run_interactive_mode starts with a forced close    *)
(* for that reason.                                                        *)
(***************************************************************************)
EXTENDS Integers, FiniteSets

CONSTANTS NChannels,    \* channels the element can hold open
          Reports,      \* other text may stand before the answer to AT+CCHO: a report
                        \* of the modem, the tail of an answer (see ReadMessage)
          MaxMishaps    \* bound on lost answers and dead processes

ASSUME ChannelAssumption ==
  /\ NChannels \in Nat \ {0} /\ MaxMishaps \in Nat
  /\ Reports \in BOOLEAN

VARIABLES port,      \* serial_port and the device behind it
          session,   \* crypto_app_session_id
          channels,  \* channels the element holds open
          pc, op,    \* where the call under way stands
          sent,      \* do_send_apdu has written a command
          ret,       \* what the call returned
          mishaps,   \* lost answers and dead processes so far
          stray,     \* the session's number was not read from its own answer
          late       \* numbers in answers to AT+CCHO that nobody has read

vars == <<port, session, channels, pc, op, sent, ret, mishaps, stray, late>>

NoSession == -1
Channels == 1..NChannels

\* "raw": open, settings not applied; "dangling": serial_port still holds the
\* number of a descriptor that has been closed.
Ports == {"closed", "raw", "ready", "dangling"}

Ops == {"open_connection_se", "close_connection_se", "open_crypto_lchannel",
        "close_crypto_lchannel", "close_crypto_lchannel_force",
        "select_crypto_aid", "get_random_int", "check_se_existance",
        "select_file", "custom_at_cmd", "exit"}

Established == port # "closed"

TypeOK ==
  /\ port \in Ports
  /\ session \in Channels \cup {0, NoSession}
  /\ channels \subseteq Channels
  /\ pc \in {"idle", "connecting", "configuring", "opening", "closing",
             "awaiting", "returned"}
  /\ op \in Ops /\ sent \in BOOLEAN
  /\ ret \in {-1, 0, 1} /\ mishaps \in 0..MaxMishaps
  /\ stray \in BOOLEAN /\ late \subseteq Channels

Init ==
  /\ port = "closed" /\ session = NoSession /\ channels = {}
  /\ pc = "idle" /\ op = "exit" /\ sent = FALSE /\ ret = 0
  /\ mishaps = 0 /\ stray = FALSE /\ late = {}

-----------------------------------------------------------------------------
Start(o) == pc = "idle" /\ op' = o /\ sent' = FALSE
Goto(step) == pc' = step /\ ret' = 0
Return(r) == pc' = "returned" /\ ret' = r
Mishap == mishaps < MaxMishaps /\ mishaps' = mishaps + 1

Resume ==
  /\ pc = "returned"
  /\ pc' = "idle" /\ ret' = 0
  /\ UNCHANGED <<port, session, channels, op, sent, mishaps, stray, late>>

(* Connection *)

OpenConnection ==
  /\ Start("open_connection_se")
  /\ IF Established THEN Return(0) ELSE Goto("connecting")
  /\ UNCHANGED <<port, session, channels, mishaps, stray, late>>

\* open() in the loop of connect_to_se.  One that fails changes nothing:
\* reconnect_cnrt is never incremented, and it is tried again without end.
ConnectTrial ==
  /\ pc = "connecting"
  /\ port' = "raw" /\ Goto("configuring")
  /\ UNCHANGED <<session, channels, op, sent, mishaps, stray, late>>

\* tcgetattr, tcsetattr: on failure the port stays open.
Configure ==
  /\ pc = "configuring"
  /\ \/ port' = "ready" /\ Return(0)
     \/ UNCHANGED port /\ Return(1)
  /\ UNCHANGED <<session, channels, op, sent, mishaps, stray, late>>

\* crypto_app_session_id is left as it is.
CloseConnection ==
  /\ Start("close_connection_se")
  /\ port' = "closed" /\ Return(0)
  /\ UNCHANGED <<session, channels, mishaps, stray, late>>

(* Logical channel *)

OpenChannel ==
  /\ Start("open_crypto_lchannel")
  /\ \/ session # NoSession /\ Return(0)
     \/ session = NoSession /\ ~ Established /\ Return(-1)
     \/ session = NoSession /\ Established /\ Goto("opening")
  /\ UNCHANGED <<port, session, channels, mishaps, stray, late>>

\* The element hands out the lowest channel that is free.
Opens(n) ==
  /\ n \in Channels \ channels /\ \A k \in Channels \ channels : n <= k
  /\ channels' = channels \cup {n}

\* What became of a command whose answer nobody has read: the element carried it
\* out or not, and the answer to AT+CCHO may be read in place of a later one.
Unheard ==
  \/ UNCHANGED <<channels, late>>
  \/ pc = "opening" /\ \E n \in Channels : Opens(n) /\ late' = late \cup {n}
  \/ pc = "closing" /\ channels' = channels \ {1} /\ UNCHANGED late

\* open_logical_channel_crypto_app returns 0 whatever the answer was.  The number
\* is taken from whatever text is read: 0 when it starts with no digit.
AnswerOpen ==
  /\ pc = "opening"
  /\ Return(0)
  /\ \/ /\ \E n \in Channels : Opens(n) /\ session' = n
        /\ stray' = FALSE /\ UNCHANGED <<mishaps, late>>
     \/ UNCHANGED <<session, channels, mishaps, stray, late>>      \* ERROR
     \/ Mishap /\ Unheard /\ UNCHANGED <<session, stray>>          \* lost
     \/ /\ Reports /\ Mishap /\ Unheard                            \* another text
        /\ session' \in late \cup {0} /\ stray' = TRUE
  /\ UNCHANGED <<port, op, sent>>

\* Mutant: the forced close asks for a session as well.
NeverForced(force) ==
  /\ Start(IF force THEN "close_crypto_lchannel_force" ELSE "close_crypto_lchannel")
  /\ IF ~ Established THEN Return(-1)
     ELSE IF session # NoSession THEN Goto("closing") ELSE Return(0)
  /\ UNCHANGED <<port, session, channels, mishaps, stray, late>>

CloseChannel(force) ==
  /\ Start(IF force THEN "close_crypto_lchannel_force" ELSE "close_crypto_lchannel")
  /\ \/ ~ Established /\ Return(-1)
     \/ Established /\ (session # NoSession \/ force) /\ Goto("closing")
     \/ Established /\ session = NoSession /\ ~ force /\ Return(0)
  /\ UNCHANGED <<port, session, channels, mishaps, stray, late>>

\* Mutant: the session is forgotten only when the answer is OK.
ForgetsOnOk ==
  /\ pc = "closing"
  /\ Return(0)
  /\ \/ /\ 1 \in channels /\ channels' = channels \ {1}
        /\ session' = NoSession /\ stray' = FALSE /\ UNCHANGED <<mishaps, late>>
     \/ 1 \notin channels /\ UNCHANGED <<session, channels, mishaps, stray, late>>
     \/ Mishap /\ Unheard /\ UNCHANGED <<session, stray>>
  /\ UNCHANGED <<port, op, sent>>

\* Mutant: the close command is never written.
ClosesNothing ==
  /\ pc = "closing"
  /\ Return(0) /\ session' = NoSession /\ stray' = FALSE
  /\ UNCHANGED <<port, channels, op, sent, mishaps, late>>

\* AT+CCHC=1, whatever channel the session has; close_crypto_lchannel forgets
\* the session whatever the answer is.
AnswerClose ==
  /\ pc = "closing"
  /\ Return(0) /\ session' = NoSession /\ stray' = FALSE
  /\ \/ channels' = channels \ {1} /\ UNCHANGED <<mishaps, late>>
     \/ Mishap /\ Unheard                         \* the command or its answer is lost
  /\ UNCHANGED <<port, op, sent>>

(* Exchanges on the channel *)

\* Both operations ask for a connection and a session before they write.
Guarded(o, refusal) ==
  /\ pc = "idle" /\ op' = o
  /\ sent' = (Established /\ session # NoSession)
  /\ IF sent' THEN Goto("awaiting") ELSE Return(refusal)
  /\ UNCHANGED <<port, session, channels, mishaps, stray, late>>

SelectCrypto == Guarded("select_crypto_aid", -1)

\* Mutant: the operation goes on without a session, as the file commands do.
Unguarded ==
  /\ pc = "idle" /\ op' = "get_random_int"
  /\ IF Established
     THEN Goto("awaiting") /\ sent' = (session # NoSession)
     ELSE Return(1) /\ sent' = FALSE
  /\ UNCHANGED <<port, session, channels, mishaps, stray, late>>

GetRandom == Guarded("get_random_int", 1)

\* Without a connection the write and the read fail, and an empty text is read.
CheckExists ==
  /\ pc = "idle" /\ op' = "check_se_existance" /\ sent' = Established
  /\ IF Established THEN Goto("awaiting") ELSE Return(0)
  /\ UNCHANGED <<port, session, channels, mishaps, stray, late>>

\* The file commands of the interactive mode call do_select_fid_no_rsp and the
\* like directly: do_send_apdu writes nothing without a session, and the
\* caller goes on to read the answer.  Without a connection the read fails and
\* the status word of an earlier answer decides.
SelectFile ==
  /\ pc = "idle" /\ op' = "select_file"
  /\ sent' = (Established /\ session # NoSession)
  /\ \/ Established /\ Goto("awaiting")
     \/ ~ Established /\ \E stale \in {0, 1} : Return(stale)
  /\ UNCHANGED <<port, session, channels, mishaps, stray, late>>

\* A line typed by the user that opens and closes no channel of its own.
CustomCommand ==
  /\ pc = "idle" /\ Established
  /\ op' = "custom_at_cmd" /\ sent' = TRUE /\ Goto("awaiting")
  /\ UNCHANGED <<port, session, channels, mishaps, stray, late>>

\* The digit of the answer, and 0 when it cannot be read.
AnswerExists == op = "check_se_existance" /\ \E flag \in {0, 1} : Return(flag)

\* Whatever the answer says.  A read of a custom command's answer that fails
\* gives count_lines the size -1, and the loop runs past the buffer: the process
\* dies (Restart) or comes back with 0 as well.
AnswerSelect == op = "select_crypto_aid" /\ Return(0)
AnswerCustom == op = "custom_at_cmd" /\ Return(0)

\* ERROR, a text that cannot be read, or what the applet answers.
AnswerCgla ==
  /\ op \in {"get_random_int", "select_file"}
  /\ Return(1) \/ (session \in channels /\ Return(0))

Answer ==
  /\ pc = "awaiting" /\ sent
  /\ AnswerExists \/ AnswerSelect \/ AnswerCustom \/ AnswerCgla
  /\ UNCHANGED <<port, session, channels, op, sent, mishaps, stray, late>>

\* Nothing was written: read() returns only when the modem reports something of
\* its own.
Report ==
  /\ pc = "awaiting" /\ ~ sent
  /\ Return(1)
  /\ UNCHANGED <<port, session, channels, op, sent, mishaps, stray, late>>

(* The process *)

\* The command "exit" closes the descriptor and leaves serial_port set; the
\* code after the loop closes it again.
ExitCommand ==
  /\ Start("exit")
  /\ port' = IF Established THEN "dangling" ELSE port
  /\ Return(0)
  /\ UNCHANGED <<session, channels, mishaps, stray, late>>

\* The process ends, here or by being killed, and another one starts; one that
\* ends with a session is a mishap.
Restart ==
  /\ \/ Mishap /\ Unheard
     \/ session = NoSession /\ UNCHANGED <<channels, mishaps, late>>
  /\ port' = "closed" /\ session' = NoSession /\ stray' = FALSE
  /\ pc' = "idle" /\ op' = "exit" /\ sent' = FALSE /\ ret' = 0

Next ==
  \/ Resume
  \/ OpenConnection \/ ConnectTrial \/ Configure \/ CloseConnection
  \/ OpenChannel \/ AnswerOpen
  \/ \E force \in BOOLEAN : CloseChannel(force)
  \/ AnswerClose
  \/ SelectCrypto \/ GetRandom \/ CheckExists
  \/ SelectFile \/ CustomCommand
  \/ Answer \/ Report
  \/ ExitCommand \/ Restart

Spec == Init /\ [][Next]_vars

-----------------------------------------------------------------------------
\* The channel of a session whose number was read from its own answer is open
\* on the element, and so is every channel below it, across lost answers,
\* reconnections of the port and new processes: it is why a close of channel 1
\* then frees one.  It fails of a number read from a late answer: that channel
\* may have been closed meanwhile, and the commands go to it all the same.
SessionIsOpen == ~ stray => \A k \in 1..session : k \in channels

\* Channels the element holds and the client has forgotten: each costs a lost
\* answer or a process that died with a session, although the client always
\* closes channel 1 and not the channel of its session, and may hold the number
\* of a channel that is another's.
LeaksAreBounded == Cardinality(channels \ {session}) <= mishaps
=============================================================================
