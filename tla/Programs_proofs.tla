-------------------------- MODULE Programs_proofs ---------------------------
(***************************************************************************)
(* Proofs about LogicalChannel for any number of channels, any number of   *)
(* lost answers and dead processes, with and without unsolicited reports,  *)
(* and about Programs: every mode is a client of LogicalChannel, so the    *)
(* theorems about it hold of the processes one after the other, and so do  *)
(* the two properties of the start-up, for any number of random numbers.   *)
(*                                                                         *)
(* The client closes channel 1, never the channel of its session, so that  *)
(* a close under session 3 releases a channel leaked before and leaks 3:   *)
(* the count stays only because the element hands out the lowest free      *)
(* channel, hence every channel below the session's is open.  A session    *)
(* whose number came from another text may name any channel: then the      *)
(* count holds because the answer that was displaced has paid for one.     *)
(***************************************************************************)
EXTENDS Programs, FiniteSetTheorems, TLAPS

\* A channel is asked for only without a session.
OpensFresh == pc = "opening" => session = NoSession

\* While the session's number came from another text, the channels open are no
\* more than the mishaps.
Paid == stray => Cardinality(channels) <= mishaps

ChannelInv == TypeOK /\ OpensFresh /\ SessionIsOpen /\ LeaksAreBounded /\ Paid

\* A channel set is finite, and its cardinality is a natural number.
LEMMA ChannelsFinite ==
  ASSUME NEW S \in SUBSET Channels
  PROVE  IsFiniteSet(S) /\ Cardinality(S) \in Nat
<1>1. IsFiniteSet(Channels)
  BY FS_Interval, ChannelAssumption DEF Channels
<1>. QED
  BY <1>1, FS_Subset, FS_CardinalityType

\* Forgetting the session adds at most one.
LEMMA ForgetOne ==
  ASSUME NEW S \in SUBSET Channels, NEW s
  PROVE  Cardinality(S) <= Cardinality(S \ {s}) + 1
<1>1. IsFiniteSet(S) /\ Cardinality(S) \in Nat
  BY ChannelsFinite
<1>2. IsFiniteSet(S \ {s}) /\ Cardinality(S \ {s}) \in Nat
  BY ChannelsFinite, S \ {s} \in SUBSET Channels
<1>. QED
  BY <1>1, <1>2, FS_RemoveElement

\* Closing channel 1 in place of channel s does not change the count, as long
\* as both are open.
LEMMA CloseOther ==
  ASSUME NEW S \in SUBSET Channels, NEW s \in S, 1 \in S
  PROVE  Cardinality(S \ {1}) = Cardinality(S \ {s})
<1>1. IsFiniteSet(S)
  BY ChannelsFinite
<1>. QED
  BY <1>1, FS_RemoveElement

\* Closing channel 1 adds nothing when no channel is the session's.
LEMMA CloseLeaked ==
  ASSUME NEW S \in SUBSET Channels, NEW s, s \notin Channels
  PROVE  Cardinality(S \ {1}) <= Cardinality(S \ {s})
<1>1. IsFiniteSet(S)
  BY ChannelsFinite
<1>2. S \ {s} = S
  OBVIOUS
<1>. QED
  BY <1>1, <1>2, FS_Subset, S \ {1} \in SUBSET S

\* A first process has no session and the element no channel.
THEOREM ChannelInit == Init => ChannelInv
<1>. SUFFICES ASSUME Init PROVE ChannelInv
  OBVIOUS
<1>1. TypeOK
  <2>1. 0 \in 0..MaxMishaps
    BY ChannelAssumption
  <2>2. session \in Channels \cup {0, NoSession} /\ channels \subseteq Channels
    BY DEF Init
  <2>. QED
    BY <2>1, <2>2 DEF Init, TypeOK, Ports, Ops
<1>2. OpensFresh /\ SessionIsOpen /\ Paid
  BY DEF Init, OpensFresh, SessionIsOpen, NoSession, Paid
<1>3. LeaksAreBounded
  <2>1. channels \ {session} = {}
    BY DEF Init
  <2>. QED
    BY <2>1, FS_EmptySet DEF Init, LeaksAreBounded
<1>. QED
  BY <1>1, <1>2, <1>3 DEF ChannelInv

\* A step that leaves the session, the channels and the count of mishaps alone.
LEMMA ChannelFrame ==
  ASSUME ChannelInv, UNCHANGED <<session, channels, mishaps, stray>>
  PROVE  SessionIsOpen' /\ LeaksAreBounded' /\ Paid'
BY DEF ChannelInv, SessionIsOpen, LeaksAreBounded, Paid

\* Without a session every channel open has been paid for.
LEMMA NothingHeld ==
  ASSUME ChannelInv, session = NoSession
  PROVE  Cardinality(channels) <= mishaps
<1>1. channels \ {session} = channels
  BY DEF ChannelInv, TypeOK, Channels, NoSession
<1>. QED
  BY <1>1 DEF ChannelInv, LeaksAreBounded

\* A number of channels that the mishaps have paid for is enough.
LEMMA AllPaid ==
  ASSUME channels' \in SUBSET Channels, Cardinality(channels') <= mishaps', mishaps' \in Nat
  PROVE  LeaksAreBounded' /\ Paid'
<1>1. IsFiniteSet(channels') /\ Cardinality(channels') \in Nat
  BY ChannelsFinite
<1>2. /\ Cardinality(channels' \ {session'}) <= Cardinality(channels')
      /\ Cardinality(channels' \ {session'}) \in Nat
  BY <1>1, ChannelsFinite, FS_Subset, channels' \ {session'} \in SUBSET channels',
     channels' \ {session'} \in SUBSET Channels
<1>3. Cardinality(channels' \ {session'}) <= mishaps'
  BY <1>1, <1>2
<1>. QED
  BY <1>3 DEF LeaksAreBounded, Paid

\* A command whose answer nobody has read: whatever became of it, the mishap
\* pays for the channel it may have opened or left open.
LEMMA UnheardStep ==
  ASSUME ChannelInv, Mishap, Unheard, channels' \in SUBSET Channels
  PROVE  LeaksAreBounded' /\ Paid'
<1>1. channels \in SUBSET Channels /\ mishaps \in Nat /\ mishaps' = mishaps + 1
  BY ChannelAssumption DEF ChannelInv, TypeOK, Mishap
<1>2. IsFiniteSet(channels) /\ Cardinality(channels) \in Nat /\ Cardinality(channels') \in Nat
  BY <1>1, ChannelsFinite
<1>3. CASE channels' \in SUBSET channels
  <2>1. Cardinality(channels') <= Cardinality(channels)
    BY <1>2, <1>3, FS_Subset
  <2>2. /\ Cardinality(channels) <= Cardinality(channels \ {session}) + 1
        /\ Cardinality(channels \ {session}) \in Nat
    BY <1>1, ForgetOne, ChannelsFinite, channels \ {session} \in SUBSET Channels
  <2>3. Cardinality(channels \ {session}) <= mishaps
    BY DEF ChannelInv, LeaksAreBounded
  <2>4. Cardinality(channels') <= mishaps'
    BY <1>1, <1>2, <2>1, <2>2, <2>3
  <2>. QED
    BY <1>1, <2>4, AllPaid
<1>4. ASSUME pc = "opening", NEW n \in Channels, Opens(n)
      PROVE  LeaksAreBounded' /\ Paid'
  <2>1. Cardinality(channels) <= mishaps
    BY <1>4, NothingHeld DEF ChannelInv, OpensFresh
  <2>2. channels' = channels \cup {n}
    BY <1>4 DEF Opens
  <2>3. Cardinality(channels') <= Cardinality(channels) + 1
    BY <1>2, <2>2, FS_AddElement
  <2>4. Cardinality(channels') <= mishaps'
    BY <1>1, <1>2, <2>1, <2>3
  <2>. QED
    BY <1>1, <2>4, AllPaid
<1>5. channels' \in SUBSET channels
      \/ (pc = "opening" /\ \E n \in Channels : Opens(n))
  BY DEF Unheard
<1>. QED
  BY <1>3, <1>4, <1>5

\* An answer to AT+CCHO that is heard: the new channel is the session's.
LEMMA OpenStep ==
  ASSUME ChannelInv, session = NoSession, NEW n \in Channels, Opens(n),
         session' = n, stray' = FALSE, UNCHANGED mishaps
  PROVE  SessionIsOpen' /\ LeaksAreBounded' /\ Paid'
<1>1. channels \in SUBSET Channels /\ session \notin Channels
  BY DEF ChannelInv, TypeOK, Channels, NoSession
<1>2. channels' = channels \cup {n} /\ n \notin channels
  BY DEF Opens
<1>3. \A k \in 1..n : k \in channels \cup {n}
  BY ChannelAssumption DEF Opens, Channels
<1>4. channels' \ {session'} = channels \ {session}
  BY <1>1, <1>2
<1>. QED
  BY <1>2, <1>3, <1>4 DEF SessionIsOpen, LeaksAreBounded, ChannelInv, Paid

\* An answer to AT+CCHC that is heard: the session is forgotten whatever channel
\* was closed.
LEMMA CloseStep ==
  ASSUME ChannelInv, session' = NoSession, stray' = FALSE,
         channels' = channels \ {1}, UNCHANGED mishaps
  PROVE  LeaksAreBounded' /\ Paid'
<1>1. channels \in SUBSET Channels /\ NoSession \notin Channels /\ mishaps \in Nat
  BY ChannelAssumption DEF ChannelInv, TypeOK, Channels, NoSession
<1>2. channels' \ {session'} = channels \ {1}
  BY <1>1
<1>3. /\ IsFiniteSet(channels) /\ Cardinality(channels) \in Nat
      /\ Cardinality(channels \ {1}) \in Nat
      /\ Cardinality(channels \ {session}) \in Nat
  BY <1>1, ChannelsFinite, channels \ {1} \in SUBSET Channels,
     channels \ {session} \in SUBSET Channels
<1>4. CASE stray
  <2>1. Cardinality(channels \ {1}) <= Cardinality(channels)
    BY <1>3, FS_Subset, channels \ {1} \in SUBSET channels
  <2>. QED
    BY <1>1, <1>2, <1>3, <1>4, <2>1 DEF LeaksAreBounded, Paid, ChannelInv
<1>5. CASE ~ stray /\ session \in Channels
  <2>1. 1 \in channels /\ session \in channels
    BY <1>5, ChannelAssumption DEF ChannelInv, SessionIsOpen, Channels
  <2>2. Cardinality(channels \ {1}) = Cardinality(channels \ {session})
    BY <1>1, <2>1, CloseOther
  <2>. QED
    BY <1>2, <2>2 DEF LeaksAreBounded, Paid, ChannelInv
<1>6. CASE session \notin Channels
  <2>1. Cardinality(channels \ {1}) <= Cardinality(channels \ {session})
    BY <1>1, <1>6, CloseLeaked
  <2>. QED
    BY <1>1, <1>2, <1>3, <2>1 DEF LeaksAreBounded, Paid, ChannelInv
<1>. QED
  BY <1>4, <1>5, <1>6

\* Every step keeps the types.
LEMMA ChannelTypeStep == TypeOK /\ [Next]_vars => TypeOK'
<1>. SUFFICES ASSUME TypeOK, [Next]_vars PROVE TypeOK'
  OBVIOUS
<1>. USE DEF TypeOK, Ports, Ops, Start, Goto, Return, Established
<1>1. CASE Resume
  BY <1>1, ChannelAssumption DEF Resume
<1>2. CASE OpenConnection
  BY <1>2 DEF OpenConnection
<1>3. CASE ConnectTrial
  BY <1>3 DEF ConnectTrial
<1>4. CASE Configure
  BY <1>4 DEF Configure
<1>5. CASE CloseConnection
  BY <1>5 DEF CloseConnection
<1>6. CASE OpenChannel
  BY <1>6 DEF OpenChannel
<1>7. CASE AnswerOpen
  <2>1. mishaps' \in 0..MaxMishaps
    BY <1>7, ChannelAssumption DEF AnswerOpen, Mishap
  <2>2. channels' \subseteq Channels /\ late' \subseteq Channels
    BY <1>7 DEF AnswerOpen, Unheard, Opens
  <2>3. session' \in Channels \cup {0, NoSession} /\ stray' \in BOOLEAN
    BY <1>7, Zenon DEF AnswerOpen
  <2>4. port' = port /\ op' = op /\ sent' = sent
        /\ pc' = "returned" /\ ret' = 0
    BY <1>7 DEF AnswerOpen
  <2>. QED
    BY <2>1, <2>2, <2>3, <2>4
<1>8. ASSUME NEW force \in BOOLEAN, CloseChannel(force) PROVE TypeOK'
  BY <1>8 DEF CloseChannel
<1>9. CASE AnswerClose
  <2>1. mishaps' \in 0..MaxMishaps
    BY <1>9, ChannelAssumption DEF AnswerClose, Mishap
  <2>2. channels' \subseteq Channels /\ late' \subseteq Channels
        /\ session' = NoSession /\ stray' = FALSE
    BY <1>9 DEF AnswerClose, Unheard, Opens
  <2>3. port' = port /\ op' = op /\ sent' = sent
        /\ pc' = "returned" /\ ret' = 0
    BY <1>9 DEF AnswerClose
  <2>. QED
    BY <2>1, <2>2, <2>3
<1>10. ASSUME NEW o \in {"select_crypto_aid", "get_random_int"},
              NEW refusal \in {-1, 1}, Guarded(o, refusal)
       PROVE  TypeOK'
  BY <1>10 DEF Guarded
<1>11. CASE SelectCrypto
  BY <1>10, <1>11 DEF SelectCrypto
<1>12. CASE GetRandom
  BY <1>10, <1>12 DEF GetRandom
<1>13. CASE CheckExists
  BY <1>13 DEF CheckExists
<1>14. CASE SelectFile
  BY <1>14 DEF SelectFile
<1>15. CASE CustomCommand
  BY <1>15 DEF CustomCommand
<1>16. CASE Answer
  BY <1>16 DEF Answer, AnswerExists, AnswerSelect, AnswerCustom, AnswerCgla
<1>17. CASE Report
  BY <1>17 DEF Report
<1>18. CASE ExitCommand
  BY <1>18 DEF ExitCommand
<1>19. CASE Restart
  <2>1. mishaps' \in 0..MaxMishaps
    BY <1>19, ChannelAssumption DEF Restart, Mishap
  <2>2. channels' \subseteq Channels /\ late' \subseteq Channels
    BY <1>19 DEF Restart, Unheard, Opens
  <2>. QED
    BY <1>19, <2>1, <2>2 DEF Restart
<1>20. CASE UNCHANGED vars
  BY <1>20 DEF vars
<1>. QED
  BY <1>1, <1>2, <1>3, <1>4, <1>5, <1>6, <1>7, <1>8, <1>9, <1>11, <1>12,
     <1>13, <1>14, <1>15, <1>16, <1>17, <1>18, <1>19, <1>20 DEF Next

\* Every call, answer, exit and restart keeps the invariant.
THEOREM ChannelNext == ChannelInv /\ [Next]_vars => ChannelInv'
<1>. SUFFICES ASSUME ChannelInv, [Next]_vars PROVE ChannelInv'
  OBVIOUS
<1>1. TypeOK'
  BY ChannelTypeStep DEF ChannelInv
<1>2. OpensFresh'
  BY DEF ChannelInv, OpensFresh, Next, vars, Resume, OpenConnection, ConnectTrial,
         Configure, CloseConnection, OpenChannel, AnswerOpen, CloseChannel,
         AnswerClose, SelectCrypto, GetRandom, Guarded, CheckExists, SelectFile,
         CustomCommand, Answer, AnswerExists, AnswerSelect, AnswerCustom, AnswerCgla,
         Report, ExitCommand, Restart, Start, Goto, Return
<1>3. SessionIsOpen' /\ LeaksAreBounded' /\ Paid'
  <2>1. CASE UNCHANGED <<session, channels, mishaps, stray>>
    BY <2>1, ChannelFrame
  <2>2. ASSUME Mishap, Unheard, session' = NoSession \/ stray'
        PROVE  SessionIsOpen' /\ LeaksAreBounded' /\ Paid'
    <3>1. channels' \in SUBSET Channels
      BY <1>1 DEF TypeOK
    <3>. QED
      BY <2>2, <3>1, UnheardStep DEF SessionIsOpen, NoSession
  <2>3. CASE AnswerOpen
    <3>1. session = NoSession
      BY <2>3 DEF AnswerOpen, ChannelInv, OpensFresh
    <3>2. CASE \E n \in Channels :
                 Opens(n) /\ session' = n /\ stray' = FALSE /\ UNCHANGED mishaps
      BY <3>1, <3>2, OpenStep
    <3>3. \/ \E n \in Channels :
               Opens(n) /\ session' = n /\ stray' = FALSE /\ UNCHANGED mishaps
          \/ UNCHANGED <<session, channels, mishaps, stray>>
          \/ Mishap /\ Unheard /\ session' = session
          \/ Mishap /\ Unheard /\ stray'
      BY <2>3, Zenon DEF AnswerOpen
    <3>. QED
      BY <2>1, <2>2, <3>1, <3>2, <3>3
  <2>4. CASE AnswerClose
    <3>1. session' = NoSession /\ stray' = FALSE
      BY <2>4 DEF AnswerClose
    <3>2. CASE channels' = channels \ {1} /\ UNCHANGED mishaps
      <4>1. LeaksAreBounded' /\ Paid'
        BY <3>1, <3>2, CloseStep
      <4>2. SessionIsOpen'
        BY <3>1 DEF SessionIsOpen, NoSession
      <4>. QED
        BY <4>1, <4>2
    <3>. QED
      BY <2>2, <2>4, <3>1, <3>2 DEF AnswerClose
  <2>5. CASE Restart
    <3>1. session' = NoSession /\ stray' = FALSE
      BY <2>5 DEF Restart
    <3>2. CASE session = NoSession /\ UNCHANGED <<channels, mishaps>>
      BY <3>1, <3>2 DEF ChannelInv, LeaksAreBounded, SessionIsOpen, Paid, NoSession
    <3>. QED
      BY <2>2, <2>5, <3>1, <3>2 DEF Restart
  <2>. QED
    BY <2>1, <2>3, <2>4, <2>5
       DEF Next, Resume, OpenConnection, ConnectTrial, Configure, CloseConnection,
           OpenChannel, CloseChannel, SelectCrypto, GetRandom, Guarded, CheckExists,
           SelectFile, CustomCommand, Answer, Report, ExitCommand, vars
<1>. QED
  BY <1>1, <1>2, <1>3 DEF ChannelInv

\* Types: the variables of the channel stay in their sets.
THEOREM ChannelTypes == Spec => []TypeOK
<1>1. ChannelInv => TypeOK
  BY DEF ChannelInv
<1>. QED
  BY <1>1, ChannelInit, ChannelNext, PTL DEF Spec

\* Channels the element holds and the client has forgotten are no more than
\* the answers lost and the processes that died with a session, for any number
\* of channels and even when other text stands before the answers.
THEOREM LeaksBounded == Spec => []LeaksAreBounded
<1>1. ChannelInv => LeaksAreBounded
  BY DEF ChannelInv
<1>. QED
  BY <1>1, ChannelInit, ChannelNext, PTL DEF Spec

\* The channel of a session whose number was read from its own answer, and every
\* one below it, is open on the element, across lost and displaced answers, ports
\* that are closed and opened again, and new processes.
THEOREM SessionOpen == Spec => []SessionIsOpen
<1>1. ChannelInv => SessionIsOpen
  BY DEF ChannelInv
<1>. QED
  BY <1>1, ChannelInit, ChannelNext, PTL DEF Spec

-----------------------------------------------------------------------------
(* Programs.                                                               *)

\* Every step of a process is a step of LogicalChannel.
LEMMA ProcessStep == [ProgramNext]_pvars => [Next]_vars
<1>. SUFFICES ASSUME [ProgramNext]_pvars PROVE [Next]_vars
  OBVIOUS
<1>1. CASE ScriptStep
  BY <1>1 DEF ScriptStep, ScriptCall, Next
<1>2. CASE ProgressStep
  BY <1>2 DEF ProgressStep, Progress, Next
<1>3. CASE UserStep
  BY <1>3 DEF UserStep, CommandCall, LibraryCall, Next
<1>7. CASE ReportStep
  BY <1>7 DEF ReportStep, Next
<1>8. CASE Intrude
  BY <1>8 DEF Intrude
<1>4. CASE Continue
  BY <1>4 DEF Continue, Next
<1>5. ASSUME NEW m \in Modes, NextProcess(m) PROVE [Next]_vars
  BY <1>5 DEF NextProcess, Next
<1>6. CASE UNCHANGED pvars
  BY <1>6 DEF pvars
<1>. QED
  BY <1>1, <1>2, <1>3, <1>4, <1>5, <1>6, <1>7, <1>8 DEF ProgramNext

\* The processes, one after the other, implement the client of LogicalChannel
\* that calls the operations in any order.
THEOREM ProgramsAreClients == ProgramSpec => Spec
<1>1. ProgramInit => Init
  BY DEF ProgramInit
<1>. QED
  BY <1>1, ProcessStep, PTL DEF ProgramSpec, Spec

\* The places from which no number is drawn any more.
Late == {"close_se", "ended"}

\* Where a process goes on after a call.
LEMMA FollowingPlace ==
  ASSUME at \in Places
  PROVE  /\ Following \in Places
         /\ Following \notin Late => at \notin Late /\ (at = "draw" => draws + 1 < NDraws)
<1>. QED
  BY Zenon DEF Following, After, Places, Late

\* Types: so do the mode, the place in it and the count of draws.
THEOREM ProgramTypes == ProgramSpec => []ProgramTypeOK
<1>. DEFINE Inv == PlaceTypeOK /\ (at \notin Late => draws < NDraws)
<1>1. ProgramInit => Inv
  <2>. SUFFICES ASSUME ProgramInit PROVE Inv
    OBVIOUS
  <2>1. mode \in Modes /\ trouble \in BOOLEAN /\ unread \in BOOLEAN
    BY Zenon DEF ProgramInit
  <2>2. at \in Places
    BY DEF ProgramInit, First, Places
  <2>3. draws \in 0..NDraws /\ draws < NDraws
    BY DrawsAssumption DEF ProgramInit
  <2>. QED
    BY <2>1, <2>2, <2>3 DEF PlaceTypeOK
<1>2. Inv /\ [ProgramNext]_pvars => Inv'
  <2>. SUFFICES ASSUME Inv, [ProgramNext]_pvars PROVE Inv'
    OBVIOUS
  <2>1. CASE Stay /\ unread' \in BOOLEAN
    <3>1. trouble' \in BOOLEAN
      BY <2>1, Zenon DEF Stay
    <3>. QED
      BY <2>1, <3>1 DEF Stay, own, PlaceTypeOK
  <2>2. CASE Continue
    <3>1. at \in Places /\ at' = Following /\ mode' = mode /\ trouble' = trouble
          /\ unread' = unread
      BY <2>2 DEF Continue, PlaceTypeOK
    <3>2. /\ at' \in Places
          /\ at' \notin Late => at \notin Late /\ (at = "draw" => draws + 1 < NDraws)
      BY <3>1, FollowingPlace
    <3>3. draws' = IF at = "draw" THEN draws + 1 ELSE draws
      BY <2>2 DEF Continue
    <3>4. at = "draw" => at \notin Late
      BY DEF Late
    <3>. QED
      BY <3>1, <3>2, <3>3, <3>4, DrawsAssumption DEF PlaceTypeOK
  <2>3. ASSUME NEW m \in Modes, NextProcess(m) PROVE Inv'
    <3>1. mode' \in Modes /\ trouble' \in BOOLEAN /\ unread' \in BOOLEAN
      BY <2>3, Zenon DEF NextProcess
    <3>2. at' \in Places
      BY <2>3 DEF NextProcess, First, Places
    <3>3. draws' \in 0..NDraws /\ draws' < NDraws
      BY <2>3, DrawsAssumption DEF NextProcess
    <3>. QED
      BY <3>1, <3>2, <3>3 DEF PlaceTypeOK
  <2>4. CASE UNCHANGED pvars
    BY <2>4 DEF pvars, own, PlaceTypeOK
  <2>5. CASE Intrude
    BY <2>5 DEF Intrude, own, PlaceTypeOK
  <2>6. unread \in BOOLEAN
    BY DEF PlaceTypeOK
  <2>7. ASSUME ScriptStep \/ ProgressStep \/ UserStep \/ ReportStep
        PROVE  Stay /\ unread' \in BOOLEAN
    BY <2>6, <2>7, Zenon DEF ScriptStep, ProgressStep, UserStep, ReportStep
  <2>. QED
    BY <2>1, <2>2, <2>3, <2>4, <2>5, <2>7 DEF ProgramNext
<1>3. Inv => PlaceTypeOK
  OBVIOUS
<1>4. TypeOK /\ PlaceTypeOK => ProgramTypeOK
  BY DEF ProgramTypeOK
<1>. QED
  BY <1>1, <1>2, <1>3, <1>4, ChannelTypes, ProgramsAreClients, PTL DEF ProgramSpec

-----------------------------------------------------------------------------
\* The start-up of an interactive process that has lost no answer.
Opening ==
  at = "open_se" =>
    /\ session = NoSession
    /\ pc \in {"idle", "connecting", "configuring", "returned"}
    /\ pc \in {"configuring", "returned"} => Established

Closing ==
  at = "close_force" =>
    /\ session = NoSession /\ Established
    /\ pc \in {"idle", "closing", "returned"}

ForcedClosed == at \notin {"open_se", "close_force"} \/ (at = "close_force" /\ pc = "returned")

StartUp ==
  /\ session \in {NoSession, 1} /\ stray = FALSE
  /\ Opening /\ Closing
  /\ ForcedClosed /\ session = NoSession => 1 \notin channels

StartUpInv == mode = "interactive" /\ ~ trouble => StartUp

Selecting ==
  at = "select_crypto" =>
    /\ mode = "interactive"
    /\ pc \in {"idle", "awaiting", "returned"}
    /\ pc = "awaiting" \/ (pc = "returned" /\ ret = 0) => session # NoSession

\* What a call, or a part of one, does to the start-up when no answer is lost.
LEMMA StartUpStay ==
  ASSUME StartUp, ChannelInv, UNCHANGED <<at, mishaps>>,
         ScriptCall \/ CommandCall \/ LibraryCall \/ Progress \/ Report
  PROVE  StartUp'
<1>. USE DEF StartUp, Opening, Closing, ForcedClosed, Established
<1>1. CASE OpenConnection /\ at # "close_force"
  BY <1>1 DEF OpenConnection, Start, Return, Goto
<1>2. CASE ConnectTrial
  BY <1>2 DEF ConnectTrial, Goto
<1>3. CASE Configure
  BY <1>3 DEF Configure, Return
<1>4. CASE CloseConnection /\ at \notin {"open_se", "close_force"}
  BY <1>4 DEF CloseConnection, Start, Return
<1>5. CASE OpenChannel /\ at \notin {"open_se", "close_force"}
  BY <1>5 DEF OpenChannel
<1>6. CASE AnswerOpen
  <2>1. session = NoSession /\ at \notin {"open_se", "close_force"} /\ 1 \notin channels
    BY <1>6 DEF AnswerOpen, ChannelInv, OpensFresh
  <2>2. ASSUME NEW n \in Channels, Opens(n) PROVE n = 1
    BY <2>1, <2>2, ChannelAssumption DEF Opens, Channels
  <2>3. ~ Mishap
    BY ChannelAssumption DEF ChannelInv, TypeOK, Mishap
  <2>4. \/ \E n \in Channels : Opens(n) /\ session' = n /\ stray' = FALSE
        \/ UNCHANGED <<session, channels, stray>>
    BY <1>6, <2>3, Zenon DEF AnswerOpen
  <2>5. (session' = 1 /\ stray' = FALSE) \/ UNCHANGED <<session, channels, stray>>
    BY <2>2, <2>4
  <2>6. at' \notin {"open_se", "close_force"} /\ NoSession # 1
    BY <2>1 DEF NoSession
  <2>. QED
    BY <2>1, <2>5, <2>6
<1>7. ASSUME NEW force \in BOOLEAN, CloseChannel(force),
             at # "open_se", at = "close_force" => force
      PROVE  StartUp'
  <2>1. UNCHANGED <<port, session, channels, stray>> /\ pc' \in {"closing", "returned"}
    BY <1>7 DEF CloseChannel, Goto, Return
  <2>2. at = "close_force" => pc' = "closing"
    BY <1>7 DEF CloseChannel, Goto
  <2>. QED
    BY <1>7, <2>1, <2>2
<1>8. CASE AnswerClose
  <2>1. at # "open_se" /\ pc' = "returned" /\ session' = NoSession /\ UNCHANGED port
        /\ stray' = FALSE
    BY <1>8 DEF AnswerClose, Return
  <2>2. ~ Mishap
    BY ChannelAssumption DEF ChannelInv, TypeOK, Mishap
  <2>3. channels' = channels \ {1}
    BY <1>8, <2>2 DEF AnswerClose
  <2>. QED
    BY <2>1, <2>3
<1>9. CASE at \notin {"open_se", "close_force"}
           /\ (SelectCrypto \/ GetRandom \/ CheckExists \/ SelectFile
                \/ CustomCommand \/ ExitCommand)
  BY <1>9 DEF SelectCrypto, GetRandom, Guarded, CheckExists, SelectFile,
              CustomCommand, ExitCommand
<1>10. CASE Answer
  BY <1>10 DEF Answer, AnswerExists, AnswerSelect, AnswerCustom, AnswerCgla
<1>11. CASE Report
  BY <1>11 DEF Report
<1>12. CASE ScriptCall
  BY <1>1, <1>4, <1>5, <1>7, <1>9, <1>12 DEF ScriptCall
<1>13. CASE CommandCall
  BY <1>1, <1>4, <1>5, <1>7, <1>9, <1>13 DEF CommandCall
<1>14. CASE LibraryCall
  BY <1>1, <1>4, <1>5, <1>7, <1>9, <1>14 DEF LibraryCall
<1>15. CASE Progress
  BY <1>2, <1>3, <1>6, <1>8, <1>10, <1>15 DEF Progress
<1>. QED
  BY <1>11, <1>12, <1>13, <1>14, <1>15

\* The channel's invariant holds of the processes.
LEMMA ProgramChannelInv == ProgramSpec => []ChannelInv
<1>1. ProgramInit => ChannelInv
  BY ChannelInit DEF ProgramInit
<1>2. ChannelInv /\ [ProgramNext]_pvars => ChannelInv'
  BY ChannelNext, ProcessStep
<1>. QED
  BY <1>1, <1>2, PTL DEF ProgramSpec

\* The start-up goes its way in every interactive process that has lost no answer.
LEMMA ProgramStartUp == ProgramSpec => []StartUpInv
<1>1. ProgramInit => StartUpInv
  BY DEF ProgramInit, Init, First, StartUpInv, StartUp, Opening, Closing, ForcedClosed
<1>2. ChannelInv /\ StartUpInv /\ [ProgramNext]_pvars => StartUpInv'
  <2>. SUFFICES ASSUME ChannelInv, StartUpInv, [ProgramNext]_pvars,
                       mode' = "interactive", ~ trouble'
                PROVE  StartUp'
    BY DEF StartUpInv
  <2>1. CASE Stay /\ (ScriptCall \/ CommandCall \/ LibraryCall \/ Progress \/ Report)
    <3>1. StartUp /\ UNCHANGED <<at, mishaps>>
      BY <2>1 DEF Stay, own, StartUpInv
    <3>. QED
      BY <2>1, <3>1, StartUpStay
  <2>2. CASE Continue
    <3>1. StartUp /\ UNCHANGED <<port, session, channels, stray>> /\ pc = "returned"
          /\ pc' = "idle"
      BY <2>2 DEF Continue, Resume, StartUpInv
    <3>2. mode = "interactive" /\ at' = Following
      BY <2>2 DEF Continue
    <3>3. /\ Following # "open_se"
          /\ Following = "close_force" => at = "open_se"
          /\ Following # "close_force" => at # "open_se"
      BY <3>2, Zenon DEF Following, After
    <3>. QED
      BY <3>1, <3>2, <3>3 DEF StartUp, Opening, Closing, ForcedClosed, Established
  <2>3. ASSUME NEW m \in Modes, NextProcess(m) PROVE StartUp'
    <3>1. at' = "open_se" /\ session' = NoSession /\ pc' = "idle" /\ stray' = FALSE
      BY <2>3 DEF NextProcess, Restart, First
    <3>. QED
      BY <3>1 DEF StartUp, Opening, Closing, ForcedClosed
  <2>4. CASE UNCHANGED pvars \/ Intrude
    BY <2>4 DEF pvars, Intrude, vars, own, StartUpInv, StartUp, Opening, Closing,
                ForcedClosed, Established
  <2>. QED
    BY <2>1, <2>2, <2>3, <2>4
       DEF ProgramNext, ScriptStep, ProgressStep, UserStep, ReportStep
<1>. QED
  BY <1>1, <1>2, ProgramChannelInv, PTL DEF ProgramSpec

\* An interactive process that has lost no answer has no session but channel 1,
\* for any number of channels and whatever earlier processes left open.
THEOREM InteractiveClosesItsOwn == ProgramSpec => []ClosesItsOwn
<1>1. StartUpInv => ClosesItsOwn
  BY DEF StartUpInv, StartUp, ClosesItsOwn
<1>. QED
  BY <1>1, ProgramStartUp, PTL

\* An interactive process none of whose answers was lost or displaced comes to
\* its commands only with channel 1 as its session and open on the element,
\* whatever earlier processes left open and whatever the calls returned.
THEOREM CommandsFindChannel == ProgramSpec => CommandsHaveChannel
<1>1. ProgramInit => Selecting
  BY DEF ProgramInit, First, Selecting
<1>2. Selecting /\ [ProgramNext]_pvars => Selecting'
  <2>. SUFFICES ASSUME Selecting, [ProgramNext]_pvars, at' = "select_crypto"
                PROVE  Selecting'
    BY DEF Selecting
  <2>1. CASE ScriptStep
    <3>1. SelectCrypto /\ mode' = mode /\ mode = "interactive"
      BY <2>1 DEF ScriptStep, ScriptCall, Stay, own, Selecting
    <3>2. session' = session
      BY <3>1 DEF SelectCrypto, Guarded
    <3>3. CASE Established /\ session # NoSession
      BY <3>1, <3>2, <3>3 DEF SelectCrypto, Guarded, Goto, Selecting, NoSession
    <3>4. CASE ~ (Established /\ session # NoSession)
      <4>1. pc' = "returned" /\ ret' = -1
        BY <3>1, <3>4, Zenon DEF SelectCrypto, Guarded, Return
      <4>. QED
        BY <3>1, <4>1 DEF Selecting
    <3>. QED
      BY <3>3, <3>4
  <2>2. CASE ProgressStep
    BY <2>2 DEF ProgressStep, Progress, Stay, own, Selecting, ConnectTrial, Configure,
                AnswerOpen, AnswerClose, Answer, AnswerExists, AnswerSelect,
                AnswerCustom, AnswerCgla, Return
  <2>3. CASE UserStep \/ ReportStep
    BY <2>3 DEF UserStep, ReportStep, CommandCall, LibraryCall, Stay, own, Selecting,
                Report, Return
  <2>4. CASE Continue
    <3>1. pc' = "idle" /\ at' = Following /\ mode' = mode
      BY <2>4 DEF Continue, Resume
    <3>2. Following = "select_crypto" => mode = "interactive" \/ at = "select_crypto"
      BY Zenon DEF Following, After
    <3>. QED
      BY <3>1, <3>2 DEF Selecting
  <2>5. ASSUME NEW m \in Modes, NextProcess(m) PROVE Selecting'
    BY <2>5 DEF NextProcess, First, Selecting
  <2>6. CASE UNCHANGED pvars \/ Intrude
    BY <2>6 DEF pvars, Intrude, vars, own, Selecting
  <2>. QED
    BY <2>1, <2>2, <2>3, <2>4, <2>5, <2>6 DEF ProgramNext
<1>3. /\ Selecting /\ ChannelInv /\ StartUpInv
      /\ [ProgramNext]_pvars
      => [at = "select_crypto" /\ at' = "commands"
            => trouble \/ (session = 1 /\ 1 \in channels)]_pvars
  <2>. SUFFICES ASSUME Selecting, ChannelInv, StartUpInv, [ProgramNext]_pvars,
                       at = "select_crypto", at' = "commands", ~ trouble
                PROVE  session = 1 /\ 1 \in channels
    OBVIOUS
  <2>1. CASE Continue
    <3>1. at' = Following /\ pc = "returned"
      BY <2>1 DEF Continue, Resume
    <3>2. ret = 0
      BY <3>1, Zenon DEF Following, After
    <3>3. session # NoSession /\ session \in {NoSession, 1} /\ ~ stray
      BY <3>1, <3>2 DEF Selecting, StartUpInv, StartUp
    <3>. QED
      BY <3>3 DEF ChannelInv, SessionIsOpen
  <2>2. ASSUME NEW m \in Modes, NextProcess(m) PROVE FALSE
    BY <2>2 DEF NextProcess, First
  <2>3. CASE UNCHANGED pvars \/ Intrude
    BY <2>3 DEF pvars, Intrude, own
  <2>. QED
    BY <2>1, <2>2, <2>3
       DEF ProgramNext, ScriptStep, ProgressStep, UserStep, ReportStep, Stay, own
<1>. QED
  BY <1>1, <1>2, <1>3, ProgramChannelInv, ProgramStartUp, PTL
     DEF ProgramSpec, CommandsHaveChannel
=============================================================================
