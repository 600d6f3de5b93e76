--------------------------- MODULE Console_proofs ---------------------------
(***************************************************************************)
(* Proofs about Console, for every set of users, files, passwords and      *)
(* values, every password of the loop, and any other programs between its  *)
(* processes: nothing is lost or refused, and processes may die anywhere.  *)
(***************************************************************************)
EXTENDS Console, Complete_proofs

Undisturbed == MaxLost = 0 /\ "refuse" \notin Faults

(* One exchange.                                                            *)

\* Without losses and refusals every command is answered.
LEMMA Answers1 ==
  ASSUME Undisturbed, StorageInv, NEW c, Send(c)
  PROVE  Answered(c)
BY NoneLost DEF Undisturbed, Send, Refused, Lost, Lose

\* Where a command leads, and which commands make files go away.
LEMMA ExchangeMoves ==
  ASSUME CardTypeOK, NEW c, Answered(c)
  PROVE  /\ dir' \in {dir, Root, c.user}
         /\ node' = "kf" => node = "kf" \/ (c.node = "kf" /\ c.ins \in {"SELECT", "SELECT FCP",
                                                                        "CREATE"})
         /\ \A u \in Users, n \in Nodes :
              lcs[u][n] # "none" /\ lcs'[u][n] = "none" => c.ins = "DELETE"
<1>1. PICK x \in Answers(c) : Execute(c, x)
  BY DEF Answered
<1>2. CASE ~ Accepts(c)
  BY <1>1, <1>2 DEF Execute, fileVars
<1>3. CASE Accepts(c)
  <2>1. dir' \in {dir, Root, c.user}
    BY <1>1, <1>3 DEF Execute, SelectAid, Select, Create, AppendRecord, ChangeReferenceData,
       Activate, DeleteDf, DeleteFile, Verify, UpdateBinary, List, Home, selectVars, cardVars
  <2>2. node' = "kf" => node = "kf" \/ (c.node = "kf" /\ c.ins \in {"SELECT", "SELECT FCP",
                                                                    "CREATE"})
    BY <1>1, <1>3 DEF Execute, SelectAid, Select, Create, AppendRecord, ChangeReferenceData,
       Activate, DeleteDf, DeleteFile, Verify, UpdateBinary, List, selectVars, cardVars
  <2>3. ASSUME NEW u \in Users, NEW n \in Nodes,
               lcs[u][n] # "none", lcs'[u][n] = "none", c.ins # "DELETE"
        PROVE  FALSE
    <3>1. ASSUME NEW d, NEW k, NEW s \in {"init", "use"}, lcs' = SetNode(d, k, s) PROVE FALSE
      BY <2>3, <3>1 DEF SetNode, CardTypeOK
    <3>2. UNCHANGED lcs \/ Create(c) \/ Activate(c)
      BY <1>1, <1>3, <2>3 DEF Execute, SelectAid, Select, AppendRecord, ChangeReferenceData,
         DeleteDf, DeleteFile, Verify, UpdateBinary, List, fileVars, cardVars
    <3>. QED
      BY <2>3, <3>1, <3>2 DEF Create, Activate
  <2>. QED
    BY <2>1, <2>2, <2>3
<1>. QED
  BY <1>2, <1>3

\* Whose password stands behind the verification.
LEMMA KeyMoves ==
  ASSUME CardTypeOK, NEW c, Answered(c), auth', dir' \in Users,
         c.ins = "DELETE" => node # "kf"
  PROVE  \/ auth /\ dir' = dir /\ pin'[dir] = pin[dir]
         \/ c.ins \in {"VERIFY", "CHANGE REFERENCE DATA"} /\ pin'[dir'] = c.arg
<1>1. PICK x \in Answers(c) : Execute(c, x)
  BY DEF Answered
<1>2. CASE ~ Accepts(c)
  BY <1>1, <1>2 DEF Execute, fileVars
<1>3. CASE Accepts(c) /\ ChangeReferenceData(c)
  BY <1>3 DEF ChangeReferenceData, selectVars, CardTypeOK
<1>4. CASE Accepts(c) /\ Verify(c)
  BY <1>4 DEF Accepts, Verify, fileVars
<1>5. CASE Accepts(c) /\ (DeleteDf(c) \/ DeleteFile(c))
  BY <1>5 DEF DeleteDf, DeleteFile, CardTypeOK
<1>6. CASE \/ SelectAid(c) \/ Select(c) \/ Create(c) \/ AppendRecord(c)
           \/ Activate(c) \/ UpdateBinary(c) \/ List(c, x) \/ UNCHANGED cardVars
  BY <1>6 DEF SelectAid, Select, Create, AppendRecord, Activate, UpdateBinary, List,
     fileVars, selectVars, cardVars
<1>. QED
  BY <1>1, <1>2, <1>3, <1>4, <1>5, <1>6 DEF Execute

\* What DELETE of the current file does.
LEMMA CurrentDeleted ==
  ASSUME CardTypeOK, Answered(Current("DELETE"))
  PROVE  \/ UNCHANGED <<lcs, records, pin, data, dir, node>> /\ (auth' <=> auth)
         \/ /\ dir \in Users /\ (auth \/ lcs[dir][node] = "init")
            /\ \A u \in Users : u # dir => lcs'[u] = lcs[u] /\ pin'[u] = pin[u]
                                           /\ data'[u] = data[u]
            /\ \/ node = "df" /\ dir' = Root /\ ~ auth' /\ lcs'[dir] = NoFiles
               \/ /\ node # "df" /\ dir' = dir /\ (auth' <=> auth)
                  /\ \A n \in Nodes : lcs'[dir][n] = IF n = node THEN "none" ELSE lcs[dir][n]
                  /\ \A f \in Files : f # node => data'[dir][f] = data[dir][f]
                  /\ node # "kf" => pin'[dir] = pin[dir]
<1>. DEFINE c == Current("DELETE")
<1>1. PICK x \in Answers(c) : Execute(c, x)
  BY DEF Answered
<1>2. c.ins = "DELETE"
  BY DEF Current, Apdu
<1>3. CASE ~ Accepts(c)
  BY <1>1, <1>2, <1>3 DEF Execute, fileVars, CardTypeOK
<1>4. CASE Accepts(c)
  <2>1. dir \in Users /\ (auth \/ lcs[dir][node] = "init")
    BY <1>2, <1>4 DEF Accepts, CurrentIs, Granted
  <2>2. DeleteDf(c) \/ DeleteFile(c)
    BY <1>1, <1>4, DeleteDone
  <2>. HIDE DEF c
  <2>3. CASE DeleteDf(c)
    BY <2>1, <2>3 DEF DeleteDf, CardTypeOK
  <2>4. CASE DeleteFile(c)
    <3>1. /\ node # "df" /\ dir' = dir /\ (auth' <=> auth)
          /\ lcs' = SetNode(dir, node, "none")
          /\ pin' = [pin EXCEPT ![dir] = IF node = "kf" THEN None ELSE @]
          /\ data' = [data EXCEPT ![dir] =
                        [f \in Files |-> IF f = node THEN Blank ELSE data[dir][f]]]
      BY <2>4 DEF DeleteFile
    <3>2. /\ \A u \in Users : u # dir => lcs'[u] = lcs[u]
          /\ \A n \in Nodes : lcs'[dir][n] = IF n = node THEN "none" ELSE lcs[dir][n]
      BY <2>1, <3>1 DEF SetNode, CardTypeOK
    <3>3. \A u \in Users : u # dir => pin'[u] = pin[u] /\ data'[u] = data[u]
      BY <3>1 DEF CardTypeOK
    <3>4. \A f \in Files : f # node => data'[dir][f] = data[dir][f]
      BY <2>1, <3>1 DEF CardTypeOK
    <3>5. node # "kf" => pin'[dir] = pin[dir]
      BY <2>1, <3>1 DEF CardTypeOK
    <3>. QED
      BY <2>1, <3>1, <3>2, <3>3, <3>4, <3>5
  <2>. QED
    BY <2>2, <2>3, <2>4
<1>. QED
  BY <1>3, <1>4

-----------------------------------------------------------------------------
(* The two words that are no calls.                                         *)

TaskCommand(c) ==
  \/ c = Apdu("SELECT", BadUser, "df", None)
  \/ \E ins \in {"DELETE", "SELECT FIRST", "SELECT NEXT"} : c = Current(ins)

\* SELECT of a DF that nobody has created changes nothing.
LEMMA SelectsNothing ==
  ASSUME CardTypeOK, Answered(Apdu("SELECT", BadUser, "df", None))
  PROVE  /\ UNCHANGED <<lcs, records, pin, data, dir, node, unlisted>>
         /\ auth' = auth /\ sw' = "not found" /\ payload' = None
<1>. DEFINE c == Apdu("SELECT", BadUser, "df", None)
<1>1. /\ c.ins = "SELECT" /\ c.user = BadUser /\ c.node = "df"
  BY DEF Apdu
<1>2. PICK x \in Answers(c) : Execute(c, x) /\ sw' = StatusOf(c) /\ payload' = x
  BY DEF Answered
<1>3. ~ Accepts(c)
  <2>1. Home(BadUser, "df") = BadUser /\ BadUser \notin Users
    BY StorageAssumption, ElementAssumption DEF Home
  <2>. QED
    BY <1>1, <2>1 DEF Accepts, Exists
<1>. HIDE DEF c
<1>. QED
  BY <1>1, <1>2, <1>3 DEF Execute, StatusOf, Answers, CardTypeOK, fileVars

\* DELETE puts no file in use, and changes none that stays in use.
LEMMA DeleteLeavesWhole ==
  ASSUME CardTypeOK, UsedFileIsWhole, Answered(Current("DELETE"))
  PROVE  UsedFileIsWhole'
<1>1. SUFFICES ASSUME NEW u \in Users, NEW f \in Files, lcs'[u][f] = "use"
               PROVE  lcs[u][f] = "use" /\ data'[u][f] = data[u][f]
  BY DEF UsedFileIsWhole
<1>2. f \in Nodes
  BY NodeNames
<1>3. u = dir /\ lcs'[dir] = NoFiles => FALSE
  BY <1>1, <1>2 DEF NoFiles
<1>. QED
  BY <1>1, <1>2, <1>3, CurrentDeleted

\* SELECT first and next only list.
LEMMA OnlyLists ==
  ASSUME NEW ins \in {"SELECT FIRST", "SELECT NEXT"}, Answered(Current(ins))
  PROVE  UNCHANGED <<lcs, records, pin, data, dir, node>> /\ (auth' <=> auth)
<1>. DEFINE c == Current(ins)
<1>1. PICK x \in Answers(c) : Execute(c, x)
  BY DEF Answered
<1>2. c.ins \in {"SELECT FIRST", "SELECT NEXT"}
  BY DEF Current, Apdu
<1>. HIDE DEF c
<1>3. CASE Accepts(c)
  <2>1. List(c, x)
    BY <1>1, <1>2, <1>3 DEF Execute, SelectAid, Select, Create, AppendRecord,
       ChangeReferenceData, Activate, DeleteDf, DeleteFile, Verify, UpdateBinary
  <2>. QED
    BY <2>1 DEF List, fileVars
<1>4. CASE ~ Accepts(c)
  <2>1. UNCHANGED <<lcs, records, pin, data, dir, node>>
    BY <1>1, <1>4 DEF Execute, fileVars
  <2>2. auth' = (auth /\ ~ (c.ins = "VERIFY" /\ c.user = dir))
    BY <1>1, <1>4 DEF Execute
  <2>3. c.ins # "VERIFY"
    BY <1>2
  <2>. QED
    BY <2>1, <2>2, <2>3
<1>. QED
  BY <1>3, <1>4

\* The exchanges of these words keep what holds between calls.
LEMMA TaskStep ==
  ASSUME Undisturbed, Trusted, pc = "idle", KeepClient,
         NEW c, TaskCommand(c), Send(c)
  PROVE  Trusted'
<1>1. Answered(c) /\ CardTypeOK /\ UsedFileIsWhole /\ buf = Blank
  BY Answers1 DEF Trusted, StorageInv, TypeOK, ReliableInv, Copied
<1>2. CardTypeOK' /\ RspTypeOK'
  <2>1. CASE c = Apdu("SELECT", BadUser, "df", None)
    <3>1. CardTypeOK' /\ sw' \in Status /\ payload' \in Payloads
      BY <1>1, <2>1, SelectsNothing DEF CardTypeOK, Status, Payloads
    <3>2. lost' \in 0..MaxLost
      BY <1>1 DEF Answered, Trusted, StorageInv, TypeOK
    <3>. QED
      BY <3>1, <3>2 DEF RspTypeOK
  <2>2. ASSUME NEW ins \in {"DELETE", "SELECT FIRST", "SELECT NEXT"}, c = Current(ins)
        PROVE  CardTypeOK' /\ RspTypeOK'
    <3>1. CommandOK(c)
      BY <2>2, Commands DEF Plain
    <3>. QED
      BY <3>1, Exchange DEF Trusted, StorageInv
  <2>. QED
    BY <2>1, <2>2 DEF TaskCommand
<1>3. UsedFileIsWhole'
  <2>1. CASE c = Current("DELETE")
    BY <1>1, <2>1, DeleteLeavesWhole
  <2>2. CASE c = Apdu("SELECT", BadUser, "df", None)
    <3>1. UNCHANGED <<lcs, records, pin, data>>
      BY <1>1, <2>2, SelectsNothing
    <3>. QED
      BY <3>1, QuietFiles DEF Trusted
  <2>3. ASSUME NEW ins \in {"SELECT FIRST", "SELECT NEXT"}, c = Current(ins)
        PROVE  UsedFileIsWhole'
    <3>1. Answered(Current(ins))
      BY <1>1, <2>3
    <3>2. UNCHANGED <<lcs, records, pin, data>>
      BY <3>1, OnlyLists
    <3>. QED
      BY <3>2, QuietFiles DEF Trusted
  <2>. QED
    BY <2>1, <2>2, <2>3 DEF TaskCommand
<1>4. /\ UNCHANGED <<pc, op, user, file, pwd, val, session>>
      /\ UNCHANGED <<exists, i, len, buf, found, repeated, ret>>
  BY DEF KeepClient, callVars, workVars
<1>5. TypeOK'
  BY <1>2, <1>4 DEF Trusted, StorageInv, TypeOK, RspTypeOK
<1>6. Fits(pc)' /\ LoopOK' /\ RspFits'
  BY <1>4, FitsReturned, FitsStable DEF Trusted, StorageInv, LoopOK, RspFits, callVars
<1>7. Calling' /\ Located' /\ HalfMade' /\ Verified' /\ Written' /\ Copied'
  BY <1>1, <1>4 DEF Calling, Located, HalfMade, Verified, Written, Copied, VerifiedSteps,
                    RegisterSteps, CreateSteps
<1>. QED
  BY <1>3, <1>5, <1>6, <1>7 DEF Trusted, StorageInv, ReliableInv

-----------------------------------------------------------------------------
(* The exchanges of a call.                                                 *)

\* Where the current file can be a key file, and where it is asked for.
KeyFileSteps == {"select kf", "change ref data", "select kf use", "activate kf",
                 "select df use"}
KeyFileNamed == {"create kf", "select kf", "select kf use"}

\* Whom a command is for, and where those are sent that matter here.
OfTheCall(c) ==
  /\ c.user = user
  /\ c.ins = "DELETE" => pc \in {"delete df", "delete bf"}
  /\ c.ins = "VERIFY" => c.arg = pwd /\ op \in PasswordOps
  /\ c.ins = "CHANGE REFERENCE DATA" => c.arg = pwd /\ op \in PasswordOps
  /\ c.ins \in {"SELECT", "SELECT FCP", "CREATE"} /\ c.node = "kf" => pc \in KeyFileNamed

Sends == \E c : Send(c) /\ OfTheCall(c)

\* The commands of a registration.
LEMMA RegisterSends ==
  ASSUME StorageInv, RegisterStep
  PROVE  Sends
<1>1. pc \in RegSteps /\ (pc = "create df" \/ pc \in RegisterSteps)
  BY DEF RegisterStep, RegSteps, RegisterSteps, CreateUserDf, CreateUserEfArr,
     SelectUserEfArr, AddRecordEfArr, SelectArrUse, ActivateArr, CreateKf, SelectKf,
     ChangeRefData, SelectKfUse, ActivateKf, SelectDfUse, ActivateDf, Checked, Ignored
<1>2. op \in PasswordOps
  BY <1>1, RegisterFits DEF StorageInv, PasswordOps
<1>3. /\ \A n \in {"df", "arr"} : OfTheCall(UserFile(n)) /\ OfTheCall(CreateFile(n))
      /\ \A ins \in {"APPEND RECORD", "ACTIVATE"} : OfTheCall(Current(ins))
      /\ OfTheCall(Apdu("CHANGE REFERENCE DATA", user, "kf", pwd))
      /\ pc \in KeyFileNamed => OfTheCall(UserFile("kf")) /\ OfTheCall(CreateFile("kf"))
  BY <1>2 DEF OfTheCall, UserFile, CreateFile, Current, Apdu
<1>4. CASE CreateUserDf
  BY <1>3, <1>4 DEF Sends, CreateUserDf, Checked
<1>5. CASE CreateUserEfArr \/ SelectUserEfArr \/ SelectArrUse \/ SelectDfUse
  BY <1>3, <1>5 DEF Sends, CreateUserEfArr, SelectUserEfArr, SelectArrUse, SelectDfUse, Checked
<1>6. CASE ActivateArr \/ ActivateDf \/ ActivateKf \/ AddRecordEfArr
  BY <1>3, <1>6 DEF Sends, ActivateArr, ActivateDf, ActivateKf, AddRecordEfArr, Checked, Ignored
<1>7. CASE CreateKf \/ SelectKf \/ SelectKfUse
  <2>1. pc \in KeyFileNamed
    BY <1>7 DEF CreateKf, SelectKf, SelectKfUse, Ignored, KeyFileNamed
  <2>. QED
    BY <1>3, <1>7, <2>1 DEF Sends, CreateKf, SelectKf, SelectKfUse, Ignored
<1>8. CASE ChangeRefData
  BY <1>3, <1>8 DEF Sends, ChangeRefData, Ignored
<1>. QED
  BY <1>4, <1>5, <1>6, <1>7, <1>8 DEF RegisterStep

\* The commands that concern a file, and the deletions.
LEMMA FileSends ==
  ASSUME StorageInv, FileStep \/ SelectDfDelete \/ DeleteUserDf, pc' # "idle"
  PROVE  Sends
<1>1. CASE CreateBf \/ SelectBfWrite \/ SelectBfUse \/ SelectBfDelete
  <2>1. file \in Files
    BY <1>1 DEF CreateBf, SelectBfWrite, SelectBfUse, SelectBfDelete, Checked, Ignored,
       StorageInv, Fits, BfSteps, CreateSteps
  <2>2. file # "kf"
    BY <2>1, StepNames
  <2>3. OfTheCall(UserFile(file)) /\ OfTheCall(CreateFile(file))
    BY <2>2 DEF OfTheCall, UserFile, CreateFile, Apdu
  <2>. QED
    BY <1>1, <2>3 DEF Sends, CreateBf, SelectBfWrite, SelectBfUse, SelectBfDelete, Checked,
       Ignored
<1>2. CASE WriteBf
  <2>1. OfTheCall(Apdu("UPDATE BINARY", user, file, <<i + 1, val>>))
    BY DEF OfTheCall, Apdu
  <2>. QED
    BY <1>2, <2>1 DEF Sends, WriteBf
<1>3. CASE ActivateBf
  <2>1. OfTheCall(Current("ACTIVATE"))
    BY DEF OfTheCall, Current, Apdu
  <2>. QED
    BY <1>3, <2>1 DEF Sends, ActivateBf, Checked
<1>4. CASE DeleteBf \/ DeleteUserDf
  <2>1. OfTheCall(Current("DELETE"))
    BY <1>4 DEF OfTheCall, Current, Apdu, DeleteBf, DeleteUserDf, Checked
  <2>. QED
    BY <1>4, <2>1 DEF Sends, DeleteBf, DeleteUserDf, Checked
<1>5. CASE SelectBfRead
  <2>1. file \in Files
    BY <1>5 DEF SelectBfRead, StorageInv, Fits, BfSteps
  <2>2. file # "kf"
    BY <2>1, StepNames
  <2>3. OfTheCall(Apdu("SELECT FCP", user, file, None))
    BY <2>2 DEF OfTheCall, Apdu
  <2>. QED
    BY <1>5, <2>3 DEF Sends, SelectBfRead
<1>6. CASE ReadBf
  <2>1. OfTheCall(Apdu("READ BINARY", user, file, i + 1))
    BY DEF OfTheCall, Apdu
  <2>. QED
    BY <1>6, <2>1 DEF Sends, ReadBf
<1>7. CASE SelectDfDelete
  <2>1. OfTheCall(UserFile("df"))
    BY DEF OfTheCall, UserFile, Apdu
  <2>. QED
    BY <1>7, <2>1 DEF Sends, SelectDfDelete, Checked
<1>8. CASE ReadNullSize
  BY <1>8 DEF ReadNullSize, Restart, Idle
<1>. QED
  BY <1>1, <1>2, <1>3, <1>4, <1>5, <1>6, <1>7, <1>8 DEF FileStep

\* Every step of a call but the selection of the applet is one exchange.
LEMMA CallSends ==
  ASSUME StorageInv, ClientStep, pc # "select aid", pc' # "idle"
  PROVE  Sends
<1>1. CASE CheckUserDf \/ OpenUserDf
  <2>1. OfTheCall(UserFile("df"))
    BY DEF OfTheCall, UserFile, Apdu
  <2>. QED
    BY <1>1, <2>1 DEF Sends, CheckUserDf, OpenUserDf
<1>2. CASE CheckBf
  <2>1. file \in Files
    BY <1>2 DEF CheckBf, StorageInv, Fits, BfSteps
  <2>2. file # "kf"
    BY <2>1, StepNames
  <2>3. OfTheCall(UserFile(file))
    BY <2>2 DEF OfTheCall, UserFile, Apdu
  <2>. QED
    BY <1>2, <2>3 DEF Sends, CheckBf
<1>3. CASE VerifyPin
  <2>1. op \in PasswordOps
    BY <1>3 DEF VerifyPin, StorageInv, Fits, PasswordOps
  <2>2. OfTheCall(Apdu("VERIFY", user, "kf", pwd))
    BY <2>1 DEF OfTheCall, Apdu
  <2>. QED
    BY <1>3, <2>2 DEF Sends, VerifyPin
<1>4. CASE ListFiles
  <2>1. \A ins \in {"SELECT FIRST", "SELECT NEXT"} : OfTheCall(Current(ins))
    BY DEF OfTheCall, Current, Apdu
  <2>. QED
    BY <1>4, <2>1 DEF Sends, ListFiles
<1>5. CASE FreeUninitialised
  BY <1>5 DEF FreeUninitialised, Restart, Idle
<1>6. CASE SelectCryptoAid
  BY <1>6 DEF SelectCryptoAid
<1>. QED
  BY <1>1, <1>2, <1>3, <1>4, <1>5, <1>6, RegisterSends, FileSends DEF ClientStep

-----------------------------------------------------------------------------
(* What holds between the words of the loop.                                *)

\* A call gets past the applet only over a channel, and none is under way
\* between words.
Places ==
  /\ pc \notin {"idle", "select aid", "returned"} => session
  /\ pc = "idle" => op = "none"
  /\ pc \in {"list first", "list next"} => op \in {"list_users", "list_files"}
  /\ task # "none" => who = "func2" /\ session /\ pc = "idle"

\* What a call of the loop is about.
Asked ==
  who = "func2" /\ pc # "idle" =>
    /\ user = (IF op = "list_users" THEN BadUser ELSE user_id)
    /\ op \in FileOps => file = file_id
    /\ op \in PasswordOps => pwd = Passwd
    /\ op = "delete_bf" => (typed = 0 => user_id = BadUser) /\ (typed = 1 => file_id = BadFile)

\* The current DF is that of the last user, and its key verified with the one
\* password.
AtLastUser == who = "func2" /\ session => pc = "select aid" \/ dir \in {Root, user_id}
OneKey == who = "func2" /\ session /\ auth /\ dir \in Users => pin[dir] = Passwd

\* Only a registration works on a key file.
NoKeyFile == session /\ node = "kf" => pc \in KeyFileSteps

\* Chunks read so far.
Chunks ==
  who = "func2" /\ pc = "read binary" =>
    /\ data_size_read = NChunks /\ len = NChunks
    /\ \A k \in 1..i : data_read[k] = <<user_id, file_id>>

ConsoleInv ==
  /\ ConsoleTypeOK /\ Places /\ Asked
  /\ AtLastUser /\ OneKey /\ NoKeyFile
  /\ Chunks /\ PrintsThisFile

\* A step of the library's, by whichever program.
LibraryStep == Word \/ CallStep \/ Returns \/ OtherCall \/ Session

\* These are steps of SecStorage.
LEMMA LibrarySteps == LibraryStep => Next
BY DEF LibraryStep, Word, CallStep, Returns, OtherCall, Session, Next

\* They keep what is proved of it.
LEMMA LibraryKeeps ==
  ASSUME Undisturbed, Trusted, Next
  PROVE  Trusted' /\ lost' = 0 /\ OwnerStep /\ TargetStep
<1>1. StorageInv'
  BY StorageStep DEF Kept, Trusted
<1>2. lost' = 0
  BY <1>1, NoneLostNext DEF Undisturbed
<1>. QED
  BY <1>1, <1>2, SafeNext DEF Trusted, Safe

\* The end of a process, in a call or between two.
LEMMA ProcessKeeps ==
  ASSUME Undisturbed, Trusted, NextProcess
  PROVE  Trusted'
<1>1. CASE Crash \/ ClientStep
  BY <1>1, LibraryKeeps DEF Next
<1>2. CASE pc = "idle" /\ Restart /\ UNCHANGED lost
  <2>1. StorageInv'
    BY <1>2, RestartKept DEF Kept, Trusted, StorageInv, TypeOK
  <2>2. UNCHANGED <<lcs, records, pin, data>> /\ pc' \in Resting /\ buf' = Blank
    BY <1>2 DEF Restart, Idle, cardVars, fileVars, Resting
  <2>. QED
    BY <2>1, <2>2, RestingKept DEF Trusted, Safe
<1>. QED
  BY <1>1, <1>2 DEF NextProcess

\* Every step of Console keeps what is proved of SecStorage.
LEMMA TrustedNext ==
  ASSUME Undisturbed, Trusted, Places, [ConsoleNext]_allVars
  PROVE  Trusted'
<1>1. CASE LibraryStep
  BY <1>1, LibrarySteps, LibraryKeeps
<1>2. CASE OtherWord \/ UNCHANGED allVars
  <2>1. UNCHANGED vars
    BY <1>2 DEF OtherWord, allVars
  <2>. QED
    BY <2>1, StorageStutter, ReliableStutter DEF Kept, Trusted
<1>3. CASE SelectAABB
  BY <1>3, TaskStep DEF SelectAABB, TaskCommand, Places
<1>4. CASE DeleteCurrent
  BY <1>4, TaskStep DEF DeleteCurrent, TaskCommand, Places
<1>5. CASE PrintFiles
  <2>1. pc = "idle" /\ KeepClient
    BY <1>5 DEF PrintFiles, Places
  <2>2. \E ins \in {"SELECT FIRST", "SELECT NEXT"} : Send(Current(ins))
    BY <1>5 DEF PrintFiles
  <2>. QED
    BY <2>1, <2>2, TaskStep DEF TaskCommand
<1>6. CASE NextProcess
  BY <1>6, ProcessKeeps
<1>. QED
  BY <1>1, <1>2, <1>3, <1>4, <1>5, <1>6 DEF ConsoleNext, LibraryStep

-----------------------------------------------------------------------------
(* Reads.                                                                   *)

\* A read that returns SEC_STORAGE_OK has just read a chunk, or a size.
LEMMA ReadReturns ==
  ASSUME Trusted, Places, ClientStep, pc' = "returned", ret' = "OK", op = "read_bf"
  PROVE  SelectBfRead \/ ReadBf
<1>1. CASE \/ RegisterStep \/ CreateBf \/ SelectBfWrite \/ WriteBf \/ SelectBfUse
           \/ ActivateBf \/ SelectDfDelete \/ DeleteUserDf \/ SelectBfDelete \/ DeleteBf
  <2>1. ActivateDf \/ ActivateBf \/ DeleteUserDf \/ DeleteBf
    BY <1>1, LastExchange DEF ReturnsOK
  <2>2. pc \in {"activate df", "activate bf", "delete df", "delete bf"}
    BY <2>1 DEF ActivateDf, ActivateBf, DeleteUserDf, DeleteBf, Checked
  <2>3. pc = "activate df" => op = "register"
    BY DEF Trusted, StorageInv, Fits, RegSteps, RegisterSteps
  <2>4. pc = "activate bf" => op = "create_bf"
    BY DEF Trusted, StorageInv, Fits, CreateSteps
  <2>5. pc \in {"delete df", "delete bf"} => op \in {"unregister", "delete_bf"}
    BY DEF Trusted, ReliableInv, Calling
  <2>. QED
    BY <2>2, <2>3, <2>4, <2>5
<1>2. CASE CheckUserDf \/ OpenUserDf \/ VerifyPin
  BY <1>2, Forks DEF Trusted
<1>3. CASE SelectCryptoAid \/ CheckBf
  BY <1>3 DEF SelectCryptoAid, AfterAid, CheckBf, Goto, Return
<1>4. CASE ListFiles
  BY <1>4 DEF ListFiles, Places
<1>5. CASE ReadNullSize \/ FreeUninitialised
  BY <1>5 DEF ReadNullSize, FreeUninitialised, Restart, Idle
<1>. QED
  BY <1>1, <1>2, <1>3, <1>4, <1>5 DEF ClientStep, FileStep

\* The steps that work on the key file stay at them until they leave it.
LEMMA KeyFileLeft ==
  ASSUME Undisturbed, Trusted, lost' = 0, ClientStep, pc' # "idle", node' = "kf",
         pc \in {"create kf"} \cup KeyFileSteps
  PROVE  pc' \in KeyFileSteps
<1>1. RegisterStep
  BY DEF ClientStep, FileStep, SelectCryptoAid, CheckUserDf, OpenUserDf, CheckBf, VerifyPin,
     SelectDfDelete, DeleteUserDf, ListFiles, FreeUninitialised, CreateBf, SelectBfWrite,
     WriteBf, SelectBfUse, ActivateBf, SelectBfRead, ReadNullSize, ReadBf, SelectBfDelete,
     DeleteBf, Checked, Ignored, KeyFileSteps
<1>2. CreateKf \/ SelectKf \/ ChangeRefData \/ SelectKfUse \/ ActivateKf \/ SelectDfUse
  BY <1>1 DEF RegisterStep, CreateUserDf, CreateUserEfArr, SelectUserEfArr, AddRecordEfArr,
     SelectArrUse, ActivateArr, ActivateDf, Checked, KeyFileSteps
<1>3. CASE CreateKf \/ SelectKf \/ ChangeRefData \/ SelectKfUse \/ ActivateKf
  BY <1>3 DEF CreateKf, SelectKf, ChangeRefData, SelectKfUse, ActivateKf, Ignored, Goto,
     KeyFileSteps
<1>4. CASE SelectDfUse
  <2>1. pc = "select df use" /\ Send(UserFile("df"))
    BY <1>4 DEF SelectDfUse, Checked
  <2>2. user \in Users /\ Home(user, "df") = user
    BY <2>1, StepNames DEF Trusted, StorageInv, Fits, Steps, Home
  <2>3. lcs[user]["df"] = "init"
    BY <2>1 DEF Trusted, ReliableInv, HalfMade, RegisterSteps
  <2>4. StorageInv /\ "df" \in Nodes
    BY NodeNames DEF Trusted
  <2>5. /\ sw' = "ok" => dir' = user /\ node' = "df" /\ lcs[user]["df"] # "none"
        /\ "refuse" \notin Faults /\ sw' # "ok" => lcs[user]["df"] = "none"
    BY <2>1, <2>2, <2>4, SelectExchange
  <2>6. sw' = "ok"
    BY <2>3, <2>5 DEF Undisturbed
  <2>. QED
    BY <2>5, <2>6
<1>. QED
  BY <1>2, <1>3, <1>4

-----------------------------------------------------------------------------
(* A step of a call.                                                        *)

\* The applet is selected with the root current and no key verified.
LEMMA AidMoves ==
  ASSUME Undisturbed, lost = 0, SelectCryptoAid, session
  PROVE  dir' = Root /\ node' = "df" /\ ~ auth' /\ UNCHANGED fileVars
<1>. DEFINE c == Current("SELECT AID")
<1>0. ~ Lose /\ "refuse" \notin Faults
  BY DEF Undisturbed, Lose
<1>1. PICK x \in Answers(c) : Execute(c, x)
  BY <1>0, Zenon DEF SelectCryptoAid
<1>2. c.ins = "SELECT AID"
  BY DEF Current, Apdu
<1>. HIDE DEF c
<1>. QED
  BY <1>1, <1>2 DEF Accepts, Execute, SelectAid, Select, Create, AppendRecord,
     ChangeReferenceData, Activate, DeleteDf, DeleteFile, Verify, UpdateBinary, List

\* What a call does to the selection.
LEMMA CallSelects ==
  ASSUME Undisturbed, Trusted, Trusted', lost' = 0, ConsoleInv, CallStep
  PROVE  AtLastUser' /\ OneKey' /\ NoKeyFile'
<1>1. /\ UNCHANGED <<op, user, file, pwd, session, who, user_id>> /\ pc \in Steps
      /\ ClientStep /\ pc' # "idle"
  BY CallKeeps DEF CallStep, callVars, idVars
<1>2. CASE pc = "select aid"
  <2>1. SelectCryptoAid
    BY <1>1, <1>2, AidStep
  <2>2. lost = 0
    BY NoneLost DEF Undisturbed, Trusted
  <2>3. session => dir' = Root /\ node' = "df" /\ ~ auth'
    BY <2>1, <2>2, AidMoves
  <2>. QED
    BY <1>1, <2>3 DEF AtLastUser, OneKey, NoKeyFile
<1>3. CASE pc # "select aid"
  <2>1. PICK c : Send(c) /\ OfTheCall(c)
    BY <1>1, <1>3, CallSends DEF Trusted, Sends
  <2>2. Answered(c) /\ CardTypeOK /\ CardTypeOK'
    BY <2>1, Answers1 DEF Trusted, StorageInv, TypeOK
  <2>3. AtLastUser'
    <3>1. dir' \in {dir, Root, user} /\ dir' \in Users \cup {Root}
      BY <2>1, <2>2, ExchangeMoves DEF OfTheCall, CardTypeOK
    <3>2. BadUser \notin Users \cup {Root}
      BY StorageAssumption
    <3>. QED
      BY <1>1, <1>3, <3>1, <3>2, StepNames DEF AtLastUser, ConsoleInv, Asked
  <2>4. session
    BY <1>1, <1>3, StepNames DEF ConsoleInv, Places
  <2>5. OneKey'
    <3>1. c.ins = "DELETE" => node # "kf"
      BY <2>1, <2>4 DEF OfTheCall, ConsoleInv, NoKeyFile, KeyFileSteps
    <3>2. SUFFICES ASSUME who' = "func2", auth', dir' \in Users
                   PROVE  pin'[dir'] = Passwd
      BY DEF OneKey
    <3>3. \/ auth /\ dir' = dir /\ pin'[dir] = pin[dir]
          \/ c.ins \in {"VERIFY", "CHANGE REFERENCE DATA"} /\ pin'[dir'] = c.arg
      BY <2>2, <3>1, <3>2, KeyMoves
    <3>. QED
      BY <1>1, <2>1, <2>4, <3>2, <3>3, StepNames DEF ConsoleInv, OneKey, Asked, OfTheCall
  <2>6. NoKeyFile'
    <3>1. SUFFICES ASSUME node' = "kf" PROVE pc' \in KeyFileSteps
      BY DEF NoKeyFile
    <3>2. node = "kf" \/ (c.node = "kf" /\ c.ins \in {"SELECT", "SELECT FCP", "CREATE"})
      BY <2>2, <3>1, ExchangeMoves
    <3>3. pc \in {"create kf"} \cup KeyFileSteps
      BY <2>1, <2>4, <3>2 DEF ConsoleInv, NoKeyFile, OfTheCall, KeyFileNamed, KeyFileSteps
    <3>. QED
      BY <1>1, <3>1, <3>3, KeyFileLeft
  <2>. QED
    BY <2>3, <2>5, <2>6
<1>. QED
  BY <1>2, <1>3

\* The size arrives before the first chunk.
LEMMA SizeArrives ==
  ASSUME Trusted, Trusted', lost' = 0, ConsoleInv, CallStep, SelectBfRead, who = "func2"
  PROVE  Chunks' /\ PrintsThisFile'
<1>. DEFINE c == Apdu("SELECT FCP", user, file, None)
<1>1. pc = "select bf read" /\ Send(c) /\ i' = i /\ StorageInv
  BY DEF SelectBfRead, Trusted
<1>2. file \in Files /\ i = 0
  BY <1>1, LetIn DEF VerifiedSteps, Trusted, StorageInv, LoopOK
<1>3. CASE sw' = "ok"
  <2>1. PICK x \in Answers(c) : Accepts(c) /\ payload' = x
    BY <1>1, <1>3, CommandDone
  <2>2. payload' = file
    BY <2>1 DEF Answers, Apdu
  <2>3. len' = NChunks /\ Proceed(IF len' = 0 THEN "returned" ELSE "read binary")
    BY <1>2, <1>3, <2>2 DEF SelectBfRead
  <2>4. len' # 0
    BY <2>3, ElementAssumption
  <2>5. pc' = "read binary"
    BY <2>3, <2>4 DEF Proceed, Goto
  <2>6. data_size_read' = NChunks
    BY <1>1, <1>3, <2>3 DEF CallStep, SizeRead
  <2>7. \A k \in 1..i' : FALSE
    <3>1. i' = 0
      BY <1>1, <1>2
    <3>. QED
      BY <3>1, NoChunk
  <2>. QED
    BY <2>3, <2>5, <2>6, <2>7 DEF Chunks, PrintsThisFile, Returned
<1>4. CASE sw' # "ok"
  <2>1. pc' = "returned" /\ ret' # "OK"
    BY <1>4 DEF SelectBfRead, Return
  <2>. QED
    BY <2>1 DEF Chunks, PrintsThisFile, Returned
<1>. QED
  BY <1>3, <1>4

\* Each chunk replaces what an earlier read left in its place.
LEMMA ChunkArrives ==
  ASSUME Trusted, ConsoleInv, CallStep, ReadBf, who = "func2"
  PROVE  Chunks' /\ PrintsThisFile'
<1>1. /\ pc = "read binary" /\ UNCHANGED <<len, who, user_id, file_id>>
      /\ data_size_read' = data_size_read
  BY DEF ReadBf, CallStep, SizeRead, idVars
<1>2. op = "read_bf" /\ user = user_id /\ file = file_id
  BY <1>1 DEF Trusted, ReliableInv, Calling, ConsoleInv, Asked, FileOps
<1>3. /\ i \in Nat /\ NChunks \in Nat /\ i < NChunks /\ len = NChunks
      /\ data_size_read = NChunks
      /\ \A k \in 1..i : data_read[k] = <<user_id, file_id>>
  <2>1. NChunks \in Nat /\ NRecords \in Nat
    BY ElementAssumption
  <2>2. i \in 0..NRecords + NChunks /\ i < len
    BY <1>1 DEF Trusted, StorageInv, TypeOK, LoopOK
  <2>3. len = NChunks /\ data_size_read = NChunks
        /\ \A k \in 1..i : data_read[k] = <<user_id, file_id>>
    BY <1>1 DEF ConsoleInv, Chunks
  <2>. QED
    BY <2>1, <2>2, <2>3
<1>4. CASE sw' = "ok"
  <2>1. i' = i + 1 /\ Proceed(IF i + 1 < len THEN "read binary" ELSE "returned")
    BY <1>4 DEF ReadBf
  <2>2. data_read' = [data_read EXCEPT ![i + 1] = <<user_id, file_id>>]
    BY <1>1, <1>2, <1>4 DEF CallStep, ChunkRead
  <2>3. \A k \in 1..(i + 1) : data_read'[k] = <<user_id, file_id>>
    <3>1. i + 1 \in 1..NChunks
      BY <1>3, NextChunk
    <3>2. data_read \in [1..NChunks -> {None} \cup (Users \X Files)]
      BY DEF ConsoleInv, ConsoleTypeOK
    <3>3. \A k \in 1..NChunks :
            data_read'[k] = IF k = i + 1 THEN <<user_id, file_id>> ELSE data_read[k]
      BY <2>2, <3>1, <3>2
    <3>4. \A k \in 1..(i + 1) : k \in 1..NChunks /\ (k # i + 1 => k \in 1..i)
      BY <1>3, NextChunk
    <3>. QED
      BY <1>3, <3>3, <3>4
  <2>4. CASE i + 1 < len
    <3>1. pc' = "read binary"
      BY <2>1, <2>4 DEF Proceed, Goto
    <3>2. Chunks'
      BY <1>1, <1>3, <2>1, <2>3 DEF Chunks
    <3>. QED
      BY <3>1, <3>2 DEF PrintsThisFile, Returned
  <2>5. CASE ~ (i + 1 < len)
    <3>1. i + 1 = NChunks
      BY <1>3, <2>5, NextChunk
    <3>2. pc' = "returned"
      BY <2>1, <2>5 DEF Proceed, Return
    <3>3. PrintsThisFile'
      BY <1>1, <1>3, <2>3, <3>1 DEF PrintsThisFile
    <3>. QED
      BY <3>2, <3>3 DEF Chunks
  <2>. QED
    BY <2>4, <2>5
<1>5. CASE sw' # "ok"
  <2>1. pc' = "returned" /\ ret' # "OK"
    BY <1>5 DEF ReadBf, Return
  <2>. QED
    BY <2>1 DEF Chunks, PrintsThisFile, Returned
<1>. QED
  BY <1>4, <1>5

\* A step of a call keeps the invariant.
LEMMA CallStepKeeps ==
  ASSUME Undisturbed, Trusted, Trusted', lost' = 0, ConsoleInv, CallStep
  PROVE  ConsoleInv'
<1>1. /\ UNCHANGED <<op, user, file, pwd, session, who, user_id, file_id, typed, task>>
      /\ pc \in Steps /\ ClientStep /\ pc' # "idle" /\ task = "none" /\ StorageInv
  BY CallKeeps DEF CallStep, callVars, idVars, Trusted
<1>2. ConsoleTypeOK'
  <2>1. data_read' \in [1..NChunks -> {None} \cup (Users \X Files)]
    <3>1. data_read \in [1..NChunks -> {None} \cup (Users \X Files)]
      BY DEF ConsoleInv, ConsoleTypeOK
    <3>2. CASE pc = "read binary"
      <4>1. user \in Users /\ file \in Files
        BY <3>2, LetIn DEF VerifiedSteps
      <4>. QED
        BY <3>1, <4>1 DEF CallStep, ChunkRead
    <3>3. CASE pc # "read binary"
      BY <3>1, <3>3 DEF CallStep, ChunkRead
    <3>. QED
      BY <3>2, <3>3
  <2>2. data_size_read' \in 0..NChunks \cup {Unset}
    <3>1. len' \in 0..NChunks
      BY DEF Trusted, StorageInv, TypeOK
    <3>. QED
      BY <3>1 DEF CallStep, SizeRead, ConsoleInv, ConsoleTypeOK
  <2>. QED
    BY <1>1, <2>1, <2>2 DEF ConsoleInv, ConsoleTypeOK
<1>3. Places'
  <2>1. pc' \notin {"idle", "select aid", "returned"} => session'
    <3>1. CASE pc = "select aid" /\ ~ session
      <4>1. SelectCryptoAid
        BY <1>1, <3>1, AidStep
      <4>2. pc' = "returned"
        BY <3>1, <4>1 DEF SelectCryptoAid, Return
      <4>. QED
        BY <4>2
    <3>2. CASE pc # "select aid"
      BY <1>1, <3>2, StepNames DEF ConsoleInv, Places
    <3>. QED
      BY <1>1, <3>1, <3>2
  <2>2. pc' \in {"list first", "list next"} => op' \in {"list_users", "list_files"}
    BY <1>1, Ways DEF ListFiles, ConsoleInv, Places
  <2>. QED
    BY <1>1, <2>1, <2>2 DEF Places
<1>4. Asked'
  BY <1>1, StepNames DEF ConsoleInv, Asked
<1>5. Chunks' /\ PrintsThisFile'
  <2>1. CASE who = "func2" /\ (SelectBfRead \/ ReadBf)
    BY <2>1, SizeArrives, ChunkArrives
  <2>2. CASE who # "func2"
    BY <1>1, <2>2 DEF Chunks, PrintsThisFile
  <2>3. CASE ~ (SelectBfRead \/ ReadBf)
    <3>1. pc' # "read binary"
      BY <1>1, <2>3, Ways
    <3>2. ~ Returned("read_bf")'
      BY <1>1, <2>3, ReadReturns DEF Returned, ConsoleInv
    <3>. QED
      BY <3>1, <3>2 DEF Chunks, PrintsThisFile
  <2>. QED
    BY <2>1, <2>2, <2>3
<1>. QED
  BY <1>2, <1>3, <1>4, <1>5, CallSelects DEF ConsoleInv

-----------------------------------------------------------------------------
(* The other steps.                                                         *)

\* The ids of a word are good ones or the ones the API refuses.
LEMMA IdsAreIds ==
  ASSUME ConsoleTypeOK, NEW o, NEW n \in 0..2,
         NEW u \in Users \cup {BadUser}, NEW f \in Files \cup {BadFile}, Ids(o, n, u, f)
  PROVE  user_id' \in Users \cup {BadUser} /\ file_id' \in Files \cup {BadFile}
<1>1. user_id \in Users \cup {BadUser} /\ file_id \in Files \cup {BadFile}
  BY DEF ConsoleTypeOK
<1>2. CASE o = "list_users"
  BY <1>1, <1>2 DEF Ids, idVars
<1>3. CASE o \in {"create_bf", "read_bf"}
  BY <1>1, <1>3 DEF Ids, TwoIds
<1>4. CASE o = "delete_bf"
  BY <1>1, <1>4 DEF Ids, DeleteIds
<1>5. CASE o \notin {"list_users", "create_bf", "read_bf", "delete_bf"}
  BY <1>1, <1>5 DEF Ids, OneId
<1>. QED
  BY <1>2, <1>3, <1>4, <1>5

\* A word of the loop that calls the API.
LEMMA WordKeeps == ConsoleInv /\ Word => ConsoleInv'
<1>. SUFFICES ASSUME ConsoleInv, Word PROVE ConsoleInv'
  OBVIOUS
<1>1. /\ who = "func2" /\ who' = who /\ pc = "idle" /\ pc' = "select aid"
      /\ task = "none" /\ task' = "none" /\ typed' \in 0..2
      /\ UNCHANGED <<dir, node, auth, pin, session, data_read, data_size_read>>
  BY DEF Word, Command, Call, cardVars, fileVars, selectVars, readVars
<1>2. PICK u \in Users \cup {BadUser}, f \in Files \cup {BadFile} : Ids(op', typed', u, f)
  BY DEF Word
<1>3. ConsoleTypeOK'
  BY <1>1, <1>2, IdsAreIds DEF ConsoleInv, ConsoleTypeOK
<1>4. Asked'
  <2>1. user' = (IF op' = "list_users" THEN BadUser ELSE user_id')
    BY DEF Word, Call, Arguments
  <2>2. op' \in FileOps => file' = file_id'
    BY DEF Word
  <2>3. op' \in PasswordOps => pwd' = Passwd
    BY DEF Word, PasswordFixed
  <2>4. op' = "delete_bf" => (typed' = 0 => user_id' = BadUser)
                             /\ (typed' = 1 => file_id' = BadFile)
    BY <1>2 DEF Ids, DeleteIds
  <2>. QED
    BY <2>1, <2>2, <2>3, <2>4 DEF Asked
<1>5. Places' /\ AtLastUser'
  BY <1>1 DEF Places, AtLastUser
<1>6. OneKey' /\ NoKeyFile'
  BY <1>1 DEF ConsoleInv, OneKey, NoKeyFile, KeyFileSteps
<1>7. Chunks' /\ PrintsThisFile'
  BY <1>1 DEF Chunks, PrintsThisFile, Returned
<1>. QED
  BY <1>3, <1>4, <1>5, <1>6, <1>7 DEF ConsoleInv

\* What goes on between two words, and the calls of another program.
LEMMA BetweenKeeps ==
  ASSUME ConsoleInv, OtherWord \/ Returns \/ OtherCall \/ Session
  PROVE  ConsoleInv'
<1>1. CASE OtherWord
  <2>1. /\ UNCHANGED <<pc, op, user, file, pwd, session, dir, node, auth, pin, i, len, ret>>
        /\ UNCHANGED <<who, user_id, file_id, typed, data_read, data_size_read>>
        /\ who = "func2" /\ pc = "idle" /\ session
        /\ task' \in {"select 0xAABB", "print first"}
    BY <1>1 DEF OtherWord, Command, vars, cardVars, fileVars, selectVars, clientVars,
       callVars, workVars, idVars, readVars
  <2>. QED
    BY <2>1 DEF ConsoleInv, ConsoleTypeOK, Tasks, Places, Asked, AtLastUser, OneKey,
       NoKeyFile, Chunks, PrintsThisFile, Returned
<1>2. CASE Returns
  <2>1. /\ pc = "returned" /\ pc' = "idle" /\ op' = "none" /\ typed' = 0
        /\ UNCHANGED <<session, dir, node, auth, pin>>
        /\ UNCHANGED <<who, user_id, file_id, task, data_read, data_size_read>>
    BY <1>2 DEF Returns, CallerResumes, Idle, cardVars, fileVars, selectVars, idVars, readVars
  <2>2. ConsoleTypeOK'
    BY <2>1 DEF ConsoleInv, ConsoleTypeOK
  <2>. QED
    BY <2>1, <2>2 DEF ConsoleInv, Places, Asked, AtLastUser, OneKey, NoKeyFile, KeyFileSteps,
       Chunks, PrintsThisFile, Returned
<1>3. CASE OtherCall
  <2>1. /\ who = "other" /\ pc = "idle" /\ pc' = "select aid"
        /\ UNCHANGED <<session, dir, node, auth, pin>>
        /\ UNCHANGED <<who, user_id, file_id, typed, task, data_read, data_size_read>>
    BY <1>3 DEF OtherCall, Call, cardVars, fileVars, selectVars, consoleVars, idVars, readVars
  <2>2. ConsoleTypeOK'
    BY <2>1 DEF ConsoleInv, ConsoleTypeOK
  <2>. QED
    BY <2>1, <2>2 DEF ConsoleInv, Places, Asked, AtLastUser, OneKey, NoKeyFile, KeyFileSteps,
       Chunks, PrintsThisFile, Returned
<1>4. CASE Session
  <2>1. /\ pc = "idle" /\ pc' = "idle" /\ task = "none"
        /\ UNCHANGED <<op, user, file, pwd>>
        /\ UNCHANGED <<who, user_id, file_id, typed, task, data_read, data_size_read>>
        /\ ~ session' \/ (dir' = Root /\ node' = "df" /\ ~ auth')
    BY <1>4 DEF Session, OpenChannel, CloseChannel, callVars, consoleVars, idVars, readVars
  <2>2. ConsoleTypeOK'
    BY <2>1 DEF ConsoleInv, ConsoleTypeOK
  <2>. QED
    BY <2>1, <2>2 DEF ConsoleInv, Places, Asked, AtLastUser, OneKey, NoKeyFile, Chunks,
       PrintsThisFile, Returned
<1>. QED
  BY <1>1, <1>2, <1>3, <1>4

\* A new process.
LEMMA ProcessStarts ==
  ASSUME StorageInv, NextProcess
  PROVE  ConsoleInv'
<1>1. Restart
  BY Ways DEF NextProcess, Crash, ReadNullSize, FreeUninitialised
<1>2. pc' = "idle" /\ op' = "none" /\ session' = FALSE
  BY <1>1 DEF Restart, Idle
<1>3. PICK program \in {"func2", "other"} : Fresh(program)
  BY DEF NextProcess
<1>4. ConsoleTypeOK'
  BY <1>3, ConsoleAssumption DEF Fresh, ConsoleTypeOK, Tasks, Blank, Unset
<1>. QED
  BY <1>2, <1>3, <1>4 DEF ConsoleInv, Fresh, Places, Asked, AtLastUser, OneKey, NoKeyFile,
     Chunks, PrintsThisFile, Returned

\* The exchanges of the two words that are no calls.
LEMMA TaskKeeps ==
  ASSUME Undisturbed, Trusted, ConsoleInv, SelectAABB \/ DeleteCurrent \/ PrintFiles
  PROVE  ConsoleInv'
<1>1. /\ task # "none" /\ task' \in Tasks
      /\ UNCHANGED <<pc, op, user, file, pwd, session, i, len, ret>>
      /\ UNCHANGED <<who, user_id, file_id, typed, data_read, data_size_read>>
  BY DEF SelectAABB, DeleteCurrent, PrintFiles, KeepClient, callVars, workVars, idVars,
     readVars, Tasks
<1>2. who = "func2" /\ pc = "idle" /\ session
  BY <1>1 DEF ConsoleInv, Places
<1>3. CardTypeOK /\ StorageInv
  BY DEF Trusted, StorageInv, TypeOK
<1>4. AtLastUser /\ OneKey /\ node # "kf"
  BY <1>2 DEF ConsoleInv, NoKeyFile, KeyFileSteps
<1>5. AtLastUser' /\ OneKey' /\ node' # "kf"
  <2>1. CASE SelectAABB
    <3>1. Answered(Apdu("SELECT", BadUser, "df", None))
      BY <1>3, <2>1, Answers1 DEF SelectAABB
    <3>2. UNCHANGED <<dir, node, pin>> /\ auth' = auth
      BY <1>3, <3>1, SelectsNothing
    <3>. QED
      BY <1>1, <1>4, <3>2 DEF AtLastUser, OneKey
  <2>2. CASE DeleteCurrent
    <3>1. Answered(Current("DELETE"))
      BY <1>3, <2>2, Answers1 DEF DeleteCurrent
    <3>2. \/ UNCHANGED <<pin, dir>> /\ (auth' <=> auth)
          \/ dir' = Root /\ ~ auth'
          \/ dir \in Users /\ dir' = dir /\ (auth' <=> auth) /\ pin'[dir] = pin[dir]
      BY <1>3, <1>4, <3>1, CurrentDeleted
    <3>3. Current("DELETE").node # "kf"
      BY DEF Current, Apdu
    <3>4. node' # "kf"
      BY <1>3, <1>4, <3>1, <3>3, ExchangeMoves
    <3>. QED
      BY <1>1, <1>4, <3>2, <3>4 DEF AtLastUser, OneKey
  <2>3. CASE PrintFiles
    <3>1. PICK ins \in {"SELECT FIRST", "SELECT NEXT"} : Answered(Current(ins))
      BY <1>3, <2>3, Answers1 DEF PrintFiles
    <3>2. UNCHANGED <<dir, node, pin>> /\ (auth' <=> auth)
      BY <3>1, OnlyLists
    <3>. QED
      BY <1>1, <1>4, <3>2 DEF AtLastUser, OneKey
  <2>. QED
    BY <2>1, <2>2, <2>3
<1>6. ConsoleTypeOK' /\ Places' /\ Asked'
  BY <1>1, <1>2 DEF ConsoleInv, ConsoleTypeOK, Places, Asked
<1>. QED
  BY <1>1, <1>2, <1>5, <1>6 DEF ConsoleInv, NoKeyFile, Chunks, PrintsThisFile, Returned

-----------------------------------------------------------------------------
(* The theorems.                                                            *)

Steady == Trusted /\ ConsoleInv

\* The first process.
LEMMA SteadyInit == ConsoleInit => Steady
<1>. SUFFICES ASSUME ConsoleInit PROVE Steady
  OBVIOUS
<1>1. Trusted
  BY StorageInit, ReliableInit DEF ConsoleInit, Trusted
<1>2. pc = "idle" /\ op = "none" /\ session = FALSE
  BY DEF ConsoleInit, Init, ClientInit
<1>3. ConsoleTypeOK
  BY ConsoleAssumption DEF ConsoleInit, ConsoleTypeOK, Tasks, Blank, Unset
<1>. QED
  BY <1>1, <1>2, <1>3 DEF Steady, ConsoleInv, ConsoleInit, Places, Asked, AtLastUser, OneKey,
     NoKeyFile, Chunks, PrintsThisFile, Returned

\* A step that changes nothing.
LEMMA ConsoleStutter == ConsoleInv /\ UNCHANGED allVars => ConsoleInv'
<1>. SUFFICES ASSUME ConsoleInv, UNCHANGED allVars PROVE ConsoleInv'
  OBVIOUS
<1>1. /\ UNCHANGED <<pc, op, user, file, pwd, session, dir, node, auth, pin, i, len, ret>>
      /\ UNCHANGED <<who, user_id, file_id, typed, task, data_read, data_size_read>>
  BY DEF allVars, vars, cardVars, fileVars, selectVars, clientVars, callVars, workVars,
     consoleVars, idVars, readVars
<1>2. ConsoleTypeOK' /\ Places' /\ Asked'
  BY <1>1 DEF ConsoleInv, ConsoleTypeOK, Places, Asked
<1>3. AtLastUser' /\ OneKey' /\ NoKeyFile'
  BY <1>1 DEF ConsoleInv, AtLastUser, OneKey, NoKeyFile
<1>4. Chunks' /\ PrintsThisFile'
  BY <1>1 DEF ConsoleInv, Chunks, PrintsThisFile, Returned
<1>. QED
  BY <1>2, <1>3, <1>4 DEF ConsoleInv

\* What a step of a call keeps.
LEMMA CallTrusted ==
  ASSUME Undisturbed, Trusted, CallStep
  PROVE  Trusted' /\ lost' = 0 /\ OwnerStep /\ TargetStep
<1>1. Next
  BY DEF CallStep, Next
<1>. QED
  BY <1>1, LibraryKeeps

\* Every step keeps the invariant.
LEMMA SteadyNext ==
  ASSUME Undisturbed, Steady, [ConsoleNext]_allVars
  PROVE  Steady'
<1>1. Trusted /\ ConsoleInv /\ Places /\ StorageInv
  BY DEF Steady, ConsoleInv, Trusted
<1>2. Trusted'
  BY <1>1, TrustedNext
<1>3. CASE CallStep
  BY <1>1, <1>3, CallTrusted, CallStepKeeps DEF Steady
<1>4. CASE ~ CallStep
  <2>1. ConsoleInv'
    BY <1>1, <1>4, WordKeeps, BetweenKeeps, ProcessStarts, TaskKeeps, ConsoleStutter
       DEF ConsoleNext
  <2>. QED
    BY <1>2, <2>1 DEF Steady
<1>. QED
  BY <1>3, <1>4

\* Only calls and the DELETE of delete_df change files.
LEMMA QuietConsole ==
  ASSUME Undisturbed, Steady, [ConsoleNext]_allVars
  PROVE  \/ CallStep \/ DeleteCurrent
         \/ UNCHANGED <<lcs, pin>>
<1>1. CardTypeOK /\ StorageInv
  BY DEF Steady, Trusted, StorageInv, TypeOK
<1>2. CASE Word \/ OtherWord \/ OtherCall \/ UNCHANGED allVars
  BY <1>2 DEF Word, OtherWord, OtherCall, Call, allVars, vars, cardVars, fileVars
<1>3. CASE Returns \/ Session
  BY <1>3 DEF Returns, CallerResumes, Session, OpenChannel, CloseChannel, cardVars, fileVars
<1>4. CASE NextProcess
  <2>1. Restart
    BY <1>1, <1>4, Ways DEF NextProcess, Crash, ReadNullSize, FreeUninitialised
  <2>. QED
    BY <2>1 DEF Restart, cardVars, fileVars
<1>5. CASE SelectAABB
  BY <1>1, <1>5, Answers1, SelectsNothing DEF SelectAABB
<1>6. CASE PrintFiles
  <2>1. PICK ins \in {"SELECT FIRST", "SELECT NEXT"} : Answered(Current(ins))
    BY <1>1, <1>6, Answers1 DEF PrintFiles
  <2>. QED
    BY <2>1, OnlyLists
<1>. QED
  BY <1>2, <1>3, <1>4, <1>5, <1>6 DEF ConsoleNext

\* One step of SparesOtherPasswords.
LEMMA OthersSpared ==
  ASSUME Undisturbed, Steady, [ConsoleNext]_allVars,
         NEW u \in Users, who = "func2", lcs[u]["df"] = "use", pin[u] # Passwd
  PROVE  pin'[u] = pin[u] /\ \A n \in Nodes : lcs[u][n] = "use" => lcs'[u][n] = "use"
<1>1. Trusted /\ ConsoleInv /\ CardTypeOK /\ StorageInv
  BY DEF Steady, Trusted, StorageInv, TypeOK
<1>2. CASE CallStep
  <2>1. OwnerStep
    BY <1>1, <1>2, CallTrusted
  <2>2. op \in PasswordOps => pwd = Passwd
    BY <1>1, <1>2, CallKeeps, StepNames DEF CallStep, ConsoleInv, Asked
  <2>3. FilesOf(u)' = FilesOf(u)
    BY <2>1, <2>2 DEF OwnerStep
  <2>. QED
    BY <2>3 DEF FilesOf
<1>3. CASE DeleteCurrent
  <2>1. Answered(Current("DELETE"))
    BY <1>1, <1>3, Answers1 DEF DeleteCurrent
  <2>2. session /\ pc = "idle"
    BY <1>1, <1>3 DEF DeleteCurrent, ConsoleInv, Places
  <2>3. node # "kf" /\ (u = dir => ~ auth)
    BY <1>1, <2>2 DEF ConsoleInv, NoKeyFile, KeyFileSteps, OneKey
  <2>. QED
    BY <1>1, <2>1, <2>3, CurrentDeleted
<1>. QED
  BY <1>2, <1>3, QuietConsole

\* One step of DeletionsAreSpelledOut.
LEMMA DeletionsSpelled ==
  ASSUME Undisturbed, Steady, [ConsoleNext]_allVars,
         NEW u \in Users, NEW f \in Files, who = "func2", lcs[u][f] # "none",
         lcs'[u][f] = "none"
  PROVE  /\ u = user_id
         /\ op = "delete_bf" => typed = 2 /\ f = file_id
         /\ op \in {"delete_bf", "unregister"} \/ task = "delete current"
<1>1. Trusted /\ ConsoleInv /\ CardTypeOK /\ StorageInv /\ f \in Nodes
  BY NodeNames DEF Steady, Trusted, StorageInv, TypeOK
<1>2. CASE CallStep
  <2>1. OwnerStep /\ TargetStep
    BY <1>1, <1>2, CallTrusted
  <2>2. ClientStep /\ pc' # "idle" /\ pc # "idle"
    BY <1>2, CallKeeps, StepNames DEF CallStep
  <2>3. pc # "select aid"
    <3>1. ASSUME pc = "select aid" PROVE UNCHANGED fileVars
      <4>1. SelectCryptoAid /\ lost = 0
        BY <1>1, <2>2, <3>1, AidStep, NoneLost DEF Undisturbed
      <4>2. CASE session
        BY <4>1, <4>2, AidMoves
      <4>3. CASE ~ session
        BY <4>1, <4>3 DEF SelectCryptoAid, cardVars
      <4>. QED
        BY <4>2, <4>3
    <3>. QED
      BY <3>1 DEF fileVars
  <2>4. PICK c : Send(c) /\ OfTheCall(c)
    BY <1>1, <2>2, <2>3, CallSends DEF Sends
  <2>5. c.ins = "DELETE"
    BY <1>1, <2>4, Answers1, ExchangeMoves
  <2>6. op \in {"unregister", "delete_bf"}
    BY <1>1, <2>4, <2>5 DEF OfTheCall, Trusted, ReliableInv, Calling
  <2>7. u = user /\ user = user_id
    <3>1. FilesOf(u)' # FilesOf(u)
      BY DEF FilesOf
    <3>. QED
      BY <1>1, <2>1, <2>2, <2>6, <3>1 DEF OwnerStep, ConsoleInv, Asked
  <2>8. ASSUME op = "delete_bf" PROVE typed = 2 /\ f = file_id
    <3>1. f = file /\ file = file_id
      BY <1>1, <2>1, <2>2, <2>8 DEF TargetStep, ConsoleInv, Asked, FileOps
    <3>2. typed # 0 /\ typed # 1
      BY <1>1, <2>2, <2>7, <2>8, <3>1, StorageAssumption DEF ConsoleInv, Asked
    <3>. QED
      BY <1>1, <3>1, <3>2 DEF ConsoleInv, ConsoleTypeOK
  <2>. QED
    BY <2>6, <2>7, <2>8
<1>3. CASE DeleteCurrent
  <2>1. Answered(Current("DELETE")) /\ task = "delete current"
    BY <1>1, <1>3, Answers1 DEF DeleteCurrent
  <2>2. session /\ pc = "idle" /\ op = "none"
    BY <1>1, <2>1 DEF ConsoleInv, Places
  <2>3. u = dir
    BY <1>1, <2>1, CurrentDeleted
  <2>4. dir \in {Root, user_id} /\ Root \notin Users
    BY <1>1, <2>2, ElementAssumption DEF ConsoleInv, AtLastUser
  <2>. QED
    BY <2>1, <2>2, <2>3, <2>4
<1>. QED
  BY <1>2, <1>3, QuietConsole

\* On a line that loses nothing, with an element that refuses nothing, what the
\* loop and what another program does between its processes keep the variables
\* of both in their types and the invariants above.
THEOREM ConsoleInvariant ==
  ASSUME Undisturbed
  PROVE  ConsoleSpec => []Steady
<1>1. ASSUME Steady, [ConsoleNext]_allVars PROVE Steady'
  BY <1>1, SteadyNext
<1>. QED
  BY <1>1, SteadyInit, PTL DEF ConsoleSpec

\* The chunks read_bf prints are those of the file it was asked for, whatever an
\* earlier read left in the buffer.
THEOREM ReadsPrintTheirFile ==
  ASSUME Undisturbed
  PROVE  ConsoleSpec => []PrintsThisFile
<1>1. Steady => PrintsThisFile
  BY DEF Steady, ConsoleInv
<1>. QED
  BY <1>1, ConsoleInvariant, PTL

\* The loop's one password does no harm to a registered user with another one.
THEOREM OtherUsersAreSpared ==
  ASSUME Undisturbed
  PROVE  ConsoleSpec => SparesOtherPasswords
<1>1. ASSUME Steady, [ConsoleNext]_allVars
      PROVE  [\A u \in Users :
                who = "func2" /\ lcs[u]["df"] = "use" /\ pin[u] # Passwd =>
                  /\ pin'[u] = pin[u]
                  /\ \A n \in Nodes : lcs[u][n] = "use" => lcs'[u][n] = "use"]_allVars
  BY <1>1, OthersSpared
<1>. QED
  BY <1>1, ConsoleInvariant, PTL DEF ConsoleSpec, SparesOtherPasswords

\* No file goes by a word of the loop but the one whose ids were typed, or what
\* is below the user that was used last.
THEOREM NothingElseIsDeleted ==
  ASSUME Undisturbed
  PROVE  ConsoleSpec => DeletionsAreSpelledOut
<1>1. ASSUME Steady, [ConsoleNext]_allVars
      PROVE  [\A u \in Users, f \in Files :
                who = "func2" /\ lcs[u][f] # "none" /\ lcs'[u][f] = "none" =>
                  /\ u = user_id
                  /\ op = "delete_bf" => typed = 2 /\ f = file_id
                  /\ op \in {"delete_bf", "unregister"} \/ task = "delete current"]_allVars
  BY <1>1, DeletionsSpelled
<1>. QED
  BY <1>1, ConsoleInvariant, PTL DEF ConsoleSpec, DeletionsAreSpelledOut
=============================================================================
