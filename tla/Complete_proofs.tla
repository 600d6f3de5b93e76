--------------------------- MODULE Complete_proofs ---------------------------
(***************************************************************************)
(* Proofs about SecStorage as long as no answer has been lost and when no  *)
(* command is refused without a cause ("refuse" not in Faults), while the  *)
(* process may die anywhere: then a registered user is complete, a call    *)
(* that returns SEC_STORAGE_OK has made its changes, and the results it    *)
(* returns are what the element holds, for every set of users, files,      *)
(* passwords and values and every number of records and chunks.  The last  *)
(* part proves of each status that it is due.                              *)
(*                                                                         *)
(* The part before it is about one lost answer, when nothing is refused    *)
(* and the process does not die.                                           *)
(***************************************************************************)
EXTENDS SecStorage_proofs

(* The invariant.                                                           *)

\* Below a DF that is not there is nothing, and no EF.ARR means no records.
NoOrphans ==
  \A u \in Users :
    /\ lcs[u]["df"] = "none" => \A n \in Nodes : lcs[u][n] = "none"
    /\ lcs[u]["arr"] = "none" => records[u] = 0

RecordSteps == {"create arr", "select arr", "append record"}
NoKeySteps == RecordSteps \cup {"select arr use", "activate arr", "create kf"}
NewKeySteps == {"select kf", "change ref data", "select kf use", "activate kf"}
KeySteps == {"select df use", "activate df"}

\* How far a registration has come.
Registering ==
  pc \in RegisterSteps =>
    /\ \A f \in Files : lcs[user][f] = "none"
    /\ pc = "create arr" => lcs[user]["arr"] = "none"
    /\ pc = "select arr" => records[user] = 0
    /\ pc = "append record" => records[user] = i
    /\ pc \notin RecordSteps => records[user] = NRecords
    /\ pc \in {"create kf"} \cup NewKeySteps \cup KeySteps => lcs[user]["arr"] = "use"
    /\ pc \in NoKeySteps => lcs[user]["kf"] = "none"
    /\ pc \in NewKeySteps => lcs[user]["kf"] = "init"
    /\ pc \in KeySteps => lcs[user]["kf"] = "use"
    /\ pc \in {"select kf use", "activate kf"} \cup KeySteps => pin[user] = pwd

CompleteInv == NoOrphans /\ Registering /\ RegisteredIsComplete

Whole == Trusted /\ CompleteInv

-----------------------------------------------------------------------------
(* Steps that leave the files alone.                                        *)

Looking == {"SELECT", "SELECT FCP", "VERIFY", "READ BINARY", "SELECT FIRST", "SELECT NEXT"}

\* Commands that only look.
LEMMA Looks ==
  ASSUME NEW ins \in Looking, NEW u, NEW n, NEW a, Send(Apdu(ins, u, n, a))
  PROVE  UNCHANGED <<lcs, records, pin, data>>
<1>. DEFINE c == Apdu(ins, u, n, a)
<1>1. c.ins \in Looking
  BY DEF Apdu
<1>. HIDE DEF c
<1>2. ASSUME NEW x, Execute(c, x) PROVE UNCHANGED <<lcs, records, pin, data>>
  BY <1>1, <1>2 DEF Looking, Execute, SelectAid, Select, Create, AppendRecord,
              ChangeReferenceData, Activate, DeleteDf, DeleteFile, Verify, UpdateBinary,
              List, cardVars, fileVars
<1>3. Send(c)
  BY DEF c
<1>. QED
  BY <1>2, <1>3 DEF Send, Answered, Refused, Lost, cardVars, fileVars

\* An exchange whose failure ends the call.
LEMMA Fails ==
  ASSUME lost' = 0, Trusted, NEW step, NEW c, NEW next, Checked(step, c, next), sw' # "ok"
  PROVE  UNCHANGED <<lcs, records, pin, data>> /\ pc' = "returned" /\ ret' = "UNKNOWN_ERROR"
<1>1. UNCHANGED <<lcs, records, pin, data>>
  BY CommandFailed DEF Checked, Trusted
<1>. QED
  BY <1>1 DEF Checked, Return

\* The steps before VERIFY, those of reading and listing, and what surrounds a
\* call, change no file and are not the steps of a registration or creation.
QuietStep ==
  \/ Call \/ CallerResumes \/ OpenChannel \/ CloseChannel \/ Crash
  \/ SelectCryptoAid \/ OpenUserDf \/ CheckBf \/ VerifyPin
  \/ SelectDfDelete \/ SelectBfRead \/ ReadNullSize \/ ReadBf \/ SelectBfDelete
  \/ ListFiles \/ FreeUninitialised

\* Such a step leaves every file as it was.
LEMMA QuietFilesKept ==
  ASSUME QuietStep \/ CheckUserDf \/ SelectBfWrite \/ SelectBfUse
  PROVE  UNCHANGED <<lcs, records, pin, data>>
<1>1. CASE Call \/ CallerResumes \/ OpenChannel \/ CloseChannel \/ Crash
           \/ ReadNullSize \/ FreeUninitialised
  BY <1>1 DEF Call, CallerResumes, OpenChannel, CloseChannel, Crash, ReadNullSize,
              FreeUninitialised, Restart, cardVars, fileVars
<1>2. CASE SelectCryptoAid
  BY <1>2, AidDone DEF SelectCryptoAid, cardVars, fileVars
<1>3. {"SELECT", "SELECT FCP", "VERIFY", "READ BINARY", "SELECT FIRST", "SELECT NEXT"}
        \subseteq Looking
  BY DEF Looking
<1>4. CASE VerifyPin
  <2>1. Send(Apdu("VERIFY", user, "kf", pwd))
    BY <1>4 DEF VerifyPin
  <2>. QED
    BY <1>3, <2>1, Looks
<1>5. CASE \E n : Send(UserFile(n))
  <2>1. PICK n : Send(Apdu("SELECT", user, n, None))
    BY <1>5 DEF UserFile
  <2>. QED
    BY <1>3, <2>1, Looks
<1>6. CheckUserDf \/ OpenUserDf \/ CheckBf => \E n : Send(UserFile(n))
  BY DEF CheckUserDf, OpenUserDf, CheckBf
<1>7. SelectDfDelete \/ SelectBfWrite \/ SelectBfUse \/ SelectBfDelete =>
        \E n : Send(UserFile(n))
  BY DEF SelectDfDelete, SelectBfWrite, SelectBfUse, SelectBfDelete, Checked, Ignored
<1>8. CASE SelectBfRead
  <2>1. Send(Apdu("SELECT FCP", user, file, None))
    BY <1>8 DEF SelectBfRead
  <2>. QED
    BY <1>3, <2>1, Looks
<1>9. CASE ReadBf
  <2>1. Send(Apdu("READ BINARY", user, file, i + 1))
    BY <1>9 DEF ReadBf
  <2>. QED
    BY <1>3, <2>1, Looks
<1>10. CASE ListFiles
  <2>1. PICK ins \in {"SELECT FIRST", "SELECT NEXT"} : Send(Apdu(ins, user, "df", None))
    BY <1>10 DEF ListFiles, Current
  <2>. QED
    BY <1>3, <2>1, Looks
<1>. QED
  BY <1>1, <1>2, <1>4, <1>5, <1>6, <1>7, <1>8, <1>9, <1>10 DEF QuietStep

\* And it leads to no step of a registration or creation but the first.
LEMMA QuietPlace ==
  ASSUME StorageInv, QuietStep \/ CheckUserDf
  PROVE  pc' \notin RegisterSteps \cup CreateSteps
<1>. USE DEF RegisterSteps, CreateSteps
<1>1. CASE Call \/ CallerResumes \/ Crash \/ ReadNullSize \/ FreeUninitialised
  BY <1>1 DEF Call, CallerResumes, Crash, ReadNullSize, FreeUninitialised, Restart, Idle
<1>2. CASE OpenChannel \/ CloseChannel
  BY <1>2 DEF OpenChannel, CloseChannel
<1>3. CASE SelectCryptoAid
  <2>1. pc' \in {"list first", "returned", "check df"}
    BY <1>3 DEF SelectCryptoAid, AfterAid, Goto, Return
  <2>. QED
    BY <2>1
<1>4. CASE CheckUserDf
  <2>1. user \in Users
    BY <1>4 DEF CheckUserDf, StorageInv, Fits, Steps
  <2>2. sw' \in Status
    BY <1>4, <2>1, Exchange, Commands, NodeNames DEF CheckUserDf, StorageInv, RspTypeOK
  <2>3. pc' \in {"returned", "verify", "open df", "create df"}
    BY <1>4, <2>2 DEF CheckUserDf, Goto, Return, Status
  <2>. QED
    BY <2>3
<1>5. CASE OpenUserDf
  <2>1. op \in FileOps \cup {"select_user", "list_files"}
    BY <1>5 DEF OpenUserDf, StorageInv, Fits, Steps
  <2>2. pc' \in {"returned", "list first", "check bf"}
    BY <1>5, <2>1 DEF OpenUserDf, Goto, Return, FileOps
  <2>. QED
    BY <2>2
<1>6. CASE CheckBf
  <2>1. pc' \in {"returned", "verify"}
    BY <1>6 DEF CheckBf, Goto, Return
  <2>. QED
    BY <2>1
<1>7. CASE VerifyPin
  <2>1. op \in {"unregister", "create_bf", "read_bf", "delete_bf"}
    BY <1>7 DEF VerifyPin, StorageInv, Fits, Steps, FileOps
  <2>2. pc' \in {"returned", "select df delete", "create bf", "select bf read",
                 "select bf delete"}
    BY <1>7, <2>1 DEF VerifyPin, AfterVerify, Goto, Return
  <2>. QED
    BY <2>2
<1>8. CASE SelectDfDelete \/ SelectBfDelete
  <2>1. pc' \in {"returned", "delete df", "delete bf"}
    BY <1>8 DEF SelectDfDelete, SelectBfDelete, Checked, Ignored, Proceed, Goto, Return
  <2>. QED
    BY <2>1
<1>9. CASE SelectBfRead \/ ReadBf
  <2>1. pc' \in {"returned", "read binary"}
    BY <1>9 DEF SelectBfRead, ReadBf, Proceed, Goto, Return
  <2>. QED
    BY <2>1
<1>10. CASE ListFiles
  <2>1. pc' \in {"returned", "list next"}
    BY <1>10 DEF ListFiles, Goto, Return
  <2>. QED
    BY <2>1
<1>. QED
  BY <1>1, <1>2, <1>3, <1>4, <1>5, <1>6, <1>7, <1>8, <1>9, <1>10 DEF QuietStep

-----------------------------------------------------------------------------
(* The steps of the client.                                                 *)

\* Outside a registration only the DFs, EF.ARRs and key files matter.
LEMMA CompleteKept ==
  ASSUME CompleteInv, pc' \notin RegisterSteps, UNCHANGED <<records, pin>>,
         \A u \in Users, n \in {"df", "arr", "kf"} : lcs'[u][n] = lcs[u][n],
         \A u \in Users, f \in Files : lcs[u]["df"] = "none" => lcs'[u][f] = "none"
  PROVE  CompleteInv'
<1>1. NoOrphans'
  BY DEF NoOrphans, CompleteInv, Nodes, EFs
<1>2. Registering'
  BY DEF Registering
<1>3. RegisteredIsComplete'
  BY DEF RegisteredIsComplete, CompleteInv
<1>. QED
  BY <1>1, <1>2, <1>3 DEF CompleteInv

\* The same for a step that leaves every file alone.
LEMMA CompleteQuiet ==
  ASSUME CompleteInv, pc' \notin RegisterSteps, UNCHANGED <<lcs, records, pin>>
  PROVE  CompleteInv'
<1>1. \A u \in Users, f \in Files : lcs[u]["df"] = "none" => lcs[u][f] = "none"
  BY NodeNames DEF CompleteInv, NoOrphans
<1>. QED
  BY <1>1, CompleteKept

\* The steps of reading, listing and checking, and around a call.
LEMMA CompleteQuietStep ==
  ASSUME Whole, QuietStep \/ CheckUserDf
  PROVE  CompleteInv'
BY QuietFilesKept, QuietPlace, CompleteQuiet DEF Whole, Trusted

\* An exchange whose failure ends the call.
LEMMA CompleteFails ==
  ASSUME lost' = 0, Whole, NEW step, NEW c, NEW next, Checked(step, c, next), sw' # "ok"
  PROVE  CompleteInv'
<1>1. UNCHANGED <<lcs, records, pin, data>> /\ pc' = "returned"
  BY Fails DEF Whole
<1>2. pc' \notin RegisterSteps
  BY <1>1 DEF RegisterSteps
<1>. QED
  BY <1>1, <1>2, CompleteQuiet DEF Whole

\* DELETE of a DF takes everything below it.
LEMMA CompleteDeleteUserDf == ASSUME lost' = 0, Whole, DeleteUserDf PROVE CompleteInv'
<1>1. CASE sw' = "ok"
  <2>1. pc' = "returned"
    BY <1>1 DEF DeleteUserDf, Checked, Proceed, Return
  <2>2. user \in Users /\ lcs'[user] = NoFiles /\ records'[user] = 0
    BY <1>1, DfDeleted DEF Whole
  <2>3. \A u \in Users : u # user =>
          lcs'[u] = lcs[u] /\ records'[u] = records[u] /\ pin'[u] = pin[u]
    BY <1>1, DfDeleted DEF Whole
  <2>4. \A n \in Nodes : lcs'[user][n] = "none"
    BY <2>2 DEF NoFiles
  <2>5. NoOrphans'
    BY <2>2, <2>3, <2>4, NodeNames DEF NoOrphans, Whole, CompleteInv
  <2>6. Registering'
    BY <2>1 DEF Registering, RegisterSteps
  <2>7. RegisteredIsComplete'
    BY <2>3, <2>4, NodeNames DEF RegisteredIsComplete, Whole, CompleteInv
  <2>. QED
    BY <2>5, <2>6, <2>7 DEF CompleteInv
<1>. QED
  BY <1>1, CompleteFails DEF DeleteUserDf

\* The steps of a creation and of a deletion touch binary files only.
LEMMA CompleteFileStep ==
  ASSUME lost' = 0, Whole,
         CreateBf \/ SelectBfWrite \/ WriteBf \/ SelectBfUse \/ ActivateBf \/ DeleteBf
  PROVE  CompleteInv'
<1>1. /\ \A f \in Files : f \in Nodes /\ f \notin {"df", "arr", "kf"}
      /\ {"df", "arr", "kf"} \subseteq Nodes
  BY NodeNames, StepNames
<1>2. pc' \notin RegisterSteps
  <2>1. pc' \in {"returned", "select bf write", "update binary", "select bf use",
                 "activate bf"}
    BY DEF CreateBf, SelectBfWrite, WriteBf, SelectBfUse, ActivateBf, DeleteBf, Checked,
           Proceed, Goto, Return
  <2>. QED
    BY <2>1 DEF RegisterSteps
<1>3. CASE SelectBfWrite \/ SelectBfUse
  BY <1>2, <1>3, QuietFilesKept, CompleteQuiet DEF Whole
<1>4. CASE CreateBf
  <2>1. CASE sw' = "ok"
    <3>1. user \in Users /\ file \in Files
      BY <1>4, Creating DEF CreateBf, Checked, Whole
    <3>2. UNCHANGED <<records, pin>> /\ lcs[user]["df"] # "none"
      BY <1>4, <2>1, BfCreated DEF Whole, Exists
    <3>3. \A u \in Users : u # user => lcs'[u] = lcs[u]
      BY <1>4, <2>1, BfCreated DEF Whole
    <3>4. \A k \in Nodes : lcs'[user][k] = IF k = file THEN "init" ELSE lcs[user][k]
      BY <1>4, <2>1, BfCreated DEF Whole
    <3>5. \A u \in Users, n \in {"df", "arr", "kf"} : lcs'[u][n] = lcs[u][n]
      BY <1>1, <3>1, <3>3, <3>4
    <3>6. \A u \in Users, f \in Files : lcs[u]["df"] = "none" => lcs'[u][f] = "none"
      BY <1>1, <3>2, <3>3 DEF Whole, CompleteInv, NoOrphans
    <3>. QED
      BY <1>2, <3>2, <3>5, <3>6, CompleteKept DEF Whole
  <2>. QED
    BY <1>4, <2>1, CompleteFails DEF CreateBf
<1>5. CASE WriteBf
  <2>1. CASE sw' = "ok"
    <3>1. UNCHANGED <<lcs, records, pin>>
      BY <1>5, <2>1, ChunkWritten DEF Whole
    <3>. QED
      BY <1>2, <3>1, CompleteQuiet DEF Whole
  <2>2. CASE sw' # "ok"
    <3>1. UNCHANGED <<lcs, records, pin>>
      BY <1>5, <2>2, CommandFailed DEF WriteBf, Whole, Trusted
    <3>. QED
      BY <1>2, <3>1, CompleteQuiet DEF Whole
  <2>. QED
    BY <2>1, <2>2
<1>6. CASE ActivateBf
  <2>1. CASE sw' = "ok"
    <3>1. user \in Users /\ file \in Files /\ lcs[user][file] = "init"
      BY <1>6, Creating DEF ActivateBf, Checked, Whole, Trusted, ReliableInv, Written,
                            CreateSteps
    <3>2. UNCHANGED <<records, pin>>
      BY <1>6, <2>1, BfActivated DEF Whole
    <3>3. \A u \in Users : u # user => lcs'[u] = lcs[u]
      BY <1>6, <2>1, BfActivated DEF Whole
    <3>4. \A k \in Nodes : lcs'[user][k] = IF k = file THEN "use" ELSE lcs[user][k]
      BY <1>6, <2>1, BfActivated DEF Whole
    <3>5. \A u \in Users, n \in {"df", "arr", "kf"} : lcs'[u][n] = lcs[u][n]
      BY <1>1, <3>1, <3>3, <3>4
    <3>6. \A u \in Users, f \in Files : lcs[u]["df"] = "none" => lcs'[u][f] = "none"
      BY <1>1, <3>1, <3>3 DEF Whole, CompleteInv, NoOrphans
    <3>. QED
      BY <1>2, <3>2, <3>5, <3>6, CompleteKept DEF Whole
  <2>. QED
    BY <1>6, <2>1, CompleteFails DEF ActivateBf
<1>7. CASE DeleteBf
  <2>1. CASE sw' = "ok"
    <3>1. user \in Users /\ file \in Files
      BY <1>7, <2>1, BfDeleted DEF Whole
    <3>2. \A u \in Users :
            records'[u] = records[u] /\ pin'[u] = pin[u] /\ (u # user => lcs'[u] = lcs[u])
      BY <1>7, <2>1, BfDeleted DEF Whole
    <3>3. \A k \in Nodes : lcs'[user][k] = IF k = file THEN "none" ELSE lcs[user][k]
      BY <1>7, <2>1, BfDeleted DEF Whole
    <3>4. \A u \in Users, n \in {"df", "arr", "kf"} : lcs'[u][n] = lcs[u][n]
      BY <1>1, <3>1, <3>2, <3>3
    <3>5. \A u \in Users, n \in Nodes : lcs[u]["df"] = "none" => lcs'[u][n] = "none"
      BY <3>2, <3>3 DEF Whole, CompleteInv, NoOrphans
    <3>6. NoOrphans'
      BY <3>2, <3>4, <3>5 DEF NoOrphans, Whole, CompleteInv
    <3>7. RegisteredIsComplete'
      BY <3>2, <3>4 DEF RegisteredIsComplete, Whole, CompleteInv
    <3>8. Registering'
      BY <1>2 DEF Registering
    <3>. QED
      BY <3>6, <3>7, <3>8 DEF CompleteInv
  <2>. QED
    BY <1>7, <2>1, CompleteFails DEF DeleteBf
<1>. QED
  BY <1>3, <1>4, <1>5, <1>6, <1>7

\* During a registration the user's DF is not in use, and other users' files
\* stay as they are.
LEMMA HalfMadeKept ==
  ASSUME CompleteInv,
         \A u \in Users : u # user =>
           lcs'[u] = lcs[u] /\ records'[u] = records[u] /\ pin'[u] = pin[u],
         lcs'[user]["df"] = "init",
         lcs'[user]["arr"] # "none" \/ records'[user] = 0
  PROVE  NoOrphans' /\ RegisteredIsComplete'
<1>1. NoOrphans'
  BY DEF NoOrphans, CompleteInv
<1>2. RegisteredIsComplete'
  BY DEF RegisteredIsComplete, CompleteInv
<1>. QED
  BY <1>1, <1>2

\* What is known at the steps of a registration.
LEMMA Halfway ==
  ASSUME Whole, pc \in RegisterSteps
  PROVE  /\ user \in Users /\ dir = user /\ lcs[user]["df"] = "init" /\ pc \in RegSteps
         /\ pc # "create df" /\ user \in Users
         /\ lcs[user]["arr"] = "none" => records[user] = 0
<1>1. pc \in RegSteps /\ pc # "create df"
  BY DEF RegSteps, RegisterSteps
<1>. QED
  BY <1>1, Registers DEF Whole, CompleteInv, NoOrphans

\* CREATE of the DF.
LEMMA CompleteCreateDf == ASSUME lost' = 0, Whole, CreateUserDf PROVE CompleteInv'
<1>1. CASE sw' = "ok"
  <2>1. /\ pc = "create df" /\ Send(CreateFile("df")) /\ pc' = "create arr"
        /\ UNCHANGED callVars
    BY <1>1 DEF CreateUserDf, Checked, Proceed, Goto
  <2>2. pc \in RegSteps /\ user \in Users /\ lcs[user]["df"] = "none"
    BY <2>1, Registers DEF RegSteps, Whole, Trusted, ReliableInv, HalfMade
  <2>3. UNCHANGED <<records, pin, data>>
    BY <1>1, <2>1, <2>2, FileMade DEF Whole
  <2>4. \A u \in Users : u # user => lcs'[u] = lcs[u]
    BY <1>1, <2>1, <2>2, FileMade DEF Whole
  <2>5. \A k \in Nodes : lcs'[user][k] = IF k = "df" THEN "init" ELSE lcs[user][k]
    BY <1>1, <2>1, <2>2, FileMade DEF Whole
  <2>6. \A k \in Nodes : lcs[user][k] = "none"
    BY <2>2 DEF Whole, CompleteInv, NoOrphans
  <2>7. /\ lcs'[user]["df"] = "init" /\ lcs'[user]["arr"] = "none"
        /\ lcs'[user]["kf"] = "none"
    BY <2>5, <2>6, NodeNames
  <2>8. records[user] = 0
    BY <2>2, <2>6, NodeNames DEF Whole, CompleteInv, NoOrphans
  <2>9. \A f \in Files : lcs'[user][f] = "none"
    BY <2>5, <2>6, NodeNames, StepNames
  <2>10. NoOrphans' /\ RegisteredIsComplete'
    <3>1. \A u \in Users : u # user =>
            lcs'[u] = lcs[u] /\ records'[u] = records[u] /\ pin'[u] = pin[u]
      BY <2>3, <2>4
    <3>2. lcs'[user]["df"] = "init" /\ (lcs'[user]["arr"] # "none" \/ records'[user] = 0)
      BY <2>3, <2>7, <2>8
    <3>. QED
      BY <3>1, <3>2, HalfMadeKept DEF Whole
  <2>11. Registering'
    BY <2>1, <2>7, <2>9 DEF Registering, RecordSteps, NoKeySteps, NewKeySteps, KeySteps,
                            callVars
  <2>. QED
    BY <2>10, <2>11 DEF CompleteInv
<1>. QED
  BY <1>1, CompleteFails DEF CreateUserDf

\* CREATE of EF.ARR.
LEMMA CompleteCreateArr == ASSUME lost' = 0, Whole, CreateUserEfArr PROVE CompleteInv'
<1>1. CASE sw' = "ok"
  <2>1. /\ pc = "create arr" /\ Send(CreateFile("arr")) /\ pc' = "select arr"
        /\ UNCHANGED callVars /\ pc \in RegisterSteps
    BY <1>1 DEF CreateUserEfArr, Checked, Proceed, Goto, RegisterSteps
  <2>2. pc \in RegSteps /\ pc # "create df" /\ lcs[user]["df"] = "init" /\ user \in Users
    BY <2>1, Halfway
  <2>3. UNCHANGED <<records, pin, data>>
    BY <1>1, <2>1, <2>2, FileMade DEF Whole
  <2>4. \A u \in Users : u # user => lcs'[u] = lcs[u]
    BY <1>1, <2>1, <2>2, FileMade DEF Whole
  <2>5. \A k \in Nodes : lcs'[user][k] = IF k = "arr" THEN "init" ELSE lcs[user][k]
    BY <1>1, <2>1, <2>2, FileMade DEF Whole
  <2>6. /\ \A f \in Files : lcs[user][f] = "none"
        /\ lcs[user]["arr"] = "none" /\ lcs[user]["kf"] = "none"
    BY <2>1 DEF Whole, CompleteInv, Registering, NoKeySteps, RecordSteps
  <2>7. records[user] = 0
    BY <2>2, <2>6 DEF Whole, CompleteInv, NoOrphans
  <2>8. /\ lcs'[user]["df"] = "init" /\ lcs'[user]["arr"] = "init"
        /\ lcs'[user]["kf"] = "none"
    BY <2>2, <2>5, <2>6, NodeNames
  <2>9. \A f \in Files : lcs'[user][f] = "none"
    BY <2>5, <2>6, NodeNames, StepNames
  <2>10. NoOrphans' /\ RegisteredIsComplete'
    <3>1. \A u \in Users : u # user =>
            lcs'[u] = lcs[u] /\ records'[u] = records[u] /\ pin'[u] = pin[u]
      BY <2>3, <2>4
    <3>2. lcs'[user]["df"] = "init" /\ (lcs'[user]["arr"] # "none" \/ records'[user] = 0)
      BY <2>3, <2>7, <2>8
    <3>. QED
      BY <3>1, <3>2, HalfMadeKept DEF Whole
  <2>11. Registering'
    BY <2>1, <2>3, <2>7, <2>8, <2>9
       DEF Registering, RecordSteps, NoKeySteps, NewKeySteps, KeySteps, callVars
  <2>. QED
    BY <2>10, <2>11 DEF CompleteInv
<1>. QED
  BY <1>1, CompleteFails DEF CreateUserEfArr

\* A SELECT of a registration that goes on.
LEMMA CompleteRegisterSelect ==
  ASSUME lost' = 0, Whole, pc \in RegisterSteps, NEW n \in {"df", "arr", "kf"},
         Send(UserFile(n)), UNCHANGED <<callVars, i>>,
         \/ pc = "select arr" /\ pc' = "append record"
         \/ pc = "select arr use" /\ pc' = "activate arr"
         \/ pc = "select kf" /\ pc' = "change ref data"
         \/ pc = "select kf use" /\ pc' = "activate kf"
         \/ pc = "select df use" /\ pc' = "activate df"
  PROVE  CompleteInv'
<1>1. UNCHANGED <<lcs, records, pin, data>>
  BY Looks DEF UserFile, Looking
<1>2. NoOrphans' /\ RegisteredIsComplete'
  BY <1>1 DEF NoOrphans, RegisteredIsComplete, Whole, CompleteInv
<1>3. pc = "select arr" => i = 0
  BY DEF Whole, Trusted, StorageInv, LoopOK
<1>4. Registering'
  <2>1. /\ \A f \in Files : lcs[user][f] = "none"
        /\ pc = "select arr" => records[user] = i
        /\ pc # "select arr" => records[user] = NRecords
        /\ pc \in {"select kf", "select kf use", "select df use"} => lcs[user]["arr"] = "use"
        /\ pc \in {"select arr", "select arr use"} => lcs[user]["kf"] = "none"
        /\ pc \in {"select kf", "select kf use"} => lcs[user]["kf"] = "init"
        /\ pc = "select df use" => lcs[user]["kf"] = "use"
        /\ pc \in {"select kf use", "select df use"} => pin[user] = pwd
    BY <1>3 DEF Whole, CompleteInv, Registering, RecordSteps, NoKeySteps, NewKeySteps, KeySteps
  <2>. QED
    BY <1>1, <2>1
       DEF Registering, RecordSteps, NoKeySteps, NewKeySteps, KeySteps, callVars
<1>. QED
  BY <1>2, <1>4 DEF CompleteInv

\* APPEND RECORD.
LEMMA CompleteAddRecord == ASSUME lost' = 0, Whole, AddRecordEfArr PROVE CompleteInv'
<1>1. /\ pc = "append record" /\ Send(Current("APPEND RECORD")) /\ UNCHANGED callVars
      /\ pc \in RegisterSteps
  BY DEF AddRecordEfArr, RegisterSteps
<1>2. CASE sw' = "ok"
  <2>1. /\ user \in Users /\ lcs[user]["df"] = "init"
    BY <1>1, Halfway
  <2>2. UNCHANGED <<lcs, pin, data>>
    BY <1>2, RecordAdded DEF Whole
  <2>3. records' = [records EXCEPT ![user] = @ + 1] /\ records[user] < NRecords
    BY <1>2, RecordAdded DEF Whole
  <2>4. records \in [Users -> 0..NRecords]
    BY DEF Whole, Trusted, StorageInv, TypeOK, CardTypeOK
  <2>5. /\ \A u \in Users : u # user => records'[u] = records[u]
        /\ records'[user] = records[user] + 1
    BY <2>1, <2>3, <2>4
  <2>6. /\ \A f \in Files : lcs[user][f] = "none"
        /\ lcs[user]["kf"] = "none" /\ records[user] = i
    BY <1>1 DEF Whole, CompleteInv, Registering, NoKeySteps, RecordSteps
  <2>7. lcs[user]["arr"] # "none"
    <3>1. PICK x : Accepts(Current("APPEND RECORD"))
      BY <1>1, <1>2, CommandDone DEF Whole, Trusted
    <3>2. CurrentIs("arr")
      BY <3>1 DEF Accepts, Current, Apdu
    <3>. QED
      BY <1>1, <3>2, Halfway DEF CurrentIs
  <2>8. NoOrphans' /\ RegisteredIsComplete'
    <3>1. \A u \in Users : u # user =>
            lcs'[u] = lcs[u] /\ records'[u] = records[u] /\ pin'[u] = pin[u]
      BY <2>2, <2>5
    <3>2. lcs'[user]["df"] = "init" /\ (lcs'[user]["arr"] # "none" \/ records'[user] = 0)
      BY <2>1, <2>2, <2>7
    <3>. QED
      BY <3>1, <3>2, HalfMadeKept DEF Whole
  <2>9. \/ pc' = "append record" /\ i' = records'[user]
        \/ pc' = "select arr use" /\ records'[user] = NRecords
    <3>1. records[user] \in 0..NRecords /\ NRecords \in Nat
      BY <2>1, <2>4, ElementAssumption
    <3>2. CASE i + 1 < NRecords
      BY <1>2, <2>5, <2>6, <3>2 DEF AddRecordEfArr, Goto
    <3>3. CASE ~ (i + 1 < NRecords)
      <4>1. pc' = "select arr use"
        BY <1>2, <3>3 DEF AddRecordEfArr, Goto
      <4>2. records'[user] = NRecords
        BY <2>3, <2>5, <2>6, <3>1, <3>3
      <4>. QED
        BY <4>1, <4>2
    <3>. QED
      BY <3>2, <3>3
  <2>10. Registering'
    BY <1>1, <2>2, <2>6, <2>9
       DEF Registering, RecordSteps, NoKeySteps, NewKeySteps, KeySteps, callVars
  <2>. QED
    BY <2>8, <2>10 DEF CompleteInv
<1>3. CASE sw' # "ok"
  <2>1. UNCHANGED <<lcs, records, pin>>
    BY <1>1, <1>3, CommandFailed DEF Whole, Trusted
  <2>2. pc' \notin RegisterSteps
    BY <1>3 DEF AddRecordEfArr, Return, RegisterSteps
  <2>. QED
    BY <2>1, <2>2, CompleteQuiet DEF Whole
<1>. QED
  BY <1>2, <1>3

\* A change of one file of a DF that is half made: the parts of the invariant
\* that do not concern the place in the registration.
LEMMA HalfMadeNode ==
  ASSUME Whole, pc \in RegisterSteps, NEW n \in {"arr", "kf"}, NEW s \in {"init", "use"},
         \A u \in Users : u # user => lcs'[u] = lcs[u],
         \A k \in Nodes : lcs'[user][k] = IF k = n THEN s ELSE lcs[user][k],
         UNCHANGED <<records, pin>>
  PROVE  NoOrphans' /\ RegisteredIsComplete'
<1>1. lcs'[user]["df"] = "init"
  BY Halfway, NodeNames
<1>2. lcs'[user]["arr"] # "none" \/ records'[user] = 0
  BY Halfway, NodeNames
<1>3. \A u \in Users : u # user =>
        lcs'[u] = lcs[u] /\ records'[u] = records[u] /\ pin'[u] = pin[u]
  OBVIOUS
<1>. QED
  BY <1>1, <1>2, <1>3, HalfMadeKept DEF Whole

\* ACTIVATE of EF.ARR.
LEMMA CompleteActivateArr == ASSUME lost' = 0, Whole, ActivateArr PROVE CompleteInv'
<1>1. CASE sw' = "ok"
  <2>1. /\ pc = "activate arr" /\ Send(Current("ACTIVATE")) /\ pc' = "create kf"
        /\ UNCHANGED callVars /\ pc \in RegisterSteps
    BY <1>1 DEF ActivateArr, Checked, Proceed, Goto, RegisterSteps
  <2>2. user \in Users /\ dir = user /\ node = "arr"
    BY <2>1, Halfway DEF Whole, Trusted, ReliableInv, Located
  <2>3. UNCHANGED <<records, pin, data>>
    BY <1>1, <2>1, <2>2, FileActivated DEF Whole
  <2>4. \A u \in Users : u # user => lcs'[u] = lcs[u]
    BY <1>1, <2>1, <2>2, FileActivated DEF Whole
  <2>5. \A k \in Nodes : lcs'[user][k] = IF k = "arr" THEN "use" ELSE lcs[user][k]
    BY <1>1, <2>1, <2>2, FileActivated DEF Whole
  <2>6. /\ \A f \in Files : lcs[user][f] = "none"
        /\ records[user] = NRecords /\ lcs[user]["kf"] = "none"
    BY <2>1 DEF Whole, CompleteInv, Registering, NoKeySteps, RecordSteps
  <2>7. /\ lcs'[user]["arr"] = "use" /\ lcs'[user]["kf"] = "none"
        /\ \A f \in Files : lcs'[user][f] = "none"
    BY <2>5, <2>6, NodeNames, StepNames
  <2>8. NoOrphans' /\ RegisteredIsComplete'
    BY <2>1, <2>3, <2>4, <2>5, HalfMadeNode
  <2>9. Registering'
    BY <2>1, <2>3, <2>6, <2>7
       DEF Registering, RecordSteps, NoKeySteps, NewKeySteps, KeySteps, callVars
  <2>. QED
    BY <2>8, <2>9 DEF CompleteInv
<1>. QED
  BY <1>1, CompleteFails DEF ActivateArr

\* CREATE of the key file is accepted: the DF is there and the key file is not.
LEMMA KeyFileAccepted ==
  ASSUME Whole, pc = "create kf"
  PROVE  Accepts(CreateFile("kf"))
<1>1. user \in Users /\ dir = user /\ lcs[user]["df"] = "init"
  BY Halfway DEF RegisterSteps
<1>2. lcs[user]["kf"] = "none"
  BY DEF Whole, CompleteInv, Registering, NoKeySteps, RecordSteps, RegisterSteps
<1>3. Home(user, "kf") = user
  BY UserHome
<1>4. ~ Exists(user, "kf") /\ Exists(user, "df") /\ Granted("df")
  BY <1>1, <1>2 DEF Exists, Granted
<1>5. /\ CreateFile("kf").ins = "CREATE" /\ CreateFile("kf").user = user
      /\ CreateFile("kf").node = "kf"
  BY DEF CreateFile, Apdu
<1>. QED
  BY <1>1, <1>3, <1>4, <1>5 DEF Accepts

\* CREATE of the key file, which create_kf_pin_file does not check.
LEMMA CompleteCreateKf ==
  ASSUME lost' = 0, "refuse" \notin Faults, Whole, CreateKf
  PROVE  CompleteInv'
<1>1. /\ pc = "create kf" /\ Send(CreateFile("kf")) /\ UNCHANGED callVars
      /\ pc \in RegisterSteps
  BY DEF CreateKf, Ignored, RegisterSteps
<1>2. sw' = "ok"
  BY <1>1, KeyFileAccepted, CommandFailed DEF Whole, Trusted
<1>3. pc' = "select kf"
  BY <1>2 DEF CreateKf, Ignored, Goto
<1>4. pc \in RegSteps /\ pc # "create df"
  BY <1>1, Halfway
<1>5. UNCHANGED <<records, pin, data>>
  BY <1>1, <1>2, <1>4, FileMade DEF Whole
<1>6. \A u \in Users : u # user => lcs'[u] = lcs[u]
  BY <1>1, <1>2, <1>4, FileMade DEF Whole
<1>7. \A k \in Nodes : lcs'[user][k] = IF k = "kf" THEN "init" ELSE lcs[user][k]
  BY <1>1, <1>2, <1>4, FileMade DEF Whole
<1>8. /\ \A f \in Files : lcs[user][f] = "none"
      /\ records[user] = NRecords /\ lcs[user]["arr"] = "use"
  BY <1>1 DEF Whole, CompleteInv, Registering, NoKeySteps, RecordSteps
<1>9. /\ lcs'[user]["arr"] = "use" /\ lcs'[user]["kf"] = "init"
      /\ \A f \in Files : lcs'[user][f] = "none"
  BY <1>7, <1>8, NodeNames, StepNames
<1>10. NoOrphans' /\ RegisteredIsComplete'
  BY <1>1, <1>5, <1>6, <1>7, HalfMadeNode
<1>11. Registering'
  BY <1>1, <1>3, <1>5, <1>8, <1>9
     DEF Registering, RecordSteps, NoKeySteps, NewKeySteps, KeySteps, callVars
<1>. QED
  BY <1>10, <1>11 DEF CompleteInv

\* SELECT of the key file and of the DF finds it.
LEMMA SelectAccepted ==
  ASSUME lost' = 0, "refuse" \notin Faults, Whole,
         pc \in {"select kf", "select kf use"}, Send(UserFile("kf"))
  PROVE  sw' = "ok"
<1>1. user \in Users /\ dir = user
  BY Halfway DEF RegisterSteps
<1>2. lcs[user]["kf"] = "init"
  BY DEF Whole, CompleteInv, Registering, NewKeySteps, RegisterSteps
<1>3. Home(user, "kf") = user /\ "kf" \in Nodes
  BY UserHome, NodeNames
<1>. QED
  BY <1>1, <1>2, <1>3, SelectExchange DEF Whole, Trusted

\* What is current when the key file gets its password and its state.
LEMMA KeyFileCurrent ==
  ASSUME Whole, pc \in {"change ref data", "activate kf"}
  PROVE  /\ Accepts(Apdu("CHANGE REFERENCE DATA", user, "kf", pwd))
         /\ Accepts(Current("ACTIVATE"))
<1>1. user \in Users /\ dir = user
  BY Halfway DEF RegisterSteps
<1>2. lcs[user]["kf"] = "init"
  BY DEF Whole, CompleteInv, Registering, NewKeySteps, RegisterSteps
<1>3. node = "kf"
  BY DEF Whole, Trusted, ReliableInv, Located
<1>4. CurrentIs("kf") /\ CurrentIs(node)
  BY <1>1, <1>2, <1>3 DEF CurrentIs
<1>5. /\ Apdu("CHANGE REFERENCE DATA", user, "kf", pwd).ins = "CHANGE REFERENCE DATA"
      /\ Current("ACTIVATE").ins = "ACTIVATE"
  BY DEF Current, Apdu
<1>. QED
  BY <1>4, <1>5 DEF Accepts

\* CHANGE REFERENCE DATA.
LEMMA CompleteChangeRefData ==
  ASSUME lost' = 0, "refuse" \notin Faults, Whole, ChangeRefData
  PROVE  CompleteInv'
<1>1. /\ pc = "change ref data" /\ Send(Apdu("CHANGE REFERENCE DATA", user, "kf", pwd))
      /\ UNCHANGED callVars /\ pc' = "select kf use" /\ pc \in RegisterSteps
  BY DEF ChangeRefData, Ignored, Goto, RegisterSteps
<1>2. sw' = "ok"
  BY <1>1, KeyFileCurrent, CommandFailed DEF Whole, Trusted
<1>3. UNCHANGED <<lcs, records, data>>
  BY <1>2, PasswordSet DEF Whole
<1>4. pin' = [pin EXCEPT ![user] = pwd]
  BY <1>2, PasswordSet DEF Whole
<1>5. pin \in [Users -> Passwords \cup {None}]
  BY DEF Whole, Trusted, StorageInv, TypeOK, CardTypeOK
<1>6. user \in Users /\ lcs[user]["df"] = "init"
  BY <1>1, Halfway
<1>7. pin'[user] = pwd /\ \A u \in Users : u # user => pin'[u] = pin[u]
  BY <1>4, <1>5, <1>6
<1>8. /\ \A f \in Files : lcs[user][f] = "none"
      /\ records[user] = NRecords /\ lcs[user]["arr"] = "use" /\ lcs[user]["kf"] = "init"
  BY <1>1 DEF Whole, CompleteInv, Registering, NewKeySteps, RecordSteps
<1>9. NoOrphans' /\ RegisteredIsComplete'
  <2>1. \A u \in Users : u # user =>
          lcs'[u] = lcs[u] /\ records'[u] = records[u] /\ pin'[u] = pin[u]
    BY <1>3, <1>7
  <2>2. lcs'[user]["df"] = "init" /\ (lcs'[user]["arr"] # "none" \/ records'[user] = 0)
    BY <1>3, <1>6, <1>8
  <2>. QED
    BY <2>1, <2>2, HalfMadeKept DEF Whole
<1>10. Registering'
  BY <1>1, <1>3, <1>7, <1>8
     DEF Registering, RecordSteps, NoKeySteps, NewKeySteps, KeySteps, callVars
<1>. QED
  BY <1>9, <1>10 DEF CompleteInv

\* ACTIVATE of the key file.
LEMMA CompleteActivateKf ==
  ASSUME lost' = 0, "refuse" \notin Faults, Whole, ActivateKf
  PROVE  CompleteInv'
<1>1. /\ pc = "activate kf" /\ Send(Current("ACTIVATE")) /\ pc' = "select df use"
      /\ UNCHANGED callVars /\ pc \in RegisterSteps
  BY DEF ActivateKf, Ignored, Goto, RegisterSteps
<1>2. sw' = "ok"
  BY <1>1, KeyFileCurrent, CommandFailed DEF Whole, Trusted
<1>3. user \in Users /\ dir = user /\ node = "kf"
  BY <1>1, Halfway DEF Whole, Trusted, ReliableInv, Located
<1>4. UNCHANGED <<records, pin, data>>
  BY <1>1, <1>2, <1>3, FileActivated DEF Whole
<1>5. \A u \in Users : u # user => lcs'[u] = lcs[u]
  BY <1>1, <1>2, <1>3, FileActivated DEF Whole
<1>6. \A k \in Nodes : lcs'[user][k] = IF k = "kf" THEN "use" ELSE lcs[user][k]
  BY <1>1, <1>2, <1>3, FileActivated DEF Whole
<1>7. /\ \A f \in Files : lcs[user][f] = "none"
      /\ records[user] = NRecords /\ lcs[user]["arr"] = "use" /\ pin[user] = pwd
  BY <1>1 DEF Whole, CompleteInv, Registering, NewKeySteps, RecordSteps
<1>8. /\ lcs'[user]["arr"] = "use" /\ lcs'[user]["kf"] = "use"
      /\ \A f \in Files : lcs'[user][f] = "none"
  BY <1>6, <1>7, NodeNames, StepNames
<1>9. NoOrphans' /\ RegisteredIsComplete'
  BY <1>1, <1>4, <1>5, <1>6, HalfMadeNode
<1>10. Registering'
  BY <1>1, <1>4, <1>7, <1>8
     DEF Registering, RecordSteps, NoKeySteps, NewKeySteps, KeySteps, callVars
<1>. QED
  BY <1>9, <1>10 DEF CompleteInv

\* ACTIVATE of the DF, by which the user is registered: all is there by then.
LEMMA CompleteActivateDf == ASSUME lost' = 0, Whole, ActivateDf PROVE CompleteInv'
<1>1. CASE sw' = "ok"
  <2>1. /\ pc = "activate df" /\ Send(Current("ACTIVATE")) /\ pc' = "returned"
        /\ pc \in RegisterSteps
    BY <1>1 DEF ActivateDf, Checked, Proceed, Return, RegisterSteps
  <2>2. user \in Users /\ dir = user /\ node = "df"
    BY <2>1, Halfway DEF Whole, Trusted, ReliableInv, Located
  <2>3. UNCHANGED <<records, pin, data>>
    BY <1>1, <2>1, <2>2, FileActivated DEF Whole
  <2>4. \A u \in Users : u # user => lcs'[u] = lcs[u]
    BY <1>1, <2>1, <2>2, FileActivated DEF Whole
  <2>5. \A k \in Nodes : lcs'[user][k] = IF k = "df" THEN "use" ELSE lcs[user][k]
    BY <1>1, <2>1, <2>2, FileActivated DEF Whole
  <2>6. /\ records[user] = NRecords /\ lcs[user]["arr"] = "use"
        /\ lcs[user]["kf"] = "use" /\ pin[user] = pwd
    BY <2>1 DEF Whole, CompleteInv, Registering, KeySteps, RecordSteps
  <2>7. pwd # None
    <3>1. pwd \in Passwords
      BY <2>1, Halfway, Registers DEF Whole
    <3>. QED
      BY <3>1, ElementAssumption
  <2>8. /\ lcs'[user]["df"] = "use" /\ lcs'[user]["arr"] = "use"
        /\ lcs'[user]["kf"] = "use"
    BY <2>5, <2>6, NodeNames
  <2>9. NoOrphans'
    BY <2>3, <2>4, <2>8 DEF NoOrphans, Whole, CompleteInv
  <2>10. RegisteredIsComplete'
    BY <2>3, <2>4, <2>6, <2>7, <2>8 DEF RegisteredIsComplete, Whole, CompleteInv
  <2>11. Registering'
    BY <2>1 DEF Registering, RegisterSteps
  <2>. QED
    BY <2>9, <2>10, <2>11 DEF CompleteInv
<1>. QED
  BY <1>1, CompleteFails DEF ActivateDf

\* The SELECTs of a registration.
LEMMA CompleteSelects ==
  ASSUME lost' = 0, "refuse" \notin Faults, Whole,
         SelectUserEfArr \/ SelectArrUse \/ SelectKf \/ SelectKfUse \/ SelectDfUse
  PROVE  CompleteInv'
<1>1. CASE SelectUserEfArr \/ SelectArrUse
  <2>1. CASE sw' = "ok"
    <3>1. /\ pc \in RegisterSteps /\ Send(UserFile("arr")) /\ UNCHANGED <<callVars, i>>
          /\ \/ pc = "select arr" /\ pc' = "append record"
             \/ pc = "select arr use" /\ pc' = "activate arr"
      BY <1>1, <2>1
         DEF SelectUserEfArr, SelectArrUse, Checked, Proceed, Goto, RegisterSteps, workVars
    <3>. QED
      BY <3>1, CompleteRegisterSelect
  <2>. QED
    BY <1>1, <2>1, CompleteFails DEF SelectUserEfArr, SelectArrUse
<1>2. CASE SelectKf \/ SelectKfUse
  <2>1. /\ pc \in {"select kf", "select kf use"} /\ Send(UserFile("kf"))
        /\ UNCHANGED <<callVars, i>>
    BY <1>2 DEF SelectKf, SelectKfUse, Ignored, workVars
  <2>2. sw' = "ok"
    BY <2>1, SelectAccepted
  <2>3. \/ pc = "select kf" /\ pc' = "change ref data"
        \/ pc = "select kf use" /\ pc' = "activate kf"
    BY <1>2, <2>2 DEF SelectKf, SelectKfUse, Ignored, Goto
  <2>4. pc \in RegisterSteps
    BY <2>1 DEF RegisterSteps
  <2>. QED
    BY <2>1, <2>3, <2>4, CompleteRegisterSelect
<1>3. CASE SelectDfUse
  <2>1. CASE sw' = "ok"
    <3>1. /\ pc \in RegisterSteps /\ Send(UserFile("df")) /\ UNCHANGED <<callVars, i>>
          /\ pc = "select df use" /\ pc' = "activate df"
      BY <1>3, <2>1 DEF SelectDfUse, Checked, Proceed, Goto, RegisterSteps, workVars
    <3>. QED
      BY <3>1, CompleteRegisterSelect
  <2>. QED
    BY <1>3, <2>1, CompleteFails DEF SelectDfUse
<1>. QED
  BY <1>1, <1>2, <1>3

\* Every step keeps the invariant.
LEMMA CompleteNext ==
  ASSUME lost' = 0, "refuse" \notin Faults, Whole, Next
  PROVE  CompleteInv'
<1>1. CASE QuietStep \/ CheckUserDf
  BY <1>1, CompleteQuietStep
<1>2. CASE RegisterStep
  BY <1>2, CompleteCreateDf, CompleteCreateArr, CompleteSelects, CompleteAddRecord,
     CompleteActivateArr, CompleteCreateKf, CompleteChangeRefData, CompleteActivateKf,
     CompleteActivateDf
     DEF RegisterStep
<1>3. CASE DeleteUserDf
  BY <1>3, CompleteDeleteUserDf
<1>4. CASE CreateBf \/ SelectBfWrite \/ WriteBf \/ SelectBfUse \/ ActivateBf \/ DeleteBf
  BY <1>4, CompleteFileStep
<1>. QED
  BY <1>1, <1>2, <1>3, <1>4 DEF Next, ClientStep, FileStep, QuietStep

\* A step that changes nothing keeps it.
LEMMA CompleteStutter == ASSUME CompleteInv, UNCHANGED vars PROVE CompleteInv'
<1>1. UNCHANGED <<lcs, records, pin, pc, user, pwd, i>>
  BY DEF vars, cardVars, fileVars, clientVars, callVars, workVars
<1>2. NoOrphans' /\ RegisteredIsComplete'
  BY <1>1 DEF CompleteInv, NoOrphans, RegisteredIsComplete
<1>3. Registering'
  BY <1>1 DEF CompleteInv, Registering
<1>. QED
  BY <1>2, <1>3 DEF CompleteInv

\* Initially there are no files.
LEMMA CompleteInit == Init => CompleteInv
<1>1. SUFFICES ASSUME Init PROVE CompleteInv
  OBVIOUS
<1>2. /\ pc = "idle" /\ \A u \in Users : records[u] = 0
      /\ \A u \in Users, n \in Nodes : lcs[u][n] = "none"
  BY <1>1 DEF Init, ClientInit, CardInit, NoFiles
<1>3. NoOrphans /\ RegisteredIsComplete
  BY <1>2, NodeNames DEF NoOrphans, RegisteredIsComplete
<1>4. Registering
  BY <1>2 DEF Registering, RegisterSteps
<1>. QED
  BY <1>3, <1>4 DEF CompleteInv

\* What holds at each exchange when nothing is refused and as long as no answer
\* has been lost.
THEOREM CompleteInvariant ==
  ASSUME "refuse" \notin Faults
  PROVE  Spec => [](lost = 0 => CompleteInv)
<1>1. ASSUME StorageInv, lost = 0 => ReliableInv, lost = 0 => CompleteInv, [Next]_vars
      PROVE  (lost = 0 => CompleteInv)'
  BY <1>1, LostStays, CompleteNext, CompleteStutter DEF Whole, Trusted
<1>. QED
  BY <1>1, CompleteInit, StorageInvariant, ReliableInvariant, PTL DEF Spec

\* A user whose DF is in use has all records and a password, wherever the
\* process dies: register_new_user_impl activates the DF last.
THEOREM RegisteredAreComplete ==
  ASSUME MaxLost = 0, "refuse" \notin Faults
  PROVE  Spec => []RegisteredIsComplete
<1>1. StorageInv /\ (lost = 0 => CompleteInv) => RegisteredIsComplete
  BY NoneLost DEF CompleteInv
<1>. QED
  BY <1>1, CompleteInvariant, StorageInvariant, PTL

-----------------------------------------------------------------------------
(* What a call reports with SEC_STORAGE_OK.                                *)

ChangeOps == {"register", "unregister", "create_bf", "delete_bf"}
ResultOps == {"read_bf", "is_registered", "list_users", "list_files"}

(* The invariant.                                                           *)

\* Where a list operation is, and how much of the directory it has stored.
Gathering ==
  /\ pc \in {"list first", "list next"} =>
       \/ op = "list_users" /\ dir = Root
       \/ op = "list_files" /\ dir = user /\ user \in Users
  /\ pc \notin {"list next", "returned"} => found = {} /\ repeated = FALSE
  /\ pc = "list next" =>
       /\ unlisted \subseteq Children(dir) /\ repeated = FALSE
       /\ found = {x \in Children(dir) \ unlisted : Listed(x)}

\* How much of the file has been copied.
Reading ==
  pc = "read binary" => len = NChunks /\ \A k \in 1..i : buf[k] = data[user][file][k]

ResultsInv == Gathering /\ Reading /\ ChangesAreDone /\ ResultsAreTrue

\* A step by which a call returns SEC_STORAGE_OK.
ReturnsOK == pc' = "returned" /\ ret' = "OK"

(* The changes.                                                             *)

\* The steps of a registration or creation return with SEC_STORAGE_OK at the
\* last ACTIVATE only.
LEMMA LastExchange ==
  ASSUME ReturnsOK, RegisterStep \/ CreateBf \/ SelectBfWrite \/ WriteBf \/ SelectBfUse
                    \/ ActivateBf \/ SelectDfDelete \/ DeleteUserDf \/ SelectBfDelete
                    \/ DeleteBf
  PROVE  (ActivateDf \/ ActivateBf \/ DeleteUserDf \/ DeleteBf) /\ sw' = "ok"
         /\ UNCHANGED callVars
<1>. USE DEF ReturnsOK, Checked, Ignored, Proceed, Goto, Return
<1>1. CASE \/ ActivateDf \/ ActivateBf \/ DeleteUserDf \/ DeleteBf
  <2>1. ASSUME NEW step, NEW c, Checked(step, c, "returned")
        PROVE  sw' = "ok" /\ UNCHANGED callVars
    BY <2>1
  <2>. HIDE DEF Checked
  <2>. QED
    BY <1>1, <2>1 DEF ActivateDf, ActivateBf, DeleteUserDf, DeleteBf
<1>2. CASE \/ CreateUserDf \/ CreateUserEfArr \/ SelectUserEfArr \/ SelectArrUse \/ ActivateArr
           \/ SelectDfUse \/ CreateBf \/ SelectBfWrite \/ SelectBfUse \/ SelectDfDelete
  <2>1. ASSUME NEW step, NEW c, NEW next, Checked(step, c, next), next # "returned"
        PROVE  FALSE
    BY <2>1
  <2>. HIDE DEF Checked
  <2>. QED
    BY <1>2, <2>1 DEF CreateUserDf, CreateUserEfArr, SelectUserEfArr, SelectArrUse,
                      ActivateArr, SelectDfUse, CreateBf, SelectBfWrite, SelectBfUse,
                      SelectDfDelete
<1>3. CASE CreateKf \/ SelectKf \/ ChangeRefData \/ SelectKfUse \/ ActivateKf \/ SelectBfDelete
  BY <1>3 DEF CreateKf, SelectKf, ChangeRefData, SelectKfUse, ActivateKf, SelectBfDelete
<1>4. CASE AddRecordEfArr \/ WriteBf
  BY <1>4 DEF AddRecordEfArr, WriteBf
<1>. QED
  BY <1>1, <1>2, <1>3, <1>4 DEF RegisterStep

\* The other steps return it for the operations that change no file.
LEMMA OtherReturns ==
  ASSUME Trusted, Gathering, ReturnsOK, QuietStep \/ CheckUserDf
  PROVE  op \notin ChangeOps /\ UNCHANGED callVars
<1>. USE DEF ReturnsOK, Goto, Return
<1>1. CASE Call \/ CallerResumes \/ OpenChannel \/ CloseChannel \/ Crash
           \/ ReadNullSize \/ FreeUninitialised
  BY <1>1 DEF Call, CallerResumes, OpenChannel, CloseChannel, Crash, ReadNullSize,
              FreeUninitialised, Restart, Idle
<1>2. CASE SelectCryptoAid
  BY <1>2 DEF SelectCryptoAid, AfterAid
<1>3. CASE CheckUserDf
  <2>1. user \in Users
    BY <1>3 DEF CheckUserDf, Trusted, StorageInv, Fits, Steps
  <2>2. sw' \in Status
    BY <1>3, <2>1, Exchange, Commands, NodeNames DEF CheckUserDf, Trusted, StorageInv, RspTypeOK
  <2>. QED
    BY <1>3, <2>2 DEF CheckUserDf, Status, ChangeOps
<1>4. CASE OpenUserDf
  <2>1. op \in FileOps \cup {"select_user", "list_files"}
    BY <1>4 DEF OpenUserDf, Trusted, StorageInv, Fits, Steps
  <2>. QED
    BY <1>4, <2>1 DEF OpenUserDf, FileOps, ChangeOps
<1>5. CASE CheckBf
  BY <1>5 DEF CheckBf
<1>6. CASE VerifyPin
  <2>1. op \in {"unregister", "create_bf", "read_bf", "delete_bf"}
    BY <1>6 DEF VerifyPin, Trusted, StorageInv, Fits, Steps, FileOps
  <2>. QED
    BY <1>6, <2>1 DEF VerifyPin, AfterVerify
<1>7. CASE SelectDfDelete \/ SelectBfDelete
  BY <1>7 DEF SelectDfDelete, SelectBfDelete, Checked, Ignored, Proceed
<1>8. CASE SelectBfRead \/ ReadBf
  <2>1. op = "read_bf" /\ UNCHANGED callVars
    BY <1>8 DEF SelectBfRead, ReadBf, Trusted, ReliableInv, Calling
  <2>. QED
    BY <2>1 DEF ChangeOps
<1>9. CASE ListFiles
  <2>1. op \in {"list_users", "list_files"} /\ UNCHANGED callVars
    BY <1>9 DEF ListFiles, Gathering
  <2>. QED
    BY <2>1 DEF ChangeOps
<1>. QED
  BY <1>1, <1>2, <1>3, <1>4, <1>5, <1>6, <1>7, <1>8, <1>9 DEF QuietStep

\* No call changes what it has promised but as it returns.
LEMMA ChangesNext ==
  ASSUME lost' = 0, Whole, Gathering, Next PROVE ChangesAreDone'
<1>1. CASE ~ ReturnsOK
  BY <1>1 DEF ReturnsOK, ChangesAreDone, Returned
<1>2. CASE ReturnsOK /\ (QuietStep \/ CheckUserDf)
  BY <1>2, OtherReturns DEF ChangesAreDone, Returned, ChangeOps, callVars, Whole
<1>3. CASE ReturnsOK /\ ActivateDf
  <2>1. sw' = "ok" /\ UNCHANGED callVars /\ pc = "activate df" /\ pc \in RegisterSteps
        /\ Send(Current("ACTIVATE"))
    BY <1>3, LastExchange DEF RegisterStep, ActivateDf, Checked, RegisterSteps
  <2>2. user \in Users /\ dir = user /\ node = "df" /\ op = "register"
    BY <2>1, Halfway, Registers DEF Whole, Trusted, ReliableInv, Located
  <2>3. UNCHANGED <<records, pin>>
    BY <2>1, <2>2, FileActivated DEF Whole
  <2>4. \A k \in Nodes : lcs'[user][k] = IF k = "df" THEN "use" ELSE lcs[user][k]
    BY <2>1, <2>2, FileActivated DEF Whole
  <2>5. /\ records[user] = NRecords /\ pin[user] = pwd
        /\ lcs[user]["arr"] = "use" /\ lcs[user]["kf"] = "use"
        /\ \A f \in Files : lcs[user][f] = "none"
    BY <2>1 DEF Whole, CompleteInv, Registering, RecordSteps, NoKeySteps, NewKeySteps, KeySteps
  <2>6. \A n \in {"df", "arr", "kf"} : lcs'[user][n] = "use"
    BY <2>4, <2>5, NodeNames
  <2>7. \A f \in Files : lcs'[user][f] = "none"
    BY <2>4, <2>5, NodeNames, StepNames
  <2>8. user' = user /\ pwd' = pwd /\ op' = "register"
    BY <2>1, <2>2 DEF callVars
  <2>. QED
    BY <2>3, <2>5, <2>6, <2>7, <2>8 DEF ChangesAreDone, Returned
<1>4. CASE ReturnsOK /\ DeleteUserDf
  <2>1. sw' = "ok" /\ UNCHANGED callVars
    BY <1>4, LastExchange
  <2>2. op = "unregister" /\ lcs'[user] = NoFiles /\ pin'[user] = None
    BY <1>4, <2>1, DfDeleted DEF Whole
  <2>3. user' = user /\ op' = "unregister"
    BY <2>1, <2>2 DEF callVars
  <2>. QED
    BY <2>2, <2>3 DEF ChangesAreDone, Returned
<1>5. CASE ReturnsOK /\ ActivateBf
  <2>1. sw' = "ok" /\ UNCHANGED callVars /\ pc \in CreateSteps
    BY <1>5, LastExchange DEF ActivateBf, Checked, CreateSteps
  <2>2. op = "create_bf" /\ user \in Users /\ file \in Nodes
    BY <2>1, Creating DEF Whole
  <2>3. data' = data /\ data[user][file] = [k \in 1..NChunks |-> val]
    BY <1>5, <2>1, BfActivated DEF Whole
  <2>4. lcs'[user][file] = "use"
    BY <1>5, <2>1, <2>2, BfActivated DEF Whole
  <2>5. user' = user /\ file' = file /\ val' = val /\ op' = "create_bf"
    BY <2>1, <2>2 DEF callVars
  <2>. QED
    BY <2>3, <2>4, <2>5 DEF ChangesAreDone, Returned
<1>6. CASE ReturnsOK /\ DeleteBf
  <2>1. sw' = "ok" /\ UNCHANGED callVars
    BY <1>6, LastExchange
  <2>2. op = "delete_bf" /\ file \in Nodes
    BY <1>6, <2>1, BfDeleted, NodeNames DEF Whole
  <2>3. lcs'[user][file] = "none"
    BY <1>6, <2>1, <2>2, BfDeleted DEF Whole
  <2>4. user' = user /\ file' = file /\ op' = "delete_bf"
    BY <2>1, <2>2 DEF callVars
  <2>. QED
    BY <2>3, <2>4 DEF ChangesAreDone, Returned
<1>7. ReturnsOK =>
        \/ QuietStep \/ CheckUserDf \/ ActivateDf \/ DeleteUserDf \/ ActivateBf \/ DeleteBf
  BY LastExchange DEF Next, ClientStep, FileStep, QuietStep
<1>. QED
  BY <1>1, <1>2, <1>3, <1>4, <1>5, <1>6, <1>7

-----------------------------------------------------------------------------
(* The results.                                                             *)

\* A step that is neither of reading nor of listing, and that reports no result.
LEMMA ResultsKept ==
  ASSUME Gathering, pc \notin {"list next", "returned"}, UNCHANGED <<found, repeated>>,
         pc' \notin {"list first", "list next", "read binary"},
         ReturnsOK => op' \notin ResultOps
  PROVE  Gathering' /\ Reading' /\ ResultsAreTrue'
<1>1. Gathering' /\ Reading'
  BY DEF Gathering, Reading
<1>2. ResultsAreTrue'
  BY DEF ResultsAreTrue, Returned, ReturnsOK, ResultOps
<1>. QED
  BY <1>1, <1>2

\* Between calls, and when the process dies.
LEMMA ResultsBetween ==
  ASSUME Gathering, Call \/ CallerResumes \/ OpenChannel \/ CloseChannel \/ Crash
                    \/ ReadNullSize \/ FreeUninitialised
  PROVE  Gathering' /\ Reading' /\ ResultsAreTrue'
<1>1. pc' \in {"idle", "select aid"} /\ found' = {} /\ repeated' = FALSE
  BY DEF Call, CallerResumes, OpenChannel, CloseChannel, Crash, ReadNullSize,
         FreeUninitialised, Restart, Idle, workVars, Gathering
<1>. QED
  BY <1>1 DEF Gathering, Reading, ResultsAreTrue, Returned

\* The steps of a registration.
LEMMA ResultsRegister ==
  ASSUME lost' = 0, Whole, Gathering, RegisterStep
  PROVE  Gathering' /\ Reading' /\ ResultsAreTrue'
<1>1. pc \in RegSteps /\ UNCHANGED <<callVars, found, repeated>>
      /\ pc' \in RegSteps \cup {"returned"}
  BY DEF RegisterStep, CreateUserDf, CreateUserEfArr, SelectUserEfArr, AddRecordEfArr,
         SelectArrUse, ActivateArr, CreateKf, SelectKf, ChangeRefData, SelectKfUse,
         ActivateKf, SelectDfUse, ActivateDf, Checked, Ignored, Proceed, Goto, Return,
         RegSteps, RegisterSteps, workVars
<1>2. op' = "register"
  BY <1>1, Registers DEF Whole, callVars
<1>3. /\ pc \notin {"list next", "returned"}
      /\ pc' \notin {"list first", "list next", "read binary"}
  BY <1>1 DEF RegSteps, RegisterSteps
<1>. QED
  BY <1>1, <1>2, <1>3, ResultsKept DEF ResultOps

\* The steps of an unregistration, and of the creation and deletion of a file.
LEMMA ResultsChange ==
  ASSUME lost' = 0, Whole, Gathering,
         \/ SelectDfDelete \/ DeleteUserDf \/ SelectBfDelete \/ DeleteBf
         \/ CreateBf \/ SelectBfWrite \/ WriteBf \/ SelectBfUse \/ ActivateBf
  PROVE  Gathering' /\ Reading' /\ ResultsAreTrue'
<1>1. /\ pc \in {"select df delete", "delete df", "select bf delete", "delete bf",
                  "create bf"} \cup CreateSteps
      /\ UNCHANGED <<callVars, found, repeated>>
      /\ pc' \in {"delete df", "delete bf", "returned"} \cup CreateSteps
  BY DEF SelectDfDelete, DeleteUserDf, SelectBfDelete, DeleteBf, CreateBf, SelectBfWrite,
         WriteBf, SelectBfUse, ActivateBf, Checked, Ignored, Proceed, Goto, Return,
         CreateSteps, workVars
<1>2. op' \in {"unregister", "delete_bf", "create_bf"}
  BY <1>1, Creating DEF Whole, Trusted, ReliableInv, Calling, callVars
<1>3. /\ pc \notin {"list next", "returned"}
      /\ pc' \notin {"list first", "list next", "read binary"}
  BY <1>1 DEF CreateSteps
<1>. QED
  BY <1>1, <1>2, <1>3, ResultsKept DEF ResultOps

\* The check of the file and of the password.
LEMMA ResultsVerify ==
  ASSUME Trusted, Gathering, CheckBf \/ VerifyPin
  PROVE  Gathering' /\ Reading' /\ ResultsAreTrue'
<1>1. CASE CheckBf
  BY <1>1, ResultsKept DEF CheckBf, Goto, Return, ReturnsOK
<1>2. CASE VerifyPin
  <2>1. op \in {"unregister", "create_bf", "read_bf", "delete_bf"}
    BY <1>2 DEF VerifyPin, Trusted, StorageInv, Fits, Steps, FileOps
  <2>2. /\ pc = "verify" /\ UNCHANGED <<found, repeated>>
        /\ ~ ReturnsOK /\ pc' \notin {"list first", "list next", "read binary"}
    BY <1>2, <2>1 DEF VerifyPin, AfterVerify, Goto, Return, ReturnsOK, workVars
  <2>. QED
    BY <2>2, ResultsKept
<1>. QED
  BY <1>1, <1>2

\* SELECT of the applet: a list of the users starts at its root.
LEMMA ResultsSelectAid ==
  ASSUME lost' = 0, "refuse" \notin Faults, Trusted, Gathering, SelectCryptoAid
  PROVE  Gathering' /\ Reading' /\ ResultsAreTrue'
<1>1. ~ Lose
  BY NothingLost DEF Trusted
<1>2. pc = "select aid" /\ UNCHANGED <<callVars, found, repeated>>
  BY DEF SelectCryptoAid, workVars
<1>3. ~ ReturnsOK
  BY <1>1 DEF SelectCryptoAid, AfterAid, Goto, Return, ReturnsOK
<1>4. CASE pc' = "list first"
  <2>1. op = "list_users"
    BY <1>1, <1>4 DEF SelectCryptoAid, AfterAid, Goto, Return
  <2>2. \E x : Execute(Current("SELECT AID"), x)
    BY <1>1, <1>4 DEF SelectCryptoAid, Return
  <2>3. dir' = Root
    BY <2>2, AidDone
  <2>4. Gathering'
    BY <1>2, <1>4, <2>1, <2>3 DEF Gathering, callVars
  <2>. QED
    BY <1>3, <1>4, <2>4 DEF Reading, ResultsAreTrue, Returned, ReturnsOK
<1>5. CASE pc' # "list first"
  <2>1. pc' \in {"returned", "check df"}
    BY <1>1, <1>5 DEF SelectCryptoAid, AfterAid, Goto, Return
  <2>. QED
    BY <1>2, <1>3, <2>1, ResultsKept
<1>. QED
  BY <1>4, <1>5

\* The check of the user: what is_user_registered reports.
LEMMA ResultsCheckUserDf ==
  ASSUME lost' = 0, "refuse" \notin Faults, Trusted, Gathering, CheckUserDf
  PROVE  Gathering' /\ Reading' /\ ResultsAreTrue'
<1>1. /\ pc = "check df" /\ Send(UserFile("df")) /\ UNCHANGED <<callVars, found, repeated>>
      /\ exists' = (sw' = "ok")
  BY DEF CheckUserDf
<1>2. user \in Users
  BY <1>1 DEF Trusted, StorageInv, Fits, Steps
<1>3. sw' \in Status
  BY <1>1, <1>2, Exchange, Commands, NodeNames DEF Trusted, StorageInv, RspTypeOK
<1>4. pc' \in {"returned", "verify", "open df", "create df"}
  BY <1>3 DEF CheckUserDf, Goto, Return, Status
<1>5. UNCHANGED lcs /\ (sw' = "ok" <=> lcs[user]["df"] # "none")
  BY <1>1, <1>2, SelectExchange, UserHome, NodeNames DEF Trusted
<1>6. Gathering' /\ Reading'
  BY <1>1, <1>4 DEF Gathering, Reading
<1>7. CASE ReturnsOK
  <2>1. op = "is_registered"
    BY <1>3, <1>7 DEF CheckUserDf, Status, Goto, Return, ReturnsOK
  <2>2. op' = "is_registered" /\ user' = user
    BY <1>1, <2>1 DEF callVars
  <2>3. exists' = (lcs'[user']["df"] # "none")
    BY <1>1, <1>5, <2>2, Zenon
  <2>4. ResultsAreTrue'
    BY <2>2, <2>3, Zenon DEF ResultsAreTrue, Returned
  <2>. QED
    BY <1>6, <2>4
<1>8. CASE ~ ReturnsOK
  BY <1>1, <1>4, <1>8, ResultsKept
<1>. QED
  BY <1>6, <1>7, <1>8

\* SELECT of the user's DF: a list of the files starts there.
LEMMA ResultsOpenUserDf ==
  ASSUME lost' = 0, Trusted, Gathering, OpenUserDf
  PROVE  Gathering' /\ Reading' /\ ResultsAreTrue'
<1>1. pc = "open df" /\ Send(UserFile("df")) /\ UNCHANGED <<callVars, found, repeated>>
  BY DEF OpenUserDf, workVars
<1>2. user \in Users /\ op \in FileOps \cup {"select_user", "list_files"}
  BY <1>1 DEF Trusted, StorageInv, Fits, Steps
<1>3. pc' \in {"returned", "list first", "check bf"} /\ (ReturnsOK => op = "select_user")
  BY <1>2 DEF OpenUserDf, Goto, Return, FileOps, ReturnsOK
<1>4. CASE pc' = "list first"
  <2>1. op = "list_files" /\ sw' = "ok"
    BY <1>2, <1>4 DEF OpenUserDf, Goto, Return, FileOps
  <2>2. dir' = user
    BY <1>1, <1>2, <2>1, SelectExchange, UserHome, NodeNames DEF Trusted
  <2>3. Gathering'
    BY <1>1, <1>2, <1>4, <2>1, <2>2 DEF Gathering, callVars
  <2>. QED
    BY <1>4, <2>3 DEF Reading, ResultsAreTrue, Returned
<1>5. CASE pc' # "list first"
  <2>1. ReturnsOK => op' \notin ResultOps
    BY <1>1, <1>3 DEF ResultOps, callVars
  <2>. QED
    BY <1>1, <1>3, <1>5, <2>1, ResultsKept
<1>. QED
  BY <1>4, <1>5

(* do_read_data_from_bf_file *)

\* There is no chunk before the first.
LEMMA NoChunk == \A k \in 1..0 : FALSE
OBVIOUS

\* The chunks up to the next one are the chunks up to this one and the next.
LEMMA NextChunk ==
  ASSUME NEW m \in Nat, NEW n \in Nat, m < n
  PROVE  /\ m + 1 \in 1..n /\ (~ (m + 1 < n) => m + 1 = n)
         /\ \A k \in 1..(m + 1) : k \in 1..n /\ (k # m + 1 => k \in 1..m)
OBVIOUS

\* The size in the answer is the size of the file.
LEMMA ResultsSelectBfRead ==
  ASSUME lost' = 0, Trusted, Gathering, SelectBfRead
  PROVE  Gathering' /\ Reading' /\ ResultsAreTrue'
<1>. DEFINE c == Apdu("SELECT FCP", user, file, None)
<1>1. /\ pc = "select bf read" /\ Send(c)
      /\ UNCHANGED <<callVars, found, repeated, i>>
  BY DEF SelectBfRead
<1>2. file \in Files /\ i = 0
  BY <1>1, LetIn DEF VerifiedSteps, Trusted, StorageInv, LoopOK
<1>3. CASE sw' = "ok"
  <2>1. PICK x \in Answers(c) : Accepts(c) /\ payload' = x
    BY <1>1, <1>3, CommandDone DEF Trusted
  <2>2. payload' = file
    BY <2>1 DEF Answers, Apdu
  <2>3. len' = NChunks /\ Proceed(IF len' = 0 THEN "returned" ELSE "read binary")
    BY <1>2, <1>3, <2>2 DEF SelectBfRead
  <2>4. len' # 0
    BY <2>3, ElementAssumption
  <2>5. pc' = "read binary"
    BY <2>3, <2>4 DEF Proceed, Goto
  <2>6. Gathering'
    BY <1>1, <2>5 DEF Gathering
  <2>7. Reading'
    <3>1. \A k \in 1..i' : FALSE
      <4>1. i' = 0
        BY <1>1, <1>2
      <4>. QED
        BY <4>1, NoChunk
    <3>2. len' = NChunks
      BY <2>3
    <3>. QED
      BY <3>1, <3>2 DEF Reading
  <2>. QED
    BY <2>5, <2>6, <2>7 DEF ResultsAreTrue, Returned
<1>4. CASE sw' # "ok"
  <2>1. pc' = "returned" /\ ~ ReturnsOK
    BY <1>4 DEF SelectBfRead, Return, ReturnsOK
  <2>. QED
    BY <1>1, <2>1, ResultsKept
<1>. QED
  BY <1>3, <1>4

\* Each chunk goes to its place, until the size is reached.
LEMMA ResultsReadBf ==
  ASSUME lost' = 0, Trusted, Gathering, Reading, ReadBf
  PROVE  Gathering' /\ Reading' /\ ResultsAreTrue'
<1>. DEFINE c == Apdu("READ BINARY", user, file, i + 1)
<1>1. pc = "read binary" /\ Send(c) /\ UNCHANGED <<callVars, found, repeated, len>>
  BY DEF ReadBf
<1>2. /\ pc \in VerifiedSteps /\ user \in Users /\ file \in Files /\ dir = user
      /\ op = "read_bf" /\ pin[user] = pwd /\ node = file
  BY <1>1, LetIn DEF VerifiedSteps, Trusted, ReliableInv, Calling, Located
<1>3. /\ i \in Nat /\ NChunks \in Nat /\ i < NChunks /\ len = NChunks
      /\ \A k \in 1..i : buf[k] = data[user][file][k]
  <2>1. NChunks \in Nat /\ NRecords \in Nat
    BY ElementAssumption
  <2>2. i \in 0..NRecords + NChunks /\ i < len
    BY <1>1 DEF Trusted, StorageInv, TypeOK, LoopOK
  <2>3. len = NChunks /\ \A k \in 1..i : buf[k] = data[user][file][k]
    BY <1>1 DEF Reading
  <2>. QED
    BY <2>1, <2>2, <2>3
<1>4. CASE sw' = "ok"
  <2>1. PICK x \in Answers(c) : Accepts(c) /\ Execute(c, x) /\ payload' = x
    BY <1>1, <1>4, CommandDone DEF Trusted
  <2>2. UNCHANGED <<pin, data>> /\ payload' = data[user][file][i + 1]
    BY <1>2, <2>1, ReadDone
  <2>3. buf' = [buf EXCEPT ![i + 1] = payload'] /\ i' = i + 1
        /\ Proceed(IF i + 1 < len THEN "read binary" ELSE "returned")
    BY <1>4 DEF ReadBf
  <2>4. buf \in [1..NChunks -> Payloads] /\ data[user][file] \in [1..NChunks -> Values \cup {None}]
    <3>1. CardTypeOK /\ buf \in [1..NChunks -> Payloads]
      BY DEF Trusted, StorageInv, TypeOK
    <3>2. data \in [Users -> [Files -> [1..NChunks -> Values \cup {None}]]]
      BY <3>1 DEF CardTypeOK
    <3>. QED
      BY <1>2, <3>1, <3>2
  <2>5. \A k \in 1..(i + 1) : buf'[k] = data[user][file][k]
    <3>1. i + 1 \in 1..NChunks
      BY <1>3, NextChunk
    <3>2. \A k \in 1..NChunks : buf'[k] = IF k = i + 1 THEN payload' ELSE buf[k]
      BY <2>3, <2>4, <3>1
    <3>3. \A k \in 1..(i + 1) : k \in 1..NChunks /\ (k # i + 1 => k \in 1..i)
      BY <1>3, NextChunk
    <3>. QED
      BY <1>3, <2>2, <3>2, <3>3
  <2>6. pc' \in {"read binary", "returned"} /\ (pc' = "returned" => i + 1 = NChunks)
    <3>1. CASE i + 1 < len
      BY <2>3, <3>1 DEF Proceed, Goto
    <3>2. CASE ~ (i + 1 < len)
      <4>1. i + 1 = NChunks
        BY <1>3, <3>2, NextChunk
      <4>. QED
        BY <2>3, <3>2, <4>1 DEF Proceed, Return
    <3>. QED
      BY <3>1, <3>2
  <2>7. user' = user /\ file' = file /\ pwd' = pwd /\ op' = "read_bf"
    BY <1>1, <1>2 DEF callVars
  <2>8. Gathering'
    BY <1>1, <2>6, <2>7 DEF Gathering
  <2>9. Reading'
    BY <1>1, <1>3, <2>2, <2>3, <2>5, <2>7 DEF Reading
  <2>10. i + 1 = NChunks => buf' = data'[user'][file'] /\ pwd' = pin'[user']
    <3>1. buf' = [k \in 1..NChunks |-> buf'[k]]
      BY <2>3, <2>4
    <3>2. i + 1 = NChunks => buf' = data[user][file]
      BY <2>4, <2>5, <3>1
    <3>. QED
      BY <1>2, <2>2, <2>7, <3>2
  <2>11. ResultsAreTrue'
    BY <2>6, <2>7, <2>10 DEF ResultsAreTrue, Returned
  <2>. QED
    BY <2>8, <2>9, <2>11
<1>5. CASE sw' # "ok"
  <2>1. pc' = "returned" /\ ~ ReturnsOK
    BY <1>5 DEF ReadBf, Return, ReturnsOK
  <2>. QED
    BY <1>1, <2>1, ResultsKept
<1>. QED
  BY <1>4, <1>5

(* get_list_of_registered_users, get_list_of_user_bf_files *)

\* What is stored when nothing is left to be listed.
LEMMA AllListed ==
  ASSUME pc \in {"list first", "list next"}, Gathering,
         found = {x \in Children(dir) : Listed(x)}
  PROVE  /\ op = "list_users" => found = {u \in Users : lcs[u]["df"] # "none"}
         /\ op = "list_files" => found = {f \in Files : lcs[user][f] # "none"}
<1>1. CASE op = "list_users"
  BY <1>1 DEF Gathering, Children, Listed
<1>2. CASE op = "list_files"
  <2>1. dir = user /\ user \in Users /\ user # Root
    BY <1>2, ElementAssumption DEF Gathering
  <2>2. found = {x \in {n \in EFs : lcs[user][n] # "none"} : x \in Files}
    BY <1>2, <2>1 DEF Children, Listed
  <2>. QED
    BY <1>2, <2>2 DEF EFs
<1>. QED
  BY <1>1, <1>2

\* Each answer is an entry that has not been stored yet; with the last one
\* stored the next SELECT fails.
LEMMA ResultsListFiles ==
  ASSUME lost' = 0, "refuse" \notin Faults, Trusted, Gathering, ListFiles
  PROVE  Gathering' /\ Reading' /\ ResultsAreTrue'
<1>. DEFINE ins == IF pc = "list first" THEN "SELECT FIRST" ELSE "SELECT NEXT"
            rest == IF pc = "list first" THEN Children(dir) ELSE unlisted
<1>1. /\ pc \in {"list first", "list next"} /\ Send(Current(ins))
      /\ UNCHANGED callVars
  BY DEF ListFiles
<1>2. /\ rest \subseteq Children(dir) /\ repeated = FALSE
      /\ found = {x \in Children(dir) \ rest : Listed(x)}
  BY <1>1 DEF Gathering
<1>3. ins \in {"SELECT FIRST", "SELECT NEXT"} /\ (ins = "SELECT FIRST" <=> pc = "list first")
  OBVIOUS
<1>4. op' = op /\ user' = user /\ \A x : Listed(x)' <=> Listed(x)
  BY <1>1 DEF callVars, Listed
<1>5. CASE sw' = "ok"
  <2>1. PICK x \in Answers(Current(ins)) :
               Accepts(Current(ins)) /\ Execute(Current(ins), x) /\ payload' = x
    BY <1>1, <1>5, CommandDone DEF Trusted
  <2>2. /\ UNCHANGED <<lcs, dir>> /\ payload' \in rest /\ unlisted' = rest \ {payload'}
    BY <1>3, <2>1, ListDone
  <2>3. pc' = "list next" /\ found' = found \cup {y \in {payload'} : Listed(y)}
    BY <1>5 DEF ListFiles, Goto
  <2>4. repeated' = (repeated \/ payload' \in found)
    BY <1>5 DEF ListFiles
  <2>5. payload' \notin found
    BY <1>2, <2>2
  <2>6. repeated' = FALSE
    BY <1>2, <2>4, <2>5
  <2>7. Children(dir)' = Children(dir)
    BY <2>2 DEF Children
  <2>8. unlisted' \subseteq Children(dir)'
    BY <1>2, <2>2, <2>7
  <2>9. found' = {y \in Children(dir)' \ unlisted' : Listed(y)'}
    BY <1>2, <1>4, <2>2, <2>3, <2>7
  <2>10. Gathering'
    BY <1>1, <1>4, <2>2, <2>3, <2>6, <2>8, <2>9 DEF Gathering
  <2>. QED
    BY <2>3, <2>10 DEF Reading, ResultsAreTrue, Returned
<1>6. CASE sw' # "ok"
  <2>1. pc' = "returned" /\ UNCHANGED <<found, repeated>>
    BY <1>6 DEF ListFiles, Return
  <2>2. UNCHANGED lcs /\ ~ Accepts(Current(ins))
    BY <1>1, <1>6, CommandFailed DEF Trusted
  <2>3. rest = {}
    BY <1>3, <2>2 DEF Accepts, Current, Apdu
  <2>4. found = {x \in Children(dir) : Listed(x)}
    BY <1>2, <2>3
  <2>5. /\ op = "list_users" => found = {u \in Users : lcs[u]["df"] # "none"}
        /\ op = "list_files" => found = {f \in Files : lcs[user][f] # "none"}
    BY <1>1, <2>4, AllListed
  <2>6. op \in {"list_users", "list_files"}
    BY <1>1 DEF Gathering
  <2>7. repeated' = FALSE
    BY <1>2, <2>1
  <2>8. ResultsAreTrue'
    BY <1>4, <2>1, <2>2, <2>5, <2>6, <2>7 DEF ResultsAreTrue, Returned
  <2>. QED
    BY <2>1, <2>8 DEF Gathering, Reading
<1>. QED
  BY <1>5, <1>6

-----------------------------------------------------------------------------
\* Every step keeps the invariant.
LEMMA ResultsNext ==
  ASSUME lost' = 0, "refuse" \notin Faults, Whole, ResultsInv, Next
  PROVE  ResultsInv'
<1>1. ChangesAreDone'
  BY ChangesNext DEF ResultsInv
<1>2. Gathering /\ Reading /\ Trusted
  BY DEF ResultsInv, Whole
<1>3. CASE \/ Call \/ CallerResumes \/ OpenChannel \/ CloseChannel \/ Crash
           \/ ReadNullSize \/ FreeUninitialised
  BY <1>1, <1>2, <1>3, ResultsBetween DEF ResultsInv
<1>4. CASE RegisterStep
  BY <1>1, <1>2, <1>4, ResultsRegister DEF ResultsInv
<1>5. CASE \/ SelectDfDelete \/ DeleteUserDf \/ SelectBfDelete \/ DeleteBf
           \/ CreateBf \/ SelectBfWrite \/ WriteBf \/ SelectBfUse \/ ActivateBf
  BY <1>1, <1>2, <1>5, ResultsChange DEF ResultsInv
<1>6. CASE CheckBf \/ VerifyPin
  BY <1>1, <1>2, <1>6, ResultsVerify DEF ResultsInv
<1>7. CASE SelectCryptoAid \/ CheckUserDf \/ OpenUserDf
  BY <1>1, <1>2, <1>7, ResultsSelectAid, ResultsCheckUserDf, ResultsOpenUserDf DEF ResultsInv
<1>8. CASE SelectBfRead \/ ReadBf \/ ListFiles
  BY <1>1, <1>2, <1>8, ResultsSelectBfRead, ResultsReadBf, ResultsListFiles DEF ResultsInv
<1>. QED
  BY <1>3, <1>4, <1>5, <1>6, <1>7, <1>8 DEF Next, ClientStep, FileStep

\* A step that changes nothing keeps it.
LEMMA ResultsStutter == ASSUME ResultsInv, UNCHANGED vars PROVE ResultsInv'
<1>1. UNCHANGED <<lcs, records, pin, data, dir, unlisted, pc, op, user, file, pwd, val,
                  exists, i, len, buf, found, repeated, ret>>
  BY DEF vars, cardVars, fileVars, selectVars, clientVars, callVars, workVars
<1>2. Gathering'
  BY <1>1 DEF ResultsInv, Gathering, Children, Listed
<1>3. Reading'
  BY <1>1 DEF ResultsInv, Reading
<1>4. ChangesAreDone'
  BY <1>1 DEF ResultsInv, ChangesAreDone, Returned
<1>5. ResultsAreTrue'
  BY <1>1, Zenon DEF ResultsInv, ResultsAreTrue, Returned
<1>. QED
  BY <1>2, <1>3, <1>4, <1>5 DEF ResultsInv

\* Initially no call is under way.
LEMMA ResultsInit == Init => ResultsInv
BY DEF Init, ClientInit, ResultsInv, Gathering, Reading, ChangesAreDone, ResultsAreTrue,
       Returned

\* What holds while results are gathered, as long as no answer has been lost.
THEOREM ResultsInvariant ==
  ASSUME "refuse" \notin Faults
  PROVE  Spec => [](lost = 0 => ResultsInv)
<1>1. ASSUME StorageInv, lost = 0 => ReliableInv, lost = 0 => CompleteInv,
             lost = 0 => ResultsInv, [Next]_vars
      PROVE  (lost = 0 => ResultsInv)'
  BY <1>1, LostStays, ResultsNext, ResultsStutter DEF Whole, Trusted
<1>. QED
  BY <1>1, ResultsInit, StorageInvariant, ReliableInvariant, CompleteInvariant, PTL DEF Spec

\* A call that changes files and returns SEC_STORAGE_OK has done what it was
\* asked to do.
THEOREM ChangesHaveBeenMade ==
  ASSUME MaxLost = 0, "refuse" \notin Faults
  PROVE  Spec => []ChangesAreDone
<1>1. StorageInv /\ (lost = 0 => ResultsInv) => ChangesAreDone
  BY NoneLost DEF ResultsInv
<1>. QED
  BY <1>1, ResultsInvariant, StorageInvariant, PTL

\* A call that reads and returns SEC_STORAGE_OK reports what the element holds:
\* the file read, the user looked up, and each listed id once and none missing.
THEOREM ReportsAreTrue ==
  ASSUME MaxLost = 0, "refuse" \notin Faults
  PROVE  Spec => []ResultsAreTrue
<1>1. StorageInv /\ (lost = 0 => ResultsInv) => ResultsAreTrue
  BY NoneLost DEF ResultsInv
<1>. QED
  BY <1>1, ResultsInvariant, StorageInvariant, PTL

-----------------------------------------------------------------------------
(* The storage API implements SecureStore: initial states map to initial    *)
(* states, and every exchange maps to a step of the store or to none, when  *)
(* no answer is lost and no command refused without a cause, wherever the   *)
(* process dies.                                                            *)

StoreStep == Store!Next \/ UNCHANGED Store!vars

(* What the mapping reads.                                                  *)

\* What is pending depends on the place in the call and its arguments.
LEMMA PendingIs ==
  /\ pc \in RegisterSteps => Pending = <<"register", user>>
  /\ pc \in CreateSteps => Pending = <<"create", user, file>>
  /\ pc \notin RegisterSteps \cup CreateSteps => Pending = None
  /\ pc' \in RegisterSteps => Pending' = <<"register", user'>>
  /\ pc' \in CreateSteps => Pending' = <<"create", user', file'>>
  /\ pc' \notin RegisterSteps \cup CreateSteps => Pending' = None
<1>1. RegisterSteps \cap CreateSteps = {}
  BY DEF RegisterSteps, CreateSteps
<1>. QED
  BY <1>1 DEF Pending

\* The accounts are the states of the DFs.
LEMMA AccountsKept ==
  ASSUME \A u \in Users : lcs'[u]["df"] = lcs[u]["df"]
  PROVE  Accounts' = Accounts
BY DEF Accounts, Account

\* The keys are the passwords of the key files in use.
LEMMA KeysKept ==
  ASSUME \A u \in Users :
           /\ lcs'[u]["kf"] = "use" <=> lcs[u]["kf"] = "use"
           /\ lcs[u]["kf"] = "use" => pin'[u] = pin[u]
  PROVE  Keys' = Keys
BY DEF Keys

\* The files are the binary files in use.
LEMMA StoresKept ==
  ASSUME \A u \in Users, f \in Files :
           /\ lcs'[u][f] = lcs[u][f]
           /\ lcs[u][f] \notin {"none", "init"} => data'[u][f] = data[u][f]
  PROVE  Stores' = Stores
<1>1. \A u \in Users, f \in Files : Contents(u, f)' = Contents(u, f)
  BY DEF Contents
<1>. QED
  BY <1>1 DEF Stores

\* With the files as they were a step does nothing, or abandons what was
\* pending.
LEMMA QuietStore ==
  ASSUME UNCHANGED <<lcs, pin, data>>, Pending' = Pending \/ Pending' = None
  PROVE  StoreStep
<1>1. Accounts' = Accounts /\ Keys' = Keys /\ Stores' = Stores
  BY AccountsKept, KeysKept, StoresKept
<1>2. CASE Pending' = Pending
  BY <1>1, <1>2 DEF StoreStep, Store!vars
<1>3. CASE Pending' = None /\ Pending # None
  BY <1>1, <1>3 DEF StoreStep, Store!Next, Store!Abandon
<1>. QED
  BY <1>2, <1>3

\* Initial states map to initial states.
LEMMA InitMaps == Init => Store!Init
<1>1. SUFFICES ASSUME Init PROVE Store!Init
  OBVIOUS
<1>2. /\ pc = "idle" /\ \A u \in Users, n \in Nodes : lcs[u][n] = "none"
  BY <1>1 DEF Init, ClientInit, CardInit, NoFiles
<1>3. Accounts = [u \in Users |-> "absent"]
  BY <1>2, NodeNames DEF Accounts, Account
<1>4. Keys = [u \in Users |-> None]
  BY <1>2, NodeNames DEF Keys
<1>5. Stores = [u \in Users |-> [f \in Files |-> None]]
  BY <1>2, NodeNames DEF Stores, Contents
<1>6. Pending = None
  BY <1>2 DEF Pending, RegisterSteps, CreateSteps
<1>. QED
  BY <1>3, <1>4, <1>5, <1>6 DEF Store!Init, Store!Empty

-----------------------------------------------------------------------------
(* The steps.                                                               *)

\* The steps before VERIFY, of reading and listing, around a call, and the
\* SELECTs of a creation.
LEMMA StoreQuiet ==
  ASSUME Whole, QuietStep \/ CheckUserDf
  PROVE  StoreStep
<1>1. Pending' = None
  BY QuietPlace, PendingIs DEF Whole, Trusted
<1>2. UNCHANGED <<lcs, pin, data>>
  BY QuietFilesKept
<1>. QED
  BY <1>1, <1>2, QuietStore

\* An exchange whose failure ends the call: what was pending is abandoned.
LEMMA StoreFails ==
  ASSUME lost' = 0, Whole, NEW step, NEW c, NEW next, Checked(step, c, next), sw' # "ok"
  PROVE  StoreStep
<1>1. UNCHANGED <<lcs, records, pin, data>> /\ pc' = "returned"
  BY Fails DEF Whole
<1>2. Pending' = None
  BY <1>1, PendingIs DEF RegisterSteps, CreateSteps
<1>. QED
  BY <1>1, <1>2, QuietStore

\* A step inside a registration or a creation.
LEMMA PendingKept ==
  ASSUME UNCHANGED callVars,
         \/ pc \in RegisterSteps /\ pc' \in RegisterSteps
         \/ pc \in CreateSteps /\ pc' \in CreateSteps
  PROVE  Pending' = Pending
BY PendingIs DEF callVars

\* CREATE of the DF begins a registration.
LEMMA StoreCreateDf == ASSUME lost' = 0, Whole, CreateUserDf PROVE StoreStep
<1>1. CASE sw' = "ok"
  <2>1. /\ pc = "create df" /\ Send(CreateFile("df")) /\ pc' = "create arr"
        /\ UNCHANGED callVars
    BY <1>1 DEF CreateUserDf, Checked, Proceed, Goto
  <2>2. pc \in RegSteps /\ user \in Users /\ lcs[user]["df"] = "none"
    BY <2>1, Registers DEF RegSteps, Whole, Trusted, ReliableInv, HalfMade
  <2>3. UNCHANGED <<records, pin, data>>
    BY <1>1, <2>1, <2>2, FileMade DEF Whole
  <2>4. \A u \in Users : u # user => lcs'[u] = lcs[u]
    BY <1>1, <2>1, <2>2, FileMade DEF Whole
  <2>5. \A k \in Nodes : lcs'[user][k] = IF k = "df" THEN "init" ELSE lcs[user][k]
    BY <1>1, <2>1, <2>2, FileMade DEF Whole
  <2>6. lcs'[user]["df"] = "init" /\ lcs'[user]["kf"] = lcs[user]["kf"]
    BY <2>5, NodeNames
  <2>7. \A u \in Users, f \in Files : lcs'[u][f] = lcs[u][f]
    BY <2>4, <2>5, NodeNames, StepNames
  <2>8. Keys' = Keys
    BY <2>3, <2>4, <2>6, KeysKept
  <2>9. Stores' = Stores
    BY <2>3, <2>7, StoresKept
  <2>10. Accounts[user] = "absent" /\ Accounts' = [Accounts EXCEPT ![user] = "half"]
    BY <2>2, <2>4, <2>6 DEF Accounts, Account
  <2>11. Pending = None /\ Pending' = <<"register", user>>
    BY <2>1, PendingIs DEF RegisterSteps, CreateSteps, callVars
  <2>12. Store!BeginRegister(user)
    BY <2>8, <2>9, <2>10, <2>11 DEF Store!BeginRegister
  <2>. QED
    BY <2>2, <2>12 DEF StoreStep, Store!Next
<1>. QED
  BY <1>1, StoreFails DEF CreateUserDf

\* A step of a registration that goes on without touching a file.
LEMMA StoreGoesOn ==
  ASSUME pc \in RegisterSteps, pc' \in RegisterSteps \cup {"returned"},
         UNCHANGED callVars, UNCHANGED <<lcs, pin, data>>
  PROVE  StoreStep
<1>1. CASE pc' \in RegisterSteps
  BY <1>1, PendingKept, QuietStore
<1>2. CASE pc' = "returned"
  <2>1. Pending' = None
    BY <1>2, PendingIs DEF RegisterSteps, CreateSteps
  <2>. QED
    BY <2>1, QuietStore
<1>. QED
  BY <1>1, <1>2

\* EF.ARR, and a key file that is not in use, are nothing to the store.
LEMMA StoreNode ==
  ASSUME Whole, pc \in RegisterSteps, pc' \in RegisterSteps, UNCHANGED callVars,
         NEW n \in {"arr", "kf"}, NEW s,
         \A u \in Users : u # user => lcs'[u] = lcs[u],
         \A k \in Nodes : lcs'[user][k] = IF k = n THEN s ELSE lcs[user][k],
         n = "kf" => s = "init" /\ lcs[user]["kf"] = "none",
         UNCHANGED <<pin, data>>
  PROVE  StoreStep
<1>1. lcs'[user]["df"] = lcs[user]["df"]
  BY NodeNames
<1>2. /\ lcs'[user]["kf"] = "use" <=> lcs[user]["kf"] = "use"
  BY NodeNames
<1>3. \A f \in Files : lcs'[user][f] = lcs[user][f]
  BY NodeNames, StepNames
<1>4. Accounts' = Accounts
  BY <1>1, AccountsKept
<1>5. Keys' = Keys
  BY <1>2, KeysKept
<1>6. Stores' = Stores
  BY <1>3, StoresKept
<1>7. Pending' = Pending
  BY PendingKept
<1>. QED
  BY <1>4, <1>5, <1>6, <1>7 DEF StoreStep, Store!vars

\* The steps of a registration that the store does not see.
LEMMA StoreRegisterInside ==
  ASSUME lost' = 0, Whole,
         \/ CreateUserEfArr \/ SelectUserEfArr \/ AddRecordEfArr
         \/ SelectArrUse \/ ActivateArr
         \/ CreateKf \/ SelectKf \/ ChangeRefData \/ SelectKfUse \/ SelectDfUse
  PROVE  StoreStep
<1>1. CASE CreateUserEfArr
  <2>1. CASE sw' = "ok"
    <3>1. /\ pc = "create arr" /\ Send(CreateFile("arr")) /\ pc' = "select arr"
          /\ UNCHANGED callVars /\ pc \in RegisterSteps /\ pc' \in RegisterSteps
      BY <1>1, <2>1 DEF CreateUserEfArr, Checked, Proceed, Goto, RegisterSteps
    <3>2. pc \in RegSteps /\ pc # "create df"
      BY <3>1, Halfway
    <3>3. UNCHANGED <<records, pin, data>>
      BY <2>1, <3>1, <3>2, FileMade DEF Whole
    <3>4. \A u \in Users : u # user => lcs'[u] = lcs[u]
      BY <2>1, <3>1, <3>2, FileMade DEF Whole
    <3>5. \A k \in Nodes : lcs'[user][k] = IF k = "arr" THEN "init" ELSE lcs[user][k]
      BY <2>1, <3>1, <3>2, FileMade DEF Whole
    <3>. QED
      BY <3>1, <3>3, <3>4, <3>5, StoreNode
  <2>. QED
    BY <1>1, <2>1, StoreFails DEF CreateUserEfArr
<1>2. CASE \/ SelectUserEfArr \/ SelectArrUse \/ SelectKf \/ SelectKfUse \/ SelectDfUse
  <2>1. PICK n : Send(UserFile(n))
    BY <1>2 DEF SelectUserEfArr, SelectArrUse, SelectKf, SelectKfUse, SelectDfUse, Checked,
                Ignored
  <2>2. UNCHANGED <<lcs, records, pin, data>>
    BY <2>1, Looks DEF UserFile, Looking
  <2>3. UNCHANGED callVars
    BY <1>2 DEF SelectUserEfArr, SelectArrUse, SelectKf, SelectKfUse, SelectDfUse, Checked,
                Ignored
  <2>4. pc \in RegisterSteps
    BY <1>2 DEF SelectUserEfArr, SelectArrUse, SelectKf, SelectKfUse, SelectDfUse, Checked,
                Ignored, RegisterSteps
  <2>5. pc' \in RegisterSteps \cup {"returned"}
    BY <1>2 DEF SelectUserEfArr, SelectArrUse, SelectKf, SelectKfUse, SelectDfUse, Checked,
                Ignored, Proceed, Goto, Return, RegisterSteps
  <2>. QED
    BY <2>2, <2>3, <2>4, <2>5, StoreGoesOn
<1>3. CASE AddRecordEfArr
  <2>1. pc \in RegisterSteps /\ UNCHANGED callVars /\ Send(Current("APPEND RECORD"))
    BY <1>3 DEF AddRecordEfArr, RegisterSteps
  <2>2. UNCHANGED <<lcs, pin, data>>
    BY <1>3, <2>1, RecordAdded, CommandFailed DEF Whole, Trusted
  <2>3. pc' \in RegisterSteps \cup {"returned"}
    BY <1>3 DEF AddRecordEfArr, Goto, Return, RegisterSteps
  <2>. QED
    BY <2>1, <2>2, <2>3, StoreGoesOn
<1>4. CASE ActivateArr
  <2>1. CASE sw' = "ok"
    <3>1. /\ pc = "activate arr" /\ Send(Current("ACTIVATE")) /\ pc' = "create kf"
          /\ UNCHANGED callVars /\ pc \in RegisterSteps /\ pc' \in RegisterSteps
      BY <1>4, <2>1 DEF ActivateArr, Checked, Proceed, Goto, RegisterSteps
    <3>2. user \in Users /\ dir = user /\ node = "arr"
      BY <3>1, Halfway DEF Whole, Trusted, ReliableInv, Located
    <3>3. UNCHANGED <<records, pin, data>>
      BY <2>1, <3>1, <3>2, FileActivated DEF Whole
    <3>4. \A u \in Users : u # user => lcs'[u] = lcs[u]
      BY <2>1, <3>1, <3>2, FileActivated DEF Whole
    <3>5. \A k \in Nodes : lcs'[user][k] = IF k = "arr" THEN "use" ELSE lcs[user][k]
      BY <2>1, <3>1, <3>2, FileActivated DEF Whole
    <3>. QED
      BY <3>1, <3>3, <3>4, <3>5, StoreNode
  <2>. QED
    BY <1>4, <2>1, StoreFails DEF ActivateArr
<1>5. CASE CreateKf
  <2>1. /\ pc = "create kf" /\ Send(CreateFile("kf")) /\ UNCHANGED callVars
        /\ pc \in RegisterSteps /\ pc' \in RegisterSteps
    BY <1>5 DEF CreateKf, Ignored, Goto, RegisterSteps
  <2>2. CASE sw' = "ok"
    <3>1. pc \in RegSteps /\ pc # "create df"
      BY <2>1, Halfway
    <3>2. UNCHANGED <<records, pin, data>>
      BY <2>1, <2>2, <3>1, FileMade DEF Whole
    <3>3. \A u \in Users : u # user => lcs'[u] = lcs[u]
      BY <2>1, <2>2, <3>1, FileMade DEF Whole
    <3>4. \A k \in Nodes : lcs'[user][k] = IF k = "kf" THEN "init" ELSE lcs[user][k]
      BY <2>1, <2>2, <3>1, FileMade DEF Whole
    <3>5. lcs[user]["kf"] = "none"
      BY <2>1 DEF Whole, CompleteInv, Registering, NoKeySteps
    <3>. QED
      BY <2>1, <3>2, <3>3, <3>4, <3>5, StoreNode
  <2>3. CASE sw' # "ok"
    BY <2>1, <2>3, CommandFailed, StoreGoesOn DEF Whole, Trusted
  <2>. QED
    BY <2>2, <2>3
<1>6. CASE ChangeRefData
  <2>1. /\ pc = "change ref data" /\ Send(Apdu("CHANGE REFERENCE DATA", user, "kf", pwd))
        /\ UNCHANGED callVars /\ pc \in RegisterSteps /\ pc' \in RegisterSteps
    BY <1>6 DEF ChangeRefData, Ignored, Goto, RegisterSteps
  <2>2. CASE sw' = "ok"
    <3>1. UNCHANGED <<lcs, records, data>>
      BY <1>6, <2>2, PasswordSet DEF Whole
    <3>2. pin' = [pin EXCEPT ![user] = pwd]
      BY <1>6, <2>2, PasswordSet DEF Whole
    <3>3. lcs[user]["kf"] = "init"
      BY <2>1 DEF Whole, CompleteInv, Registering, NewKeySteps
    <3>4. \A u \in Users : lcs[u]["kf"] = "use" => pin'[u] = pin[u]
      BY <3>2, <3>3
    <3>5. Accounts' = Accounts
      BY <3>1, AccountsKept
    <3>6. Keys' = Keys
      BY <3>1, <3>4, KeysKept
    <3>7. Stores' = Stores
      BY <3>1, StoresKept
    <3>8. Pending' = Pending
      BY <2>1, PendingKept
    <3>. QED
      BY <3>5, <3>6, <3>7, <3>8 DEF StoreStep, Store!vars
  <2>3. CASE sw' # "ok"
    BY <2>1, <2>3, CommandFailed, StoreGoesOn DEF Whole, Trusted
  <2>. QED
    BY <2>2, <2>3
<1>. QED
  BY <1>1, <1>2, <1>3, <1>4, <1>5, <1>6

\* ACTIVATE of the key file sets the key.
LEMMA StoreActivateKf == ASSUME lost' = 0, Whole, ActivateKf PROVE StoreStep
<1>1. /\ pc = "activate kf" /\ Send(Current("ACTIVATE")) /\ pc' = "select df use"
      /\ UNCHANGED callVars /\ pc \in RegisterSteps /\ pc' \in RegisterSteps
  BY DEF ActivateKf, Ignored, Goto, RegisterSteps
<1>2. CASE sw' = "ok"
  <2>1. user \in Users /\ dir = user /\ node = "kf" /\ lcs[user]["df"] = "init"
    BY <1>1, Halfway DEF Whole, Trusted, ReliableInv, Located
  <2>2. UNCHANGED <<records, pin, data>>
    BY <1>1, <1>2, <2>1, FileActivated DEF Whole
  <2>3. \A u \in Users : u # user => lcs'[u] = lcs[u]
    BY <1>1, <1>2, <2>1, FileActivated DEF Whole
  <2>4. \A k \in Nodes : lcs'[user][k] = IF k = "kf" THEN "use" ELSE lcs[user][k]
    BY <1>1, <1>2, <2>1, FileActivated DEF Whole
  <2>5. pin[user] = pwd /\ lcs[user]["kf"] = "init"
    BY <1>1 DEF Whole, CompleteInv, Registering, NewKeySteps
  <2>6. lcs'[user]["kf"] = "use" /\ lcs'[user]["df"] = lcs[user]["df"]
    BY <2>4, NodeNames
  <2>7. \A u \in Users, f \in Files : lcs'[u][f] = lcs[u][f]
    BY <2>3, <2>4, NodeNames, StepNames
  <2>8. Accounts' = Accounts /\ Accounts[user] = "half"
    <3>1. Accounts' = Accounts
      BY <2>3, <2>6, AccountsKept
    <3>. QED
      BY <2>1, <3>1 DEF Accounts, Account
  <2>9. Keys[user] = None /\ Keys' = [Keys EXCEPT ![user] = pwd]
    BY <2>1, <2>2, <2>3, <2>5, <2>6 DEF Keys
  <2>10. Stores' = Stores
    BY <2>2, <2>7, StoresKept
  <2>11. Pending = <<"register", user>> /\ Pending' = Pending
    BY <1>1, PendingIs, PendingKept
  <2>12. pwd \in Passwords
    BY <1>1, Halfway, Registers DEF Whole
  <2>13. Store!SetKey(user, pwd)
    BY <2>8, <2>9, <2>10, <2>11 DEF Store!SetKey
  <2>. QED
    BY <2>1, <2>12, <2>13 DEF StoreStep, Store!Next
<1>3. CASE sw' # "ok"
  BY <1>1, <1>3, CommandFailed, StoreGoesOn DEF Whole, Trusted
<1>. QED
  BY <1>2, <1>3

\* ACTIVATE of the DF finishes the registration.
LEMMA StoreActivateDf == ASSUME lost' = 0, Whole, ActivateDf PROVE StoreStep
<1>1. CASE sw' = "ok"
  <2>1. /\ pc = "activate df" /\ Send(Current("ACTIVATE")) /\ pc' = "returned"
        /\ pc \in RegisterSteps
    BY <1>1 DEF ActivateDf, Checked, Proceed, Return, RegisterSteps
  <2>2. user \in Users /\ dir = user /\ node = "df" /\ lcs[user]["df"] = "init"
    BY <2>1, Halfway DEF Whole, Trusted, ReliableInv, Located
  <2>3. UNCHANGED <<records, pin, data>>
    BY <1>1, <2>1, <2>2, FileActivated DEF Whole
  <2>4. \A u \in Users : u # user => lcs'[u] = lcs[u]
    BY <1>1, <2>1, <2>2, FileActivated DEF Whole
  <2>5. \A k \in Nodes : lcs'[user][k] = IF k = "df" THEN "use" ELSE lcs[user][k]
    BY <1>1, <2>1, <2>2, FileActivated DEF Whole
  <2>6. lcs[user]["kf"] = "use" /\ pin[user] = pwd
    BY <2>1 DEF Whole, CompleteInv, Registering, KeySteps
  <2>7. pwd \in Passwords
    BY <2>1, Halfway, Registers DEF Whole
  <2>8. lcs'[user]["df"] = "use" /\ lcs'[user]["kf"] = lcs[user]["kf"]
    BY <2>5, NodeNames
  <2>9. \A u \in Users, f \in Files : lcs'[u][f] = lcs[u][f]
    BY <2>4, <2>5, NodeNames, StepNames
  <2>10. Keys' = Keys /\ Keys[user] # None
    <3>1. Keys' = Keys
      BY <2>3, <2>4, <2>8, KeysKept
    <3>2. Keys[user] = pwd
      BY <2>2, <2>6 DEF Keys
    <3>. QED
      BY <2>7, <3>1, <3>2, ElementAssumption
  <2>11. Stores' = Stores
    BY <2>3, <2>9, StoresKept
  <2>12. Accounts[user] = "half" /\ Accounts' = [Accounts EXCEPT ![user] = "registered"]
    BY <2>2, <2>4, <2>8 DEF Accounts, Account
  <2>13. Pending = <<"register", user>> /\ Pending' = None
    BY <2>1, PendingIs DEF RegisterSteps, CreateSteps
  <2>14. Store!FinishRegister(user)
    BY <2>10, <2>11, <2>12, <2>13 DEF Store!FinishRegister
  <2>. QED
    BY <2>2, <2>14 DEF StoreStep, Store!Next
<1>. QED
  BY <1>1, StoreFails DEF ActivateDf

\* DELETE of the DF removes the user and all the files.
LEMMA StoreDeleteDf == ASSUME lost' = 0, Whole, DeleteUserDf PROVE StoreStep
<1>1. CASE sw' = "ok"
  <2>1. pc = "delete df" /\ pc' = "returned" /\ user' = user
    BY <1>1 DEF DeleteUserDf, Checked, Proceed, Return, callVars
  <2>2. user \in Users /\ pc \in VerifiedSteps
    BY <1>1, DfDeleted DEF Whole
  <2>3. \A u \in Users : u # user =>
          lcs'[u] = lcs[u] /\ records'[u] = records[u] /\ pin'[u] = pin[u]
          /\ data'[u] = data[u]
    BY <1>1, DfDeleted DEF Whole
  <2>4. \A n \in Nodes : lcs'[user][n] = "none"
    BY <1>1, DfDeleted DEF Whole, NoFiles
  <2>5. pwd = pin[user] /\ lcs[user]["kf"] = "use" /\ op = "unregister"
    BY <1>1, <2>2, LetIn, DfDeleted DEF Whole
  <2>6. pwd \in Passwords
    BY <2>1, <2>5 DEF Whole, Trusted, StorageInv, Fits, Steps, PasswordOps
  <2>7. lcs'[user]["df"] = "none" /\ lcs'[user]["kf"] = "none"
    BY <2>4, NodeNames
  <2>8. \A f \in Files : lcs'[user][f] = "none"
    BY <2>4, NodeNames
  <2>9. Accounts' = [Accounts EXCEPT ![user] = "absent"]
    BY <2>2, <2>3, <2>7 DEF Accounts, Account
  <2>10. Keys[user] # None
    BY <2>2, <2>5, <2>6, ElementAssumption DEF Keys
  <2>11. Keys' = [Keys EXCEPT ![user] = None]
    BY <2>2, <2>3, <2>7 DEF Keys
  <2>12. Stores' = [Stores EXCEPT ![user] = [f \in Files |-> None]]
    <3>1. Stores = [u \in Users |-> [f \in Files |-> Contents(u, f)]]
      BY DEF Stores
    <3>2. Stores' = [u \in Users |-> [f \in Files |-> Contents(u, f)']]
      BY DEF Stores
    <3>3. \A u \in Users, f \in Files : u # user => Contents(u, f)' = Contents(u, f)
      BY <2>3 DEF Contents
    <3>4. \A f \in Files : Contents(user, f)' = None
      BY <2>1, <2>8 DEF Contents
    <3>5. \A u \in Users : u # user => Stores'[u] = Stores[u]
      BY <3>1, <3>2, <3>3
    <3>6. Stores'[user] = [f \in Files |-> None]
      BY <2>1, <2>2, <3>2, <3>4
    <3>. QED
      BY <3>1, <3>2, <3>5, <3>6
  <2>13. Pending = None /\ Pending' = None
    BY <2>1, PendingIs DEF RegisterSteps, CreateSteps
  <2>14. Store!Unregister(user)
    BY <2>9, <2>10, <2>11, <2>12, <2>13 DEF Store!Unregister, Store!Empty
  <2>. QED
    BY <2>2, <2>14 DEF StoreStep, Store!Next
<1>. QED
  BY <1>1, StoreFails DEF DeleteUserDf

\* One file of the user changes for the store.
LEMMA OneFile ==
  ASSUME user \in Users, file \in Files, NEW x, UNCHANGED callVars,
         \A u \in Users, f \in Files :
           u # user \/ f # file => Contents(u, f)' = Contents(u, f),
         Contents(user, file)' = x
  PROVE  Stores' = [Stores EXCEPT ![user] = [@ EXCEPT ![file] = x]]
<1>1. Stores = [u \in Users |-> [f \in Files |-> Contents(u, f)]]
  BY DEF Stores
<1>2. Stores' = [u \in Users |-> [f \in Files |-> Contents(u, f)']]
  BY DEF Stores
<1>3. \A u \in Users : u # user => Stores'[u] = Stores[u]
  BY <1>1, <1>2
<1>4. Stores'[user] = [Stores[user] EXCEPT ![file] = x]
  <2>1. Stores[user] = [f \in Files |-> Contents(user, f)]
    BY <1>1
  <2>2. user' = user /\ file' = file
    BY DEF callVars
  <2>3. Stores'[user] = [f \in Files |-> Contents(user, f)']
    BY <1>2, <2>2
  <2>4. \A f \in Files : f # file => Contents(user, f)' = Contents(user, f)
    BY <2>2
  <2>. QED
    BY <2>1, <2>2, <2>3, <2>4
<1>. QED
  BY <1>1, <1>2, <1>3, <1>4

\* CREATE of a file begins its creation.
LEMMA StoreCreateBf == ASSUME lost' = 0, Whole, CreateBf PROVE StoreStep
<1>1. CASE sw' = "ok"
  <2>1. pc = "create bf" /\ pc' = "select bf write" /\ UNCHANGED callVars
    BY <1>1 DEF CreateBf, Checked, Proceed, Goto
  <2>2. /\ user \in Users /\ file \in Files /\ file \in Nodes
        /\ file \notin {"df", "arr", "kf"} /\ lcs[user]["kf"] = "use" /\ pin[user] = pwd
        /\ op = "create_bf"
    BY <2>1, Creating DEF Whole
  <2>3. pwd \in Passwords
    BY <2>1, <2>2 DEF Whole, Trusted, StorageInv, Fits, Steps, PasswordOps, FileOps
  <2>4. UNCHANGED <<records, pin, data>> /\ lcs[user][file] = "none"
    BY <1>1, BfCreated DEF Whole
  <2>5. \A u \in Users : u # user => lcs'[u] = lcs[u]
    BY <1>1, BfCreated DEF Whole
  <2>6. \A k \in Nodes : lcs'[user][k] = IF k = file THEN "init" ELSE lcs[user][k]
    BY <1>1, BfCreated DEF Whole
  <2>7. /\ lcs'[user]["df"] = lcs[user]["df"] /\ lcs'[user]["kf"] = lcs[user]["kf"]
        /\ lcs'[user][file] = "init"
    BY <2>2, <2>6, NodeNames
  <2>8. \A u \in Users, f \in Files : u # user \/ f # file => lcs'[u][f] = lcs[u][f]
    BY <2>5, <2>6, NodeNames
  <2>9. Accounts' = Accounts
    BY <2>5, <2>7, AccountsKept
  <2>10. Keys' = Keys
    BY <2>4, <2>5, <2>7, KeysKept
  <2>11. Keys[user] # None
    BY <2>2, <2>3, ElementAssumption DEF Keys
  <2>12. Stores[user][file] = None
    BY <2>2, <2>4 DEF Stores, Contents
  <2>13. Stores' = [Stores EXCEPT ![user] = [@ EXCEPT ![file] = "half"]]
    <3>1. \A u \in Users, f \in Files :
            u # user \/ f # file => Contents(u, f)' = Contents(u, f)
      BY <2>4, <2>8 DEF Contents
    <3>2. Contents(user, file)' = "half"
      BY <2>1, <2>7 DEF Contents, callVars
    <3>. QED
      BY <2>1, <2>2, <3>1, <3>2, OneFile
  <2>14. Pending = None /\ Pending' = <<"create", user, file>>
    BY <2>1, PendingIs DEF RegisterSteps, CreateSteps, callVars
  <2>15. Store!BeginCreate(user, file)
    BY <2>9, <2>10, <2>11, <2>12, <2>13, <2>14 DEF Store!BeginCreate, Store!Half
  <2>. QED
    BY <2>2, <2>15 DEF StoreStep, Store!Next
<1>. QED
  BY <1>1, StoreFails DEF CreateBf

\* Writing a file is nothing to the store: the file is not in use.
LEMMA StoreWriteBf ==
  ASSUME lost' = 0, Whole, SelectBfWrite \/ WriteBf \/ SelectBfUse
  PROVE  StoreStep
<1>1. pc \in CreateSteps /\ UNCHANGED callVars
  BY DEF SelectBfWrite, WriteBf, SelectBfUse, Checked, CreateSteps
<1>2. Pending' = Pending \/ Pending' = None
  <2>1. pc' \in CreateSteps \cup {"returned"}
    BY DEF SelectBfWrite, WriteBf, SelectBfUse, Checked, Proceed, Goto, Return, CreateSteps
  <2>2. CASE pc' \in CreateSteps
    BY <1>1, <2>2, PendingKept
  <2>3. CASE pc' = "returned"
    BY <2>3, PendingIs DEF RegisterSteps, CreateSteps
  <2>. QED
    BY <2>1, <2>2, <2>3
<1>3. CASE SelectBfWrite \/ SelectBfUse
  BY <1>2, <1>3, QuietFilesKept, QuietStore
<1>4. CASE WriteBf
  <2>1. CASE sw' = "ok"
    <3>1. UNCHANGED <<lcs, records, pin>>
      BY <1>4, <2>1, ChunkWritten DEF Whole
    <3>2. \A u \in Users, f \in Files : u # user \/ f # file => data'[u][f] = data[u][f]
      BY <1>4, <2>1, ChunkWritten DEF Whole
    <3>3. lcs[user][file] = "init"
      BY <1>1 DEF Whole, Trusted, ReliableInv, Written
    <3>4. \A u \in Users, f \in Files :
            lcs[u][f] \notin {"none", "init"} => data'[u][f] = data[u][f]
      BY <3>2, <3>3
    <3>5. Accounts' = Accounts
      BY <3>1, AccountsKept
    <3>6. Keys' = Keys
      BY <3>1, KeysKept
    <3>7. Stores' = Stores
      BY <3>1, <3>4, StoresKept
    <3>8. pc' \in CreateSteps
      BY <1>4, <2>1 DEF WriteBf, Goto, CreateSteps
    <3>9. Pending' = Pending
      BY <1>1, <3>8, PendingKept
    <3>. QED
      BY <3>5, <3>6, <3>7, <3>9 DEF StoreStep, Store!vars
  <2>2. CASE sw' # "ok"
    <3>1. UNCHANGED <<lcs, records, pin, data>>
      BY <1>4, <2>2, CommandFailed DEF WriteBf, Whole, Trusted
    <3>. QED
      BY <1>2, <3>1, QuietStore
  <2>. QED
    BY <2>1, <2>2
<1>. QED
  BY <1>3, <1>4

\* ACTIVATE of a file makes its contents appear.
LEMMA StoreActivateBf == ASSUME lost' = 0, Whole, ActivateBf PROVE StoreStep
<1>1. CASE sw' = "ok"
  <2>1. pc = "activate bf" /\ pc' = "returned" /\ UNCHANGED callVars
    BY <1>1 DEF ActivateBf, Checked, Proceed, Return
  <2>2. pc \in CreateSteps
    BY <2>1 DEF CreateSteps
  <2>3. /\ user \in Users /\ file \in Files /\ file \in Nodes
        /\ file \notin {"df", "arr", "kf"} /\ val \in Values
    BY <2>2, Creating DEF Whole
  <2>4. lcs[user][file] = "init"
    BY <2>2 DEF Whole, Trusted, ReliableInv, Written
  <2>5. UNCHANGED <<records, pin, data>> /\ data[user][file] = [k \in 1..NChunks |-> val]
    BY <1>1, BfActivated DEF Whole
  <2>6. \A u \in Users : u # user => lcs'[u] = lcs[u]
    BY <1>1, BfActivated DEF Whole
  <2>7. \A k \in Nodes : lcs'[user][k] = IF k = file THEN "use" ELSE lcs[user][k]
    BY <1>1, BfActivated DEF Whole
  <2>8. /\ lcs'[user]["df"] = lcs[user]["df"] /\ lcs'[user]["kf"] = lcs[user]["kf"]
        /\ lcs'[user][file] = "use"
    BY <2>3, <2>7, NodeNames
  <2>9. \A u \in Users, f \in Files : u # user \/ f # file => lcs'[u][f] = lcs[u][f]
    BY <2>6, <2>7, NodeNames
  <2>10. Accounts' = Accounts
    BY <2>6, <2>8, AccountsKept
  <2>11. Keys' = Keys
    BY <2>5, <2>6, <2>8, KeysKept
  <2>12. Stores[user][file] = "half"
    BY <2>3, <2>4 DEF Stores, Contents
  <2>13. Stores' = [Stores EXCEPT ![user] = [@ EXCEPT ![file] = val]]
    <3>1. \A u \in Users, f \in Files :
            u # user \/ f # file => Contents(u, f)' = Contents(u, f)
      BY <2>5, <2>9 DEF Contents
    <3>2. data'[user][file][NChunks] = val
      <4>1. NChunks \in 1..NChunks
        BY ElementAssumption
      <4>. QED
        BY <2>5, <4>1
    <3>3. Contents(user, file)' = val
      BY <2>1, <2>8, <3>2 DEF Contents, callVars
    <3>. QED
      BY <2>1, <2>3, <3>1, <3>3, OneFile
  <2>14. Pending = <<"create", user, file>> /\ Pending' = None
    BY <2>1, <2>2, PendingIs DEF RegisterSteps, CreateSteps
  <2>15. Store!FinishCreate(user, file, val)
    BY <2>10, <2>11, <2>12, <2>13, <2>14 DEF Store!FinishCreate, Store!Half
  <2>. QED
    BY <2>3, <2>15 DEF StoreStep, Store!Next
<1>. QED
  BY <1>1, StoreFails DEF ActivateBf

\* DELETE of a file.
LEMMA StoreDeleteBf == ASSUME lost' = 0, Whole, DeleteBf PROVE StoreStep
<1>1. CASE sw' = "ok"
  <2>1. pc = "delete bf" /\ pc' = "returned" /\ UNCHANGED callVars
    BY <1>1 DEF DeleteBf, Checked, Proceed, Return
  <2>2. user \in Users /\ file \in Files /\ op = "delete_bf" /\ pc \in VerifiedSteps
    BY <1>1, BfDeleted DEF Whole
  <2>3. \A u \in Users :
          records'[u] = records[u] /\ pin'[u] = pin[u]
          /\ (u # user => lcs'[u] = lcs[u] /\ data'[u] = data[u])
    BY <1>1, BfDeleted DEF Whole
  <2>4. \A k \in Nodes : lcs'[user][k] = IF k = file THEN "none" ELSE lcs[user][k]
    BY <1>1, BfDeleted DEF Whole
  <2>5. \A f \in Files : f # file => data'[user][f] = data[user][f]
    BY <1>1, BfDeleted DEF Whole
  <2>6. lcs[user]["kf"] = "use" /\ pin[user] = pwd
    BY <2>2, LetIn DEF Whole
  <2>7. pwd \in Passwords
    BY <2>1, <2>2 DEF Whole, Trusted, StorageInv, Fits, Steps, PasswordOps, FileOps
  <2>8. /\ lcs'[user]["df"] = lcs[user]["df"] /\ lcs'[user]["kf"] = lcs[user]["kf"]
        /\ lcs'[user][file] = "none"
    BY <2>2, <2>4, NodeNames, StepNames
  <2>9. \A u \in Users, f \in Files :
          u # user \/ f # file => lcs'[u][f] = lcs[u][f] /\ data'[u][f] = data[u][f]
    BY <2>3, <2>4, <2>5, NodeNames
  <2>10. Accounts' = Accounts
    BY <2>3, <2>8, AccountsKept
  <2>11. Keys' = Keys
    BY <2>3, <2>8, KeysKept
  <2>12. Keys[user] # None
    BY <2>2, <2>6, <2>7, ElementAssumption DEF Keys
  <2>13. Stores' = [Stores EXCEPT ![user] = [@ EXCEPT ![file] = None]]
    <3>1. \A u \in Users, f \in Files :
            u # user \/ f # file => Contents(u, f)' = Contents(u, f)
      BY <2>9 DEF Contents
    <3>2. Contents(user, file)' = None
      BY <2>1, <2>8 DEF Contents, callVars
    <3>. QED
      BY <2>1, <2>2, <3>1, <3>2, OneFile
  <2>14. Pending = None /\ Pending' = None
    BY <2>1, PendingIs DEF RegisterSteps, CreateSteps
  <2>15. CASE Stores[user][file] # None
    <3>1. Store!Delete(user, file)
      BY <2>10, <2>11, <2>12, <2>13, <2>14, <2>15 DEF Store!Delete
    <3>. QED
      BY <2>2, <3>1 DEF StoreStep, Store!Next
  <2>16. CASE Stores[user][file] = None
    <3>1. Stores' = Stores
      BY <2>2, <2>13, <2>16 DEF Stores
    <3>. QED
      BY <2>10, <2>11, <2>14, <3>1 DEF StoreStep, Store!vars
  <2>. QED
    BY <2>15, <2>16
<1>. QED
  BY <1>1, StoreFails DEF DeleteBf

\* Every step maps to a step of the store or to none.
LEMMA StepMaps == ASSUME lost' = 0, Whole, Next PROVE StoreStep
<1>1. CASE QuietStep \/ CheckUserDf
  BY <1>1, StoreQuiet
<1>2. CASE RegisterStep
  BY <1>2, StoreCreateDf, StoreRegisterInside, StoreActivateKf, StoreActivateDf
     DEF RegisterStep
<1>3. CASE DeleteUserDf
  BY <1>3, StoreDeleteDf
<1>4. CASE CreateBf \/ SelectBfWrite \/ WriteBf \/ SelectBfUse \/ ActivateBf \/ DeleteBf
  BY <1>4, StoreCreateBf, StoreWriteBf, StoreActivateBf, StoreDeleteBf
<1>. QED
  BY <1>1, <1>2, <1>3, <1>4 DEF Next, ClientStep, FileStep, QuietStep

\* So does a step that changes nothing.
LEMMA StutterMaps == ASSUME UNCHANGED vars PROVE UNCHANGED Store!vars
<1>1. UNCHANGED <<lcs, pin, data, pc, user, file>>
  BY DEF vars, cardVars, fileVars, clientVars, callVars
<1>2. Accounts' = Accounts /\ Keys' = Keys /\ Stores' = Stores
  BY <1>1, AccountsKept, KeysKept, StoresKept
<1>3. Pending' = Pending
  BY <1>1 DEF Pending
<1>. QED
  BY <1>2, <1>3 DEF Store!vars

\* The storage API implements the abstract store: with every crash, for every
\* set of users, files, passwords and values, whatever the number of records
\* and chunks.
THEOREM StorageImplementsStore ==
  ASSUME MaxLost = 0, "refuse" \notin Faults
  PROVE  Spec => ImplementsStore
<1>1. ASSUME StorageInv, StorageInv', lost = 0 => ReliableInv, lost = 0 => CompleteInv,
             [Next]_vars
      PROVE  [Store!Next]_(Store!vars)
  BY <1>1, NoneLost, NoneLostNext, StepMaps, StutterMaps DEF Whole, Trusted, StoreStep
<1>. QED
  BY <1>1, InitMaps, StorageInvariant, ReliableInvariant, CompleteInvariant, PTL
     DEF Spec, ImplementsStore, Store!Spec

-----------------------------------------------------------------------------
(* One lost answer.                                                         *)
(*                                                                          *)
(* When at most one answer has been lost, nothing is refused and the        *)
(* process does not die, whoever calls needs the user's password to change  *)
(* or read a registered user's files.  A lost answer to VERIFY can let a    *)
(* call with a wrong password go on.  It then meets an element that asks    *)
(* for the key at every file, because no file is half made and the key has  *)
(* not been verified: that is so only while nothing has gone wrong before.  *)

(* Before the first loss.                                                  *)

ArrSteps == {"select arr", "append record", "select arr use", "activate arr"}

\* Files that are not in use are those the call under way is making.
NoneTorn ==
  \A u \in Users, n \in Nodes :
    lcs[u][n] = "init" =>
      u = user /\ (pc \in RegisterSteps \/ (pc \in CreateSteps /\ n = file))

\* A call begins without the key, and verifies it in the user's DF.
NotYetVerified ==
  /\ pc \in {"check df", "open df", "check bf", "verify"} => ~ auth
  /\ pc = "verify" => dir = user

ArrMade == pc \in ArrSteps => lcs[user]["arr"] = "init"

Settled == NoneTorn /\ NotYetVerified /\ ArrMade

\* A command the element accepts is answered with 9000.
LEMMA GoesThrough ==
  ASSUME Faults = {}, lost' = 0, StorageInv, NEW c, Send(c), Accepts(c)
  PROVE  sw' = "ok"
BY CommandFailed

Effect(c) == UNCHANGED cardVars \/ \E x \in Answers(c) : Execute(c, x)

\* An exchange is the command carried out, or nothing.
LEMMA SendEffect == ASSUME NEW c, Send(c) PROVE Effect(c)
BY DEF Send, Answered, Refused, Lost, Effect

\* Only VERIFY gives the key.
LEMMA StaysOut ==
  ASSUME ~ auth, NEW c, c.ins # "VERIFY", Effect(c)
  PROVE  ~ auth'
<1>1. CASE UNCHANGED cardVars
  BY <1>1 DEF cardVars, selectVars
<1>2. ASSUME NEW x, Execute(c, x) PROVE ~ auth'
  BY <1>2 DEF Execute, SelectAid, Select, Create, AppendRecord, ChangeReferenceData,
     Activate, DeleteDf, DeleteFile, Verify, UpdateBinary, List, cardVars, selectVars
<1>. QED
  BY <1>1, <1>2 DEF Effect

\* At most steps no file is half made.
LEMMA NoneHalfMade ==
  ASSUME Settled, pc \notin RegisterSteps \cup CreateSteps
  PROVE  \A u \in Users, n \in Nodes : lcs[u][n] # "init"
BY DEF Settled, NoneTorn

\* Steps that create nothing.
LEMMA SettledQuiet ==
  ASSUME Settled, pc \notin RegisterSteps \cup CreateSteps, UNCHANGED lcs,
         pc' \notin RegisterSteps \cup CreateSteps, NotYetVerified'
  PROVE  Settled'
BY NoneHalfMade DEF Settled, NoneTorn, ArrMade, ArrSteps, RegisterSteps

\* An exchange that fails ends the call.
LEMMA SettledFails ==
  ASSUME lost' = 0, Trusted, Settled, pc \notin RegisterSteps \cup CreateSteps,
         NEW step, NEW c, NEW next, Checked(step, c, next), sw' # "ok"
  PROVE  Settled'
<1>1. UNCHANGED lcs /\ pc' = "returned"
  BY Fails
<1>2. pc' \notin RegisterSteps \cup CreateSteps /\ NotYetVerified'
  BY <1>1 DEF RegisterSteps, CreateSteps, NotYetVerified
<1>. QED
  BY <1>1, <1>2, SettledQuiet

Early == {"check df", "open df", "check bf", "verify"}

\* Steps that end elsewhere than before VERIFY.
LEMMA LateStep == ASSUME pc' \notin Early PROVE NotYetVerified'
BY DEF Early, NotYetVerified

\* Around a call, and where it reads or lists.
LEMMA SettledBetween ==
  ASSUME Faults = {}, lost' = 0, Whole, Settled, QuietStep,
         ~ (SelectCryptoAid \/ OpenUserDf \/ CheckBf)
  PROVE  Settled'
<1>1. pc \notin RegisterSteps \cup CreateSteps
  BY DEF QuietStep, Call, CallerResumes, OpenChannel, CloseChannel, Crash, VerifyPin,
     SelectDfDelete, SelectBfRead, ReadNullSize, ReadBf, SelectBfDelete, ListFiles,
     FreeUninitialised, Checked, Ignored, RegisterSteps, CreateSteps
<1>2. UNCHANGED lcs /\ pc' \notin RegisterSteps \cup CreateSteps
  BY QuietFilesKept, QuietPlace DEF Whole, Trusted
<1>3. pc' \notin Early
  <2>1. CASE Call \/ CallerResumes \/ OpenChannel \/ CloseChannel \/ Crash
    BY <2>1 DEF Call, CallerResumes, OpenChannel, CloseChannel, Crash, Restart, Idle, Early
  <2>2. CASE ReadNullSize \/ FreeUninitialised
    BY <2>2 DEF ReadNullSize, FreeUninitialised, Restart, Idle, Early
  <2>3. CASE VerifyPin
    <3>1. pc = "verify" /\ Fits("verify")
      BY <2>3 DEF VerifyPin, Whole, Trusted, StorageInv
    <3>2. op = "unregister" \/ op \in FileOps
      BY <3>1 DEF Fits
    <3>. QED
      BY <2>3, <3>2 DEF VerifyPin, AfterVerify, Goto, Return, FileOps, Early
  <2>4. CASE SelectDfDelete \/ SelectBfRead \/ ReadBf \/ SelectBfDelete \/ ListFiles
    BY <2>4 DEF SelectDfDelete, SelectBfRead, ReadBf, SelectBfDelete, ListFiles, Checked,
       Ignored, Proceed, Goto, Return, Early
  <2>. QED
    BY <2>1, <2>2, <2>3, <2>4 DEF QuietStep
<1>. QED
  BY <1>1, <1>2, <1>3, LateStep, SettledQuiet

\* The steps before VERIFY.
LEMMA SettledOpening ==
  ASSUME Faults = {}, lost' = 0, Whole, Settled, ReliableInv',
         SelectCryptoAid \/ CheckUserDf \/ OpenUserDf \/ CheckBf
  PROVE  Settled'
<1>1. pc \notin RegisterSteps \cup CreateSteps
  BY DEF SelectCryptoAid, CheckUserDf, OpenUserDf, CheckBf, RegisterSteps, CreateSteps
<1>2. UNCHANGED lcs /\ pc' \notin RegisterSteps \cup CreateSteps
  BY QuietFilesKept, QuietPlace DEF QuietStep, Whole, Trusted
<1>3. NotYetVerified'
  <2>1. CASE SelectCryptoAid
    <3>1. ~ Lose
      BY NothingLost DEF Whole, Trusted
    <3>2. pc' \in {"returned", "list first", "check df"}
      BY <2>1 DEF SelectCryptoAid, AfterAid, Return, Goto
    <3>3. ASSUME NEW x, Execute(Current("SELECT AID"), x) PROVE auth' = FALSE
      BY <3>3 DEF Current, Apdu, Accepts, Execute, SelectAid, Select, Create, AppendRecord,
         ChangeReferenceData, Activate, DeleteDf, DeleteFile, Verify, UpdateBinary, List
    <3>4. pc' = "check df" => auth' = FALSE
      BY <2>1, <3>1, <3>3 DEF SelectCryptoAid, Return
    <3>. QED
      BY <3>2, <3>4 DEF NotYetVerified
  <2>2. CASE CheckUserDf
    <3>1. pc = "check df" /\ Send(UserFile("df")) /\ ~ auth
      BY <2>2 DEF CheckUserDf, Settled, NotYetVerified
    <3>2. UserFile("df").ins # "VERIFY"
      BY Commands
    <3>3. ~ auth'
      BY <3>1, <3>2, SendEffect, StaysOut
    <3>4. user \in Users /\ op \in Ops
      BY <3>1 DEF Whole, Trusted, StorageInv, Fits, Steps
    <3>5. sw' = "ok" => dir' = user
      BY <3>1, <3>4, SelectExchange, UserHome, NodeNames DEF Whole, Trusted
    <3>6. pc' = "verify" => sw' = "ok" /\ user' = user
      <4>1. sw' \in Status
        BY <3>1, <3>4, Exchange, Commands, NodeNames
           DEF Whole, Trusted, StorageInv, RspTypeOK
      <4>. QED
        BY <2>2, <4>1, <3>4 DEF CheckUserDf, Goto, Return, callVars, Status
    <3>. QED
      BY <3>3, <3>5, <3>6 DEF NotYetVerified
  <2>3. CASE OpenUserDf
    <3>1. Send(UserFile("df")) /\ ~ auth
      BY <2>3 DEF OpenUserDf, Settled, NotYetVerified
    <3>2. ~ auth'
      BY <3>1, Commands, SendEffect, StaysOut
    <3>3. pc = "open df" /\ op \in FileOps \cup {"select_user", "list_files"}
      BY <2>3 DEF OpenUserDf, Whole, Trusted, StorageInv, Fits, Steps
    <3>4. pc' # "verify"
      BY <2>3, <3>3 DEF OpenUserDf, Goto, Return, FileOps
    <3>. QED
      BY <3>2, <3>4 DEF NotYetVerified
  <2>4. CASE CheckBf
    <3>1. pc = "check bf" /\ Send(UserFile(file)) /\ ~ auth /\ UNCHANGED callVars
      BY <2>4 DEF CheckBf, Settled, NotYetVerified
    <3>2. ~ auth'
      BY <3>1, Commands, SendEffect, StaysOut
    <3>3. op \in FileOps /\ op' = op
      BY <3>1 DEF callVars, Whole, Trusted, StorageInv, Fits, Steps
    <3>4. pc' = "verify" => dir' = user'
      BY <3>3 DEF ReliableInv, Located
    <3>. QED
      BY <3>2, <3>4 DEF NotYetVerified
  <2>. QED
    BY <2>1, <2>2, <2>3, <2>4
<1>. QED
  BY <1>1, <1>2, <1>3, SettledQuiet

\* A registration touches one user's files, which are half made until it ends.
LEMMA SettledRegistering ==
  ASSUME Settled, OwnerStep, pc \in RegSteps, pc' \in RegisterSteps, user' = user,
         pc' \in ArrSteps => lcs'[user]["arr"] = "init"
  PROVE  Settled'
<1>1. pc \notin CreateSteps /\ (pc \in RegisterSteps \/ pc \notin RegisterSteps \cup CreateSteps)
  BY DEF RegSteps, RegisterSteps, CreateSteps
<1>2. \A u \in Users, n \in Nodes : u # user => lcs[u][n] # "init"
  BY <1>1 DEF Settled, NoneTorn
<1>3. \A u \in Users : u # user => lcs'[u] = lcs[u]
  BY DEF OwnerStep, FilesOf
<1>4. NoneTorn'
  BY <1>2, <1>3 DEF NoneTorn
<1>5. NotYetVerified'
  BY DEF NotYetVerified, RegisterSteps
<1>. QED
  BY <1>4, <1>5 DEF Settled, ArrMade

\* The element takes every command of a registration.
LEMMA RegisterAccepted ==
  ASSUME Whole, ArrMade, pc \in RegisterSteps
  PROVE  /\ pc = "create arr" => Accepts(CreateFile("arr"))
         /\ pc \in {"select arr", "select arr use"} => Accepts(UserFile("arr"))
         /\ pc = "append record" => Accepts(Current("APPEND RECORD"))
         /\ pc \in {"activate arr", "activate df"} => Accepts(Current("ACTIVATE"))
         /\ pc = "select df use" => Accepts(UserFile("df"))
<1>1. user \in Users /\ dir = user /\ lcs[user]["df"] = "init"
  BY Halfway
<1>2. Home(user, "arr") = user /\ Home(user, "df") = user
  BY UserHome
<1>3. ASSUME pc \in ArrSteps PROVE lcs[user]["arr"] = "init"
  BY <1>3 DEF ArrMade
<1>4. ASSUME pc = "create arr" PROVE Accepts(CreateFile("arr"))
  <2>1. lcs[user]["arr"] = "none"
    BY <1>4 DEF Whole, CompleteInv, Registering
  <2>2. ~ Exists(user, "arr") /\ Exists(user, "df") /\ Granted("df")
    BY <1>1, <2>1 DEF Exists, Granted
  <2>3. /\ CreateFile("arr").ins = "CREATE" /\ CreateFile("arr").user = user
        /\ CreateFile("arr").node = "arr"
    BY DEF CreateFile, Apdu
  <2>. QED
    BY <1>1, <1>2, <2>2, <2>3 DEF Accepts
<1>5. ASSUME NEW n \in {"arr", "df"}, lcs[user][n] = "init" PROVE Accepts(UserFile(n))
  <2>1. UserFile(n).ins = "SELECT" /\ UserFile(n).user = user /\ UserFile(n).node = n
    BY DEF UserFile, Apdu
  <2>2. Exists(Home(user, n), n)
    BY <1>1, <1>2, <1>5 DEF Exists
  <2>. QED
    BY <1>1, <1>2, <2>1, <2>2 DEF Accepts
<1>6. ASSUME pc = "append record" PROVE Accepts(Current("APPEND RECORD"))
  <2>1. node = "arr" /\ records[user] = i /\ i < NRecords
    BY <1>6 DEF Whole, Trusted, ReliableInv, Located, CompleteInv, Registering, StorageInv, LoopOK
  <2>2. CurrentIs("arr")
    BY <1>1, <1>3, <1>6, <2>1 DEF CurrentIs, ArrSteps
  <2>3. Current("APPEND RECORD").ins = "APPEND RECORD"
    BY DEF Current, Apdu
  <2>. QED
    BY <1>1, <2>1, <2>2, <2>3 DEF Accepts
<1>7. ASSUME pc \in {"activate arr", "activate df"} PROVE Accepts(Current("ACTIVATE"))
  <2>1. node = IF pc = "activate arr" THEN "arr" ELSE "df"
    BY <1>7 DEF Whole, Trusted, ReliableInv, Located
  <2>2. lcs[user][node] = "init"
    BY <1>1, <1>3, <1>7, <2>1 DEF ArrSteps
  <2>3. CurrentIs(node)
    BY <1>1, <2>2 DEF CurrentIs
  <2>4. Current("ACTIVATE").ins = "ACTIVATE"
    BY DEF Current, Apdu
  <2>. QED
    BY <2>3, <2>4 DEF Accepts
<1>. QED
  BY <1>1, <1>3, <1>4, <1>5, <1>6, <1>7 DEF ArrSteps

\* So a registration, once begun, does not stop half way.
LEMMA SettledRegister ==
  ASSUME Faults = {}, lost' = 0, Whole, Settled, OwnerStep, RegisterStep
  PROVE  Settled'
<1>. DEFINE Onward == pc' \in RegisterSteps /\ user' = user
<1>1. pc \in RegSteps
  BY DEF RegisterStep, CreateUserDf, CreateUserEfArr, SelectUserEfArr, AddRecordEfArr,
     SelectArrUse, ActivateArr, CreateKf, SelectKf, ChangeRefData, SelectKfUse, ActivateKf,
     SelectDfUse, ActivateDf, Checked, Ignored, RegSteps, RegisterSteps
<1>2. user \in Users
  BY <1>1, Registers DEF Whole
<1>3. ASSUME pc' \in RegisterSteps, user' = user, pc' \in ArrSteps => lcs'[user]["arr"] = "init"
      PROVE  Settled'
  BY <1>1, <1>3, SettledRegistering
<1>4. CASE CreateUserDf
  <2>1. CASE sw' = "ok"
    <3>1. pc' = "create arr" /\ user' = user
      BY <1>4, <2>1 DEF CreateUserDf, Checked, Proceed, Goto, callVars
    <3>. QED
      BY <1>3, <3>1 DEF RegisterSteps, ArrSteps
  <2>2. pc \notin RegisterSteps \cup CreateSteps
    BY <1>4 DEF CreateUserDf, Checked, RegisterSteps, CreateSteps
  <2>. QED
    BY <1>4, <2>1, <2>2, SettledFails DEF CreateUserDf, Whole
<1>5. CASE CreateUserEfArr
  <2>1. pc = "create arr" /\ Send(CreateFile("arr")) /\ pc \in RegisterSteps
    BY <1>5 DEF CreateUserEfArr, Checked, RegisterSteps
  <2>2. sw' = "ok"
    BY <2>1, RegisterAccepted, GoesThrough DEF Whole, Trusted, Settled
  <2>3. pc' = "select arr" /\ user' = user
    BY <1>5, <2>2 DEF CreateUserEfArr, Checked, Proceed, Goto, callVars
  <2>4. lcs'[user]["arr"] = "init"
    BY <1>1, <2>1, <2>2, FileMade, NodeNames DEF Whole
  <2>. QED
    BY <1>3, <2>3, <2>4 DEF RegisterSteps
<1>6. CASE SelectUserEfArr \/ SelectArrUse
  <2>1. /\ pc \in {"select arr", "select arr use"} /\ Send(UserFile("arr"))
        /\ pc \in RegisterSteps /\ pc \in ArrSteps
    BY <1>6 DEF SelectUserEfArr, SelectArrUse, Checked, RegisterSteps, ArrSteps
  <2>2. sw' = "ok"
    BY <2>1, RegisterAccepted, GoesThrough DEF Whole, Trusted, Settled
  <2>3. pc' \in {"append record", "activate arr"} /\ user' = user
    BY <1>6, <2>2 DEF SelectUserEfArr, SelectArrUse, Checked, Proceed, Goto, callVars
  <2>4. dir = user /\ Home(user, "arr") = user
    BY <2>1, Halfway, UserHome
  <2>5. UNCHANGED lcs
    BY <1>2, <2>1, <2>4, SelectExchange, NodeNames DEF Whole, Trusted
  <2>. QED
    BY <1>3, <2>1, <2>3, <2>5 DEF RegisterSteps, Settled, ArrMade
<1>7. CASE AddRecordEfArr
  <2>1. pc = "append record" /\ Send(Current("APPEND RECORD")) /\ pc \in RegisterSteps
    BY <1>7 DEF AddRecordEfArr, RegisterSteps
  <2>2. sw' = "ok"
    BY <2>1, RegisterAccepted, GoesThrough DEF Whole, Trusted, Settled
  <2>3. pc' \in {"append record", "select arr use"} /\ user' = user
    BY <1>7, <2>2 DEF AddRecordEfArr, Goto, callVars
  <2>4. UNCHANGED lcs
    BY <1>7, <2>2, RecordAdded DEF Whole
  <2>. QED
    BY <1>3, <2>1, <2>3, <2>4 DEF RegisterSteps, ArrSteps, Settled, ArrMade
<1>8. CASE ActivateArr
  <2>1. pc = "activate arr" /\ Send(Current("ACTIVATE")) /\ pc \in RegisterSteps
    BY <1>8 DEF ActivateArr, Checked, RegisterSteps
  <2>2. sw' = "ok"
    BY <2>1, RegisterAccepted, GoesThrough DEF Whole, Trusted, Settled
  <2>3. pc' = "create kf" /\ user' = user
    BY <1>8, <2>2 DEF ActivateArr, Checked, Proceed, Goto, callVars
  <2>. QED
    BY <1>3, <2>3 DEF RegisterSteps, ArrSteps
<1>9. CASE CreateKf \/ SelectKf \/ ChangeRefData \/ SelectKfUse \/ ActivateKf
  <2>1. /\ pc' \in {"select kf", "change ref data", "select kf use", "activate kf",
                    "select df use"}
        /\ user' = user
    BY <1>9 DEF CreateKf, SelectKf, ChangeRefData, SelectKfUse, ActivateKf, Ignored, Goto,
       callVars
  <2>. QED
    BY <1>3, <2>1 DEF RegisterSteps, ArrSteps
<1>10. CASE SelectDfUse
  <2>1. pc = "select df use" /\ Send(UserFile("df")) /\ pc \in RegisterSteps
    BY <1>10 DEF SelectDfUse, Checked, RegisterSteps
  <2>2. sw' = "ok"
    BY <2>1, RegisterAccepted, GoesThrough DEF Whole, Trusted, Settled
  <2>3. pc' = "activate df" /\ user' = user
    BY <1>10, <2>2 DEF SelectDfUse, Checked, Proceed, Goto, callVars
  <2>. QED
    BY <1>3, <2>3 DEF RegisterSteps, ArrSteps
<1>11. CASE ActivateDf
  <2>1. pc = "activate df" /\ Send(Current("ACTIVATE")) /\ pc \in RegisterSteps
    BY <1>11 DEF ActivateDf, Checked, RegisterSteps
  <2>2. sw' = "ok"
    BY <2>1, RegisterAccepted, GoesThrough DEF Whole, Trusted, Settled
  <2>3. pc' = "returned"
    BY <1>11, <2>2 DEF ActivateDf, Checked, Proceed, Return
  <2>4. dir = user /\ node = "df"
    BY <2>1 DEF Whole, Trusted, ReliableInv, Located
  <2>5. \A u \in Users : u # user => lcs'[u] = lcs[u]
    BY <1>2, <2>1, <2>2, <2>4, FileActivated DEF Whole
  <2>6. \A k \in Nodes : lcs'[user][k] = IF k = "df" THEN "use" ELSE lcs[user][k]
    BY <1>2, <2>1, <2>2, <2>4, FileActivated DEF Whole
  <2>7. /\ \A f \in Files : lcs[user][f] = "none"
        /\ lcs[user]["arr"] = "use" /\ lcs[user]["kf"] = "use"
    BY <2>1 DEF Whole, CompleteInv, Registering, KeySteps
  <2>8. \A k \in Nodes : lcs'[user][k] # "init"
    BY <2>6, <2>7 DEF Nodes, EFs
  <2>9. \A u \in Users, n \in Nodes : u # user => lcs[u][n] # "init"
    BY <2>1 DEF Settled, NoneTorn, CreateSteps
  <2>10. NoneTorn'
    BY <2>5, <2>8, <2>9 DEF NoneTorn
  <2>. QED
    BY <2>3, <2>10 DEF Settled, NotYetVerified, ArrMade, ArrSteps
<1>. QED
  BY <1>4, <1>5, <1>6, <1>7, <1>8, <1>9, <1>10, <1>11 DEF RegisterStep

\* The element takes every command of the creation of a file after CREATE.
LEMMA CreationAccepted ==
  ASSUME Whole, pc \in CreateSteps
  PROVE  /\ pc \in {"select bf write", "select bf use"} => Accepts(UserFile(file))
         /\ pc = "update binary" =>
              Accepts(Apdu("UPDATE BINARY", user, file, <<i + 1, val>>))
         /\ pc = "activate bf" => Accepts(Current("ACTIVATE"))
<1>1. user \in Users /\ file \in Files /\ dir = user
  BY Creating DEF Whole
<1>2. lcs[user][file] = "init"
  BY DEF Whole, Trusted, ReliableInv, Written
<1>3. Accepts(UserFile(file))
  <2>1. UserFile(file).ins = "SELECT" /\ UserFile(file).user = user /\ UserFile(file).node = file
    BY DEF UserFile, Apdu
  <2>2. Home(user, file) = user /\ Exists(user, file)
    BY <1>1, <1>2 DEF Home, Exists
  <2>. QED
    BY <1>1, <2>1, <2>2 DEF Accepts
<1>4. ASSUME pc \in {"update binary", "activate bf"}
      PROVE  node = file /\ CurrentIs(node) /\ Granted(node)
  <2>1. node = file
    BY <1>4 DEF Whole, Trusted, ReliableInv, Located
  <2>. QED
    BY <1>1, <1>2, <2>1 DEF CurrentIs, Granted
<1>5. ASSUME pc = "update binary"
      PROVE  Accepts(Apdu("UPDATE BINARY", user, file, <<i + 1, val>>))
  BY <1>1, <1>4, <1>5 DEF Accepts, Apdu
<1>6. ASSUME pc = "activate bf" PROVE Accepts(Current("ACTIVATE"))
  BY <1>4, <1>6 DEF Accepts, Current, Apdu
<1>. QED
  BY <1>3, <1>5, <1>6

\* So a creation does not stop half way either.
LEMMA SettledCreate ==
  ASSUME Faults = {}, lost' = 0, Whole, Settled,
         CreateBf \/ SelectBfWrite \/ WriteBf \/ SelectBfUse \/ ActivateBf
  PROVE  Settled'
<1>1. pc \in {"create bf"} \cup CreateSteps
  BY DEF CreateBf, SelectBfWrite, WriteBf, SelectBfUse, ActivateBf, Checked, CreateSteps
<1>2. user \in Users /\ file \in Files /\ file \in Nodes
  BY <1>1, Creating DEF Whole
<1>3. UNCHANGED callVars
  BY DEF CreateBf, SelectBfWrite, WriteBf, SelectBfUse, ActivateBf, Checked
<1>4. user' = user /\ file' = file
  BY <1>3 DEF callVars
<1>5. \A u \in Users, n \in Nodes : lcs[u][n] = "init" => u = user /\ n = file
  BY <1>1 DEF Settled, NoneTorn, RegisterSteps, CreateSteps
<1>6. ASSUME pc' \in CreateSteps,
             \A u \in Users, n \in Nodes :
               u # user \/ n # file => lcs'[u][n] = lcs[u][n]
      PROVE  Settled'
  <2>1. \A u \in Users, n \in Nodes : lcs'[u][n] = "init" => u = user /\ n = file
    BY <1>5, <1>6
  <2>2. NoneTorn'
    BY <1>4, <1>6, <2>1 DEF NoneTorn
  <2>. QED
    BY <1>6, <2>2 DEF Settled, NotYetVerified, ArrMade, ArrSteps, CreateSteps
<1>7. CASE CreateBf
  <2>1. CASE sw' = "ok"
    <3>1. pc' = "select bf write"
      BY <1>7, <2>1 DEF CreateBf, Checked, Proceed, Goto
    <3>2. \A u \in Users : u # user => lcs'[u] = lcs[u]
      BY <1>7, <2>1, BfCreated DEF Whole
    <3>3. \A k \in Nodes : lcs'[user][k] = IF k = file THEN "init" ELSE lcs[user][k]
      BY <1>7, <2>1, BfCreated DEF Whole
    <3>4. \A u \in Users, n \in Nodes : u # user \/ n # file => lcs'[u][n] = lcs[u][n]
      BY <1>2, <3>2, <3>3
    <3>. QED
      BY <1>6, <3>1, <3>4 DEF CreateSteps
  <2>2. pc \notin RegisterSteps \cup CreateSteps
    BY <1>7 DEF CreateBf, Checked, RegisterSteps, CreateSteps
  <2>. QED
    BY <1>7, <2>1, <2>2, SettledFails DEF CreateBf, Whole
<1>8. CASE SelectBfWrite \/ SelectBfUse
  <2>1. /\ pc \in {"select bf write", "select bf use"} /\ pc \in CreateSteps
        /\ Send(UserFile(file))
    BY <1>8 DEF SelectBfWrite, SelectBfUse, Checked, CreateSteps
  <2>2. sw' = "ok"
    BY <2>1, CreationAccepted, GoesThrough DEF Whole, Trusted
  <2>3. pc' \in CreateSteps
    BY <1>8, <2>2 DEF SelectBfWrite, SelectBfUse, Checked, Proceed, Goto, CreateSteps
  <2>4. UNCHANGED lcs
    BY <1>8, QuietFilesKept
  <2>. QED
    BY <1>6, <2>3, <2>4
<1>9. CASE WriteBf
  <2>1. /\ pc = "update binary" /\ pc \in CreateSteps
        /\ Send(Apdu("UPDATE BINARY", user, file, <<i + 1, val>>))
    BY <1>9 DEF WriteBf, CreateSteps
  <2>2. sw' = "ok"
    BY <2>1, CreationAccepted, GoesThrough DEF Whole, Trusted
  <2>3. pc' \in CreateSteps
    BY <1>9, <2>2 DEF WriteBf, Goto, CreateSteps
  <2>4. UNCHANGED lcs
    BY <1>9, <2>2, ChunkWritten DEF Whole
  <2>. QED
    BY <1>6, <2>3, <2>4
<1>10. CASE ActivateBf
  <2>1. pc = "activate bf" /\ pc \in CreateSteps /\ Send(Current("ACTIVATE"))
    BY <1>10 DEF ActivateBf, Checked, CreateSteps
  <2>2. sw' = "ok"
    BY <2>1, CreationAccepted, GoesThrough DEF Whole, Trusted
  <2>3. pc' = "returned"
    BY <1>10, <2>2 DEF ActivateBf, Checked, Proceed, Return
  <2>4. \A u \in Users : u # user => lcs'[u] = lcs[u]
    BY <1>10, <2>2, BfActivated DEF Whole
  <2>5. \A k \in Nodes : lcs'[user][k] = IF k = file THEN "use" ELSE lcs[user][k]
    BY <1>10, <2>2, BfActivated DEF Whole
  <2>6. \A u \in Users, n \in Nodes : lcs'[u][n] # "init"
    BY <1>2, <1>5, <2>4, <2>5
  <2>. QED
    BY <2>3, <2>6 DEF Settled, NoneTorn, NotYetVerified, ArrMade, ArrSteps
<1>. QED
  BY <1>7, <1>8, <1>9, <1>10

\* Deleting makes nothing.
LEMMA SettledDelete ==
  ASSUME Faults = {}, lost' = 0, Whole, Settled, DeleteUserDf \/ DeleteBf
  PROVE  Settled'
<1>1. pc \notin RegisterSteps \cup CreateSteps
  BY DEF DeleteUserDf, DeleteBf, Checked, RegisterSteps, CreateSteps
<1>2. \A u \in Users, n \in Nodes : lcs[u][n] # "init"
  BY <1>1, NoneHalfMade
<1>3. CASE sw' # "ok"
  BY <1>1, <1>3, SettledFails DEF DeleteUserDf, DeleteBf, Whole
<1>4. CASE sw' = "ok"
  <2>1. pc' = "returned"
    BY <1>4 DEF DeleteUserDf, DeleteBf, Checked, Proceed, Return
  <2>2. CASE DeleteUserDf
    <3>1. \A u \in Users : u # user => lcs'[u] = lcs[u]
      BY <1>4, <2>2, DfDeleted DEF Whole
    <3>2. lcs'[user] = NoFiles
      BY <1>4, <2>2, DfDeleted DEF Whole
    <3>. QED
      BY <1>2, <2>1, <3>1, <3>2
         DEF Settled, NoneTorn, NotYetVerified, ArrMade, ArrSteps, NoFiles
  <2>3. CASE DeleteBf
    <3>1. \A u \in Users : u # user => lcs'[u] = lcs[u]
      BY <1>4, <2>3, BfDeleted DEF Whole
    <3>2. \A k \in Nodes : lcs'[user][k] = IF k = file THEN "none" ELSE lcs[user][k]
      BY <1>4, <2>3, BfDeleted DEF Whole
    <3>. QED
      BY <1>2, <2>1, <3>1, <3>2
         DEF Settled, NoneTorn, NotYetVerified, ArrMade, ArrSteps
  <2>. QED
    BY <2>2, <2>3
<1>. QED
  BY <1>3, <1>4

\* A step before the first loss.
LEMMA SettledNext ==
  ASSUME Faults = {}, lost' = 0, Whole, Settled, Next
  PROVE  Settled'
<1>1. ReliableInv' /\ OwnerStep
  BY SafeNext DEF Whole, Safe
<1>2. CASE RegisterStep
  BY <1>1, <1>2, SettledRegister
<1>3. CASE CreateBf \/ SelectBfWrite \/ WriteBf \/ SelectBfUse \/ ActivateBf
  BY <1>3, SettledCreate
<1>4. CASE DeleteUserDf \/ DeleteBf
  BY <1>4, SettledDelete
<1>5. CASE SelectCryptoAid \/ CheckUserDf \/ OpenUserDf \/ CheckBf
  BY <1>1, <1>5, SettledOpening
<1>6. CASE QuietStep /\ ~ (SelectCryptoAid \/ OpenUserDf \/ CheckBf)
  BY <1>6, SettledBetween
<1>. QED
  BY <1>2, <1>3, <1>4, <1>5, <1>6 DEF Next, ClientStep, FileStep, QuietStep

-----------------------------------------------------------------------------
(* Up to the first loss: what one command can do, carried out or not.       *)

Idles == UNCHANGED <<lcs, records, pin, data, dir, node>>

\* A command that is not carried out changes nothing.
LEMMA EffectIs ==
  ASSUME NEW c, Effect(c)
  PROVE  Idles \/ (Accepts(c) /\ \E x \in Answers(c) : Execute(c, x))
<1>1. CASE UNCHANGED cardVars
  BY <1>1 DEF Idles, cardVars, fileVars, selectVars
<1>2. ASSUME NEW x \in Answers(c), Execute(c, x), ~ Accepts(c) PROVE Idles
  BY <1>2 DEF Execute, Idles, fileVars
<1>. QED
  BY <1>1, <1>2 DEF Effect

\* An exchange is answered, or it is the first to be lost.
LEMMA SendCases ==
  ASSUME Faults = {}, StorageInv, lost' <= 1, NEW c, Send(c)
  PROVE  /\ Effect(c)
         /\ \/ Answered(c) /\ lost' = lost
            \/ lost = 0 /\ lost' = 1 /\ UNCHANGED rspVars
         /\ lost' = 0 => Answered(c)
<1>1. lost \in Nat
  BY StorageAssumption DEF StorageInv, TypeOK
<1>2. CASE Answered(c)
  BY <1>2, SendEffect DEF Answered
<1>3. CASE Lost(c)
  BY <1>1, <1>3, SendEffect DEF Lost, Lose
<1>. QED
  BY <1>2, <1>3 DEF Send, Refused

\* An answer of 9000 means that the command was accepted.
LEMMA AnsweredDone ==
  ASSUME NEW c, Answered(c), sw' = "ok"
  PROVE  Accepts(c) /\ \E x \in Answers(c) : Execute(c, x)
BY DEF Answered, StatusOf

Inner == {"SELECT", "SELECT FCP", "CREATE", "APPEND RECORD", "CHANGE REFERENCE DATA",
          "ACTIVATE", "UPDATE BINARY", "READ BINARY"}
Naming == {"SELECT", "SELECT FCP", "CREATE"}

\* A command meant for a file of the current DF stays in that DF.
LEMMA Inside ==
  ASSUME CardTypeOK, dir \in Users, NEW c, c.ins \in Inner, Effect(c),
         c.ins \in Naming => Home(c.user, c.node) = dir
  PROVE  /\ dir' = dir
         /\ \A u \in Users : u # dir => FilesOf(u)' = FilesOf(u)
         /\ c.ins # "CHANGE REFERENCE DATA" => UNCHANGED pin
         /\ node' = node \/ (c.ins \in Naming /\ node' = c.node)
<1>1. CASE Idles
  BY <1>1 DEF Idles, FilesOf
<1>2. ASSUME NEW x, Accepts(c), Execute(c, x)
      PROVE  /\ dir' = dir
             /\ \A u \in Users : u # dir => FilesOf(u)' = FilesOf(u)
             /\ c.ins # "CHANGE REFERENCE DATA" => UNCHANGED pin
             /\ node' = node \/ (c.ins \in Naming /\ node' = c.node)
  <2>1. CASE Select(c)
    BY <1>2, <2>1 DEF Select, Naming, fileVars, FilesOf
  <2>2. CASE Create(c)
    <3>1. dir' = dir /\ node' = c.node /\ UNCHANGED <<records, pin, data>>
      BY <2>2 DEF Create, Naming
    <3>2. lcs' = [lcs EXCEPT ![dir][c.node] = "init"]
      BY <2>2, <3>1 DEF Create, SetNode
    <3>3. \A u \in Users : u # dir => lcs'[u] = lcs[u]
      BY <3>2 DEF CardTypeOK
    <3>. QED
      BY <2>2, <3>1, <3>3 DEF Create, Naming, FilesOf
  <2>3. CASE AppendRecord(c)
    <3>1. \A u \in Users : u # dir => records'[u] = records[u]
      BY <2>3 DEF AppendRecord, CardTypeOK
    <3>. QED
      BY <2>3, <3>1 DEF AppendRecord, FilesOf, selectVars
  <2>4. CASE ChangeReferenceData(c)
    <3>1. \A u \in Users : u # dir => pin'[u] = pin[u]
      BY <2>4 DEF ChangeReferenceData, CardTypeOK
    <3>. QED
      BY <2>4, <3>1 DEF ChangeReferenceData, FilesOf, selectVars
  <2>5. CASE Activate(c)
    <3>1. \A u \in Users : u # dir => lcs'[u] = lcs[u]
      BY <2>5 DEF Activate, SetNode, CardTypeOK
    <3>. QED
      BY <2>5, <3>1 DEF Activate, FilesOf, selectVars
  <2>6. CASE UpdateBinary(c)
    <3>1. \A u \in Users : u # dir => data'[u] = data[u]
      BY <2>6 DEF UpdateBinary, CardTypeOK
    <3>. QED
      BY <2>6, <3>1 DEF UpdateBinary, FilesOf, selectVars
  <2>7. CASE c.ins = "READ BINARY" /\ UNCHANGED cardVars
    BY <2>7 DEF cardVars, fileVars, selectVars, FilesOf
  <2>. QED
    BY <1>2, <2>1, <2>2, <2>3, <2>4, <2>5, <2>6, <2>7
       DEF Execute, Inner, SelectAid, DeleteDf, DeleteFile, Verify, List
<1>. QED
  BY <1>1, <1>2, EffectIs

\* DELETE deletes in the current DF.
LEMMA DeletesInside ==
  ASSUME CardTypeOK, dir \in Users, NEW c, c.ins = "DELETE", Effect(c)
  PROVE  \A u \in Users : u # dir => FilesOf(u)' = FilesOf(u)
<1>1. CASE Idles
  BY <1>1 DEF Idles, FilesOf
<1>2. ASSUME NEW x, Accepts(c), Execute(c, x)
      PROVE  \A u \in Users : u # dir => FilesOf(u)' = FilesOf(u)
  <2>1. CASE DeleteDf(c)
    <3>1. \A u \in Users : u # dir => lcs'[u] = lcs[u] /\ records'[u] = records[u]
                                      /\ pin'[u] = pin[u] /\ data'[u] = data[u]
      BY <2>1 DEF DeleteDf, CardTypeOK
    <3>. QED
      BY <3>1 DEF FilesOf
  <2>2. CASE DeleteFile(c)
    <3>1. \A u \in Users : u # dir => lcs'[u] = lcs[u] /\ records'[u] = records[u]
                                      /\ pin'[u] = pin[u] /\ data'[u] = data[u]
      BY <2>2 DEF DeleteFile, SetNode, CardTypeOK
    <3>. QED
      BY <3>1 DEF FilesOf
  <2>. QED
    BY <1>2, <2>1, <2>2 DEF Execute, SelectAid, Select, Create, AppendRecord,
       ChangeReferenceData, Activate, Verify, UpdateBinary, List
<1>. QED
  BY <1>1, <1>2, EffectIs

\* Only ACTIVATE of the DF takes it out of the half made state.
LEMMA DfStaysHalf ==
  ASSUME CardTypeOK, dir \in Users, lcs[dir]["df"] = "init",
         NEW c, c.ins \in Inner, c.node \in Nodes, node \in Nodes, Effect(c),
         c.ins \in Naming => Home(c.user, c.node) = dir,
         c.ins = "ACTIVATE" => node # "df"
  PROVE  lcs'[dir]["df"] = "init"
<1>1. CASE Idles
  BY <1>1 DEF Idles
<1>2. ASSUME NEW x, Accepts(c), Execute(c, x) PROVE lcs'[dir]["df"] = "init"
  <2>1. CASE Create(c)
    <3>1. dir' = dir /\ lcs' = SetNode(dir, c.node, "init")
      BY <2>1 DEF Create, Naming
    <3>. QED
      BY <3>1, SetNodeIs, NodeNames DEF Lcs
  <2>2. CASE Activate(c)
    BY <2>2, SetNodeIs, NodeNames DEF Activate, Lcs
  <2>3. CASE ~ Create(c) /\ ~ Activate(c)
    BY <1>2, <2>3 DEF Execute, Inner, SelectAid, Select, AppendRecord, ChangeReferenceData,
       DeleteDf, DeleteFile, Verify, UpdateBinary, List, fileVars, cardVars
  <2>. QED
    BY <2>1, <2>2, <2>3
<1>. QED
  BY <1>1, <1>2, EffectIs

-----------------------------------------------------------------------------
(* Up to the first loss: the invariant.                                     *)

\* The exchanges of a registration that have selected a file of the DF.
OwnNodeSteps == RegisterSteps \ {"create arr", "select arr", "activate df"}

\* A registration works in the new DF, and activates it last.
Mine ==
  /\ pc \in RegisterSteps => dir = user /\ lcs[user]["df"] = "init"
  /\ pc \in OwnNodeSteps => node # "df"
  /\ lost = 0 /\ pc = "select arr" => node = "arr"
  /\ lost = 0 /\ pc = "create df" => sw # "ok"

\* What comes after VERIFY either has the user's password, or meets an element
\* that grants access to nothing; then an answer has been lost.
Opened == dir = user /\ pwd = pin[user]
Locked == /\ lost = 1 /\ ~ auth /\ pc \notin CreateSteps
          /\ \A u \in Users, n \in Nodes : lcs[u][n] # "init"
Entered == pc \in VerifiedSteps => Opened \/ Locked

Guarded == Mine /\ Entered /\ Copied /\ Calling

\* Where neither a registration nor what VERIFY lets in goes on.
LEMMA GuardedElsewhere ==
  ASSUME Guarded, pc' \notin RegSteps \cup VerifiedSteps,
         pc # "returned", pc # "read binary",
         UNCHANGED buf \/ buf' = Blank
  PROVE  Guarded'
<1>1. Mine' /\ Entered' /\ Calling'
  BY DEF Mine, Entered, Calling, RegSteps, OwnNodeSteps, VerifiedSteps, RegisterSteps
<1>2. buf' = Blank
  BY DEF Guarded, Copied
<1>. QED
  BY <1>1, <1>2 DEF Guarded, Copied, Blank

\* A command of a registration, once the DF is there.
LEMMA InRegistration ==
  ASSUME StorageInv, Guarded, pc \in RegisterSteps,
         NEW c, c.ins \in Inner, c.ins \in Naming => c.user = user,
         c.node \in {"df", "arr", "kf"}, Effect(c)
  PROVE  /\ dir' = user /\ OwnerStep
         /\ node' = node \/ (c.ins \in Naming /\ node' = c.node)
         /\ (c.ins = "ACTIVATE" => pc \in {"activate arr", "activate kf"}) =>
              lcs'[user]["df"] = "init"
<1>1. user \in Users /\ op = "register" /\ pc \in RegSteps
  BY RegisterFits DEF StorageInv, RegSteps
<1>2. dir = user /\ lcs[user]["df"] = "init"
  BY DEF Guarded, Mine
<1>3. Home(user, c.node) = user
  BY UserHome
<1>4. CardTypeOK /\ node \in Nodes /\ c.node \in Nodes
  BY NodeNames DEF StorageInv, TypeOK, CardTypeOK
<1>5. /\ dir' = dir
      /\ \A u \in Users : u # dir => FilesOf(u)' = FilesOf(u)
      /\ node' = node \/ (c.ins \in Naming /\ node' = c.node)
  BY <1>1, <1>2, <1>3, <1>4, Inside
<1>6. ASSUME c.ins = "ACTIVATE" => pc \in {"activate arr", "activate kf"}
      PROVE  lcs'[user]["df"] = "init"
  <2>1. c.ins = "ACTIVATE" => node # "df"
    BY <1>6 DEF Guarded, Mine, OwnNodeSteps, RegisterSteps
  <2>. QED
    BY <1>1, <1>2, <1>3, <1>4, <2>1, DfStaysHalf
<1>. QED
  BY <1>1, <1>2, <1>5, <1>6 DEF OwnerStep

\* A registration that goes on or ends.
LEMMA RegistrationGoesOn ==
  ASSUME Guarded, pc \in RegSteps, user' = user, op' = op, UNCHANGED buf,
         pc' \in RegisterSteps \cup {"returned"},
         pc' \in RegisterSteps => dir' = user /\ lcs'[user]["df"] = "init",
         pc' \in OwnNodeSteps => node' # "df",
         lost' = 0 /\ pc' = "select arr" => node' = "arr"
  PROVE  Guarded'
<1>1. buf' = Blank
  BY DEF Guarded, Copied, RegSteps, RegisterSteps
<1>2. Mine' /\ Entered' /\ Calling'
  BY DEF Mine, Entered, Calling, RegSteps, VerifiedSteps, RegisterSteps, CreateSteps
<1>. QED
  BY <1>1, <1>2 DEF Guarded, Copied, RegisterSteps, Blank

\* CREATE of the DF: only where there is none.
LEMMA GuardedCreateDf ==
  ASSUME Faults = {}, lost' <= 1, StorageInv, Guarded, CreateUserDf
  PROVE  Guarded' /\ OwnerStep
<1>. DEFINE c == CreateFile("df")
<1>1. pc = "create df" /\ Send(c) /\ UNCHANGED callVars /\ UNCHANGED buf
  BY DEF CreateUserDf, Checked, workVars
<1>2. user \in Users /\ op = "register" /\ pc \in RegSteps
  BY <1>1, RegisterFits DEF StorageInv, RegSteps
<1>3. c.ins = "CREATE" /\ c.user = user /\ c.node = "df" /\ Home(user, "df") = user
  BY UserHome DEF CreateFile, Apdu
<1>4. c = Apdu("CREATE", user, "df", None)
  BY DEF CreateFile
<1>5. CardTypeOK
  BY DEF StorageInv, TypeOK
<1>6. Effect(c)
  BY <1>1, SendCases
<1>7. ASSUME Accepts(c), NEW x, Execute(c, x)
      PROVE  /\ UNCHANGED <<records, pin, data>> /\ dir' = user /\ node' = "df"
             /\ lcs' = SetNode(user, "df", "init") /\ lcs[user]["df"] = "none"
  BY <1>2, <1>3, <1>4, <1>7, CreateDone DEF Exists
<1>8. OwnerStep
  <2>1. CASE Idles
    BY <2>1 DEF Idles, OwnerStep, FilesOf
  <2>2. CASE Accepts(c) /\ \E x \in Answers(c) : Execute(c, x)
    <3>1. lcs' = SetNode(user, "df", "init") /\ lcs[user]["df"] = "none"
      BY <1>7, <2>2
    <3>2. \A u \in Users : u # user => lcs'[u] = lcs[u]
      BY <1>5, <3>1 DEF SetNode, CardTypeOK
    <3>. QED
      BY <1>2, <1>7, <2>2, <3>1, <3>2 DEF OwnerStep, FilesOf
  <2>. QED
    BY <1>6, <2>1, <2>2, EffectIs
<1>9. ASSUME sw' = "ok" PROVE dir' = user /\ lcs'[user]["df"] = "init"
  <2>1. Answered(c)
    BY <1>1, <1>9, SendCases DEF Guarded, Mine, rspVars
  <2>2. Accepts(c) /\ \E x \in Answers(c) : Execute(c, x)
    BY <1>9, <2>1, AnsweredDone
  <2>. QED
    BY <1>2, <1>5, <1>7, <2>2, SetNodeIs, NodeNames DEF Lcs
<1>10. pc' = IF sw' = "ok" THEN "create arr" ELSE "returned"
  BY DEF CreateUserDf, Checked, Proceed, Goto, Return
<1>11. Guarded'
  BY <1>1, <1>2, <1>9, <1>10, RegistrationGoesOn DEF callVars, OwnNodeSteps, RegisterSteps
<1>. QED
  BY <1>8, <1>11

\* An exchange of a registration whose failure ends the call.
LEMMA GuardedRegisterChecked ==
  ASSUME Faults = {}, lost' <= 1, StorageInv, Guarded,
         SelectArrUse \/ ActivateArr \/ SelectDfUse \/ ActivateDf
  PROVE  Guarded' /\ OwnerStep
<1>. DEFINE c == IF pc = "select arr use" THEN UserFile("arr")
                 ELSE IF pc = "select df use" THEN UserFile("df") ELSE Current("ACTIVATE")
<1>1. /\ pc \in {"select arr use", "activate arr", "select df use", "activate df"}
      /\ Send(c) /\ UNCHANGED callVars /\ UNCHANGED buf
  BY DEF SelectArrUse, ActivateArr, SelectDfUse, ActivateDf, Checked, workVars
<1>2. pc \in RegisterSteps /\ pc \in RegSteps
  BY <1>1 DEF RegisterSteps, RegSteps
<1>3. /\ c.ins = IF pc \in {"select arr use", "select df use"} THEN "SELECT" ELSE "ACTIVATE"
      /\ c.user = user
      /\ c.node = IF pc = "select arr use" THEN "arr" ELSE "df"
  BY <1>1 DEF UserFile, Current, Apdu
<1>4. pc' \in {"returned",
               CASE pc = "select arr use" -> "activate arr"
                 [] pc = "activate arr" -> "create kf"
                 [] pc = "select df use" -> "activate df"
                 [] pc = "activate df" -> "returned"}
  BY <1>1 DEF SelectArrUse, ActivateArr, SelectDfUse, ActivateDf, Checked, Proceed, Goto, Return
<1>5. Effect(c)
  BY <1>1, SendCases
<1>. HIDE DEF c
<1>6. /\ c.ins \in Inner /\ c.node \in {"df", "arr", "kf"}
      /\ c.ins = "ACTIVATE" => pc \in {"activate arr", "activate df"}
  BY <1>1, <1>3 DEF Inner
<1>7. /\ dir' = user /\ OwnerStep
      /\ node' = node \/ (c.ins \in Naming /\ node' = c.node)
      /\ (c.ins = "ACTIVATE" => pc \in {"activate arr", "activate kf"}) =>
           lcs'[user]["df"] = "init"
  BY <1>2, <1>3, <1>5, <1>6, InRegistration
<1>8. pc # "activate df" => lcs'[user]["df"] = "init"
  BY <1>6, <1>7
<1>9. pc' \in OwnNodeSteps => node' # "df"
  <2>1. CASE pc = "select df use" \/ pc = "activate df"
    BY <1>4, <2>1 DEF OwnNodeSteps, RegisterSteps
  <2>2. CASE pc = "select arr use" \/ pc = "activate arr"
    <3>1. node # "df" /\ (c.ins \in Naming => c.node = "arr")
      BY <1>3, <2>2 DEF Guarded, Mine, OwnNodeSteps, RegisterSteps, Naming
    <3>. QED
      BY <1>7, <3>1
  <2>. QED
    BY <1>1, <2>1, <2>2
<1>10. Guarded'
  BY <1>1, <1>2, <1>4, <1>7, <1>8, <1>9, RegistrationGoesOn DEF callVars, RegisterSteps
<1>. QED
  BY <1>7, <1>10

\* The first exchanges of a registration.
LEMMA GuardedRegisterArr ==
  ASSUME Faults = {}, lost' <= 1, StorageInv, Guarded,
         CreateUserEfArr \/ SelectUserEfArr \/ AddRecordEfArr
  PROVE  Guarded' /\ OwnerStep
<1>. DEFINE c == IF pc = "create arr" THEN CreateFile("arr")
                 ELSE IF pc = "select arr" THEN UserFile("arr") ELSE Current("APPEND RECORD")
<1>1. /\ pc \in {"create arr", "select arr", "append record"}
      /\ Send(c) /\ UNCHANGED callVars /\ UNCHANGED buf
  BY DEF CreateUserEfArr, SelectUserEfArr, AddRecordEfArr, Checked, workVars
<1>2. pc \in RegisterSteps /\ pc \in RegSteps
  BY <1>1 DEF RegisterSteps, RegSteps
<1>3. /\ c.ins = CASE pc = "create arr" -> "CREATE" [] pc = "select arr" -> "SELECT"
                   [] pc = "append record" -> "APPEND RECORD"
      /\ c.user = user
      /\ c.node = IF pc = "append record" THEN "df" ELSE "arr"
      /\ pc = "create arr" => c = Apdu("CREATE", user, "arr", None)
      /\ pc = "select arr" => c = Apdu("SELECT", user, "arr", None)
  BY <1>1 DEF CreateFile, UserFile, Current, Apdu
<1>4. /\ pc' = "returned" \/ sw' = "ok"
      /\ pc = "create arr" => pc' \in {"returned", "select arr"}
      /\ pc = "select arr" => pc' \in {"returned", "append record"}
      /\ pc = "append record" => pc' \in {"returned", "append record", "select arr use"}
  BY <1>1 DEF CreateUserEfArr, SelectUserEfArr, AddRecordEfArr, Checked, Proceed, Goto, Return
<1>5. /\ Effect(c)
      /\ Answered(c) \/ lost = 0
      /\ lost' = 0 => Answered(c)
  BY <1>1, SendCases
<1>. HIDE DEF c
<1>6. /\ dir' = user /\ OwnerStep
      /\ node' = node \/ (c.ins \in Naming /\ node' = c.node)
      /\ lcs'[user]["df"] = "init"
  <2>1. /\ c.ins \in Inner /\ c.node \in {"df", "arr", "kf"} /\ c.ins # "ACTIVATE"
    BY <1>1, <1>3 DEF Inner
  <2>. QED
    BY <1>2, <1>3, <1>5, <2>1, InRegistration
<1>7. ASSUME Answered(c), sw' = "ok", pc \in {"create arr", "select arr"} PROVE node' = "arr"
  BY <1>3, <1>7, AnsweredDone, CreateDone, SelectDone
<1>8. lost' = 0 /\ pc' = "select arr" => node' = "arr"
  <2>1. pc' = "select arr" => pc = "create arr" /\ sw' = "ok"
    BY <1>1, <1>4
  <2>. QED
    BY <1>5, <1>7, <2>1
<1>9. pc' \in OwnNodeSteps => node' # "df"
  <2>1. CASE pc = "create arr"
    BY <1>4, <2>1 DEF OwnNodeSteps, RegisterSteps
  <2>2. CASE pc = "select arr"
    <3>1. pc' \in OwnNodeSteps => sw' = "ok"
      BY <1>4, <2>2 DEF OwnNodeSteps, RegisterSteps
    <3>2. CASE Answered(c)
      BY <1>7, <2>2, <3>1, <3>2
    <3>3. CASE lost = 0
      BY <1>3, <1>6, <2>2, <3>3 DEF Guarded, Mine
    <3>. QED
      BY <1>5, <3>2, <3>3
  <2>3. CASE pc = "append record"
    BY <1>3, <1>6, <2>3 DEF Guarded, Mine, OwnNodeSteps, RegisterSteps, Naming
  <2>. QED
    BY <1>1, <2>1, <2>2, <2>3
<1>10. Guarded'
  BY <1>1, <1>2, <1>4, <1>6, <1>8, <1>9, RegistrationGoesOn DEF callVars, RegisterSteps
<1>. QED
  BY <1>6, <1>10

\* The key file.
LEMMA GuardedRegisterKf ==
  ASSUME Faults = {}, lost' <= 1, StorageInv, Guarded,
         CreateKf \/ SelectKf \/ ChangeRefData \/ SelectKfUse \/ ActivateKf
  PROVE  Guarded' /\ OwnerStep
<1>. DEFINE c == CASE pc = "create kf" -> CreateFile("kf")
                   [] pc \in {"select kf", "select kf use"} -> UserFile("kf")
                   [] pc = "change ref data" ->
                        Apdu("CHANGE REFERENCE DATA", user, "kf", pwd)
                   [] pc = "activate kf" -> Current("ACTIVATE")
<1>1. /\ pc \in {"create kf", "select kf", "change ref data", "select kf use", "activate kf"}
      /\ Send(c) /\ UNCHANGED callVars /\ UNCHANGED buf
  BY DEF CreateKf, SelectKf, ChangeRefData, SelectKfUse, ActivateKf, Ignored, workVars
<1>2. pc \in RegisterSteps /\ pc \in RegSteps /\ pc \in OwnNodeSteps
  BY <1>1 DEF RegisterSteps, RegSteps, OwnNodeSteps
<1>3. /\ c.ins \in Inner /\ c.user = user
      /\ c.ins = "ACTIVATE" => pc = "activate kf"
      /\ c.node \in {"df", "kf"} /\ (c.ins \in Naming => c.node = "kf")
  BY <1>1 DEF CreateFile, UserFile, Current, Apdu, Inner, Naming
<1>4. pc' \in {"select kf", "change ref data", "select kf use", "activate kf", "select df use"}
  BY DEF CreateKf, SelectKf, ChangeRefData, SelectKfUse, ActivateKf, Ignored, Goto
<1>5. Effect(c)
  BY <1>1, SendCases
<1>. HIDE DEF c
<1>6. /\ dir' = user /\ OwnerStep
      /\ node' = node \/ (c.ins \in Naming /\ node' = c.node)
      /\ lcs'[user]["df"] = "init"
  BY <1>2, <1>3, <1>5, InRegistration
<1>7. node' # "df"
  BY <1>2, <1>3, <1>6 DEF Guarded, Mine
<1>8. Guarded'
  BY <1>1, <1>2, <1>4, <1>6, <1>7, RegistrationGoesOn DEF callVars, RegisterSteps
<1>. QED
  BY <1>6, <1>8

\* A step of a registration.
LEMMA GuardedRegister ==
  ASSUME Faults = {}, lost' <= 1, StorageInv, Guarded, RegisterStep
  PROVE  Guarded' /\ OwnerStep
BY GuardedCreateDf, GuardedRegisterChecked, GuardedRegisterArr, GuardedRegisterKf
   DEF RegisterStep

\* VERIFY lets in who has the password; when its answer is lost, it may let in
\* who has not, and leaves access closed then.
LEMMA GuardedVerify ==
  ASSUME Faults = {}, lost' <= 1, StorageInv, Guarded, lost = 0 => Settled, VerifyPin
  PROVE  Guarded' /\ OwnerStep
<1>. DEFINE c == Apdu("VERIFY", user, "kf", pwd)
<1>1. pc = "verify" /\ Send(c) /\ UNCHANGED callVars /\ UNCHANGED buf
  BY DEF VerifyPin, workVars
<1>2. user \in Users /\ (op = "unregister" \/ op \in FileOps)
  BY <1>1 DEF StorageInv, Fits, Steps
<1>3. UNCHANGED <<lcs, records, pin, data>>
  BY QuietFilesKept DEF QuietStep
<1>4. OwnerStep
  BY <1>3 DEF OwnerStep, FilesOf
<1>5. buf' = Blank
  BY <1>1 DEF Guarded, Copied
<1>6. pc' = "returned" \/ (sw' = "ok" /\ AfterVerify)
  BY DEF VerifyPin, Return
<1>7. /\ pc' \notin RegSteps /\ pc' \notin CreateSteps
      /\ pc' \in {"select df delete", "delete df"} => op = "unregister"
      /\ pc' \in {"select bf read", "read binary"} => op = "read_bf"
      /\ pc' \in {"select bf delete", "delete bf"} => op = "delete_bf"
  BY <1>2, <1>6 DEF AfterVerify, Goto, Return, FileOps, RegSteps, RegisterSteps, CreateSteps
<1>8. Mine' /\ Copied' /\ Calling'
  BY <1>1, <1>5, <1>7
     DEF Mine, Copied, Calling, callVars, RegSteps, RegisterSteps, OwnNodeSteps, Blank
<1>9. ASSUME pc' \in VerifiedSteps PROVE Opened' \/ Locked'
  <2>1. sw' = "ok"
    BY <1>6, <1>9 DEF VerifiedSteps, CreateSteps
  <2>2. CASE Answered(c)
    <3>1. dir' = dir /\ dir = user /\ pin[user] = pwd
      BY <2>1, <2>2, AnsweredDone, VerifyDone
    <3>. QED
      BY <1>1, <1>3, <3>1 DEF Opened, callVars
  <2>3. CASE lost = 0 /\ lost' = 1
    <3>1. dir = user /\ ~ auth /\ Effect(c)
      BY <1>1, <2>3, SendCases DEF Settled, NotYetVerified
    <3>2. dir' = user
      <4>1. CASE Idles
        BY <3>1, <4>1 DEF Idles
      <4>2. CASE Accepts(c) /\ \E x \in Answers(c) : Execute(c, x)
        BY <3>1, <4>2, VerifyDone
      <4>. QED
        BY <3>1, <4>1, <4>2, EffectIs
    <3>3. CASE pwd = pin[user]
      BY <1>1, <1>3, <3>2, <3>3 DEF Opened, callVars
    <3>4. CASE pwd # pin[user]
      <4>1. ~ Accepts(c)
        BY <3>1, <3>4 DEF Accepts, Apdu
      <4>2. ~ auth'
        BY <3>1, <4>1 DEF Effect, Execute, cardVars, selectVars
      <4>3. \A u \in Users, n \in Nodes : lcs[u][n] # "init"
        BY <1>1, <2>3, NoneHalfMade DEF RegisterSteps, CreateSteps
      <4>. QED
        BY <1>3, <1>7, <2>3, <4>2, <4>3 DEF Locked
    <3>. QED
      BY <3>3, <3>4
  <2>. QED
    BY <1>1, <2>2, <2>3, SendCases
<1>. QED
  BY <1>4, <1>8, <1>9 DEF Guarded, Entered

\* With the password an exchange of the call stays with the user's files.
LEMMA OpenedMoves ==
  ASSUME StorageInv, pc \in VerifiedSteps, Guarded, Opened,
         NEW c, c.ins \in Inner, c.ins \in Naming => c.user = user /\ c.node \in Nodes,
         c.ins # "CHANGE REFERENCE DATA", Effect(c), UNCHANGED callVars
  PROVE  Opened' /\ OwnerStep
<1>1. user \in Users /\ op \in PasswordOps \ {"register"}
  BY DEF StorageInv, Fits, Steps, VerifiedSteps, CreateSteps, Guarded, Calling, PasswordOps,
     FileOps
<1>2. CardTypeOK
  BY DEF StorageInv, TypeOK
<1>3. c.ins \in Naming => Home(c.user, c.node) = dir
  BY UserHome DEF Opened
<1>4. /\ dir' = dir /\ UNCHANGED pin
      /\ \A u \in Users : u # dir => FilesOf(u)' = FilesOf(u)
  BY <1>1, <1>2, <1>3, Inside DEF Opened
<1>. QED
  BY <1>1, <1>4 DEF Opened, OwnerStep, callVars

\* Without it a command that only looks does not open what is closed.
LEMMA LockedLooks ==
  ASSUME pc \in VerifiedSteps, Locked, lost' <= 1, lost' = lost \/ Lose,
         NEW c, c.ins # "VERIFY", Effect(c),
         UNCHANGED lcs, pc' \notin CreateSteps
  PROVE  Locked'
<1>1. ~ auth'
  BY StaysOut DEF Locked
<1>2. lost' = 1
  BY DEF Locked, Lose
<1>. QED
  BY <1>1, <1>2 DEF Locked

\* Commands that need the key when no file is half made.
NeedsKey(c) == \/ c.ins \in {"DELETE", "READ BINARY"}
               \/ c.ins = "CREATE" /\ c.node # "df"

\* What the key guards, the element refuses.
LEMMA LockedRefuses ==
  ASSUME StorageInv, Locked, NEW c, NeedsKey(c)
  PROVE  ~ Accepts(c)
<1>1. node \in Nodes /\ "df" \in Nodes
  BY NodeNames DEF StorageInv, TypeOK, CardTypeOK
<1>2. ASSUME dir \in Users, NEW n \in Nodes PROVE ~ Granted(n)
  BY <1>2 DEF Locked, Granted
<1>. QED
  BY <1>1, <1>2 DEF Accepts, CurrentIs, NeedsKey

\* An exchange the element refuses when nothing more is lost.
LEMMA LockedFails ==
  ASSUME Faults = {}, lost' <= 1, StorageInv, Locked, NEW c, Send(c), NeedsKey(c)
  PROVE  sw' # "ok" /\ OwnerStep /\ UNCHANGED pin
<1>1. ~ Accepts(c)
  BY LockedRefuses
<1>2. Idles
  BY <1>1, SendCases, EffectIs
<1>3. Answered(c)
  BY SendCases DEF Locked
<1>. QED
  BY <1>1, <1>2, <1>3, AnsweredDone DEF Idles, OwnerStep, FilesOf

\* The call goes on after VERIFY, or returns.
LEMMA VerifiedGoesOn ==
  ASSUME Guarded, pc \in VerifiedSteps \ {"read binary"}, UNCHANGED callVars, UNCHANGED buf,
         pc' \in VerifiedSteps \cup {"returned"},
         pc' \in VerifiedSteps => Opened' \/ Locked',
         Calling'
  PROVE  Guarded'
<1>1. buf' = Blank /\ Blank' = Blank
  BY DEF Guarded, Copied, VerifiedSteps, CreateSteps, Blank
<1>2. Mine' /\ Entered'
  BY DEF Mine, Entered, VerifiedSteps, CreateSteps, RegisterSteps, OwnNodeSteps
<1>. QED
  BY <1>1, <1>2 DEF Guarded, Copied

\* SELECT before deleting, writing, activating or reading.
LEMMA GuardedSelect ==
  ASSUME Faults = {}, lost' <= 1, StorageInv, Guarded,
         SelectDfDelete \/ SelectBfWrite \/ SelectBfUse \/ SelectBfDelete \/ SelectBfRead
  PROVE  Guarded' /\ OwnerStep
<1>. DEFINE c == IF pc = "select df delete" THEN UserFile("df")
                 ELSE IF pc = "select bf read" THEN Apdu("SELECT FCP", user, file, None)
                 ELSE UserFile(file)
<1>1. /\ pc \in {"select df delete", "select bf write", "select bf use", "select bf delete",
                 "select bf read"}
      /\ Send(c) /\ UNCHANGED callVars /\ UNCHANGED buf
  BY DEF SelectDfDelete, SelectBfWrite, SelectBfUse, SelectBfDelete, SelectBfRead, Checked,
     Ignored, workVars
<1>2. pc \in VerifiedSteps /\ pc # "read binary"
  BY <1>1 DEF VerifiedSteps, CreateSteps
<1>3. UNCHANGED <<lcs, records, pin, data>>
  BY QuietFilesKept DEF QuietStep
<1>4. OwnerStep
  BY <1>3 DEF OwnerStep, FilesOf
<1>5. pc # "select df delete" => file \in Files
  BY <1>1 DEF StorageInv, Fits, BfSteps, CreateSteps
<1>6. /\ c.ins \in {"SELECT", "SELECT FCP"} /\ c.user = user /\ c.node \in Nodes
  BY <1>1, <1>5, NodeNames DEF UserFile, Apdu
<1>7. pc' = "returned"
      \/ pc' = CASE pc = "select df delete" -> "delete df"
                 [] pc = "select bf write" -> "update binary"
                 [] pc = "select bf use" -> "activate bf"
                 [] pc = "select bf delete" -> "delete bf"
                 [] pc = "select bf read" -> "read binary"
  BY <1>1 DEF SelectDfDelete, SelectBfWrite, SelectBfUse, SelectBfDelete, SelectBfRead,
     Checked, Ignored, Proceed, Goto, Return
<1>8. Effect(c) /\ (lost' = lost \/ Lose)
  <2>1. lost' = lost \/ Lose
    BY <1>1 DEF Send, Answered, Refused, Lost
  <2>. QED
    BY <1>1, <2>1, SendEffect
<1>. HIDE DEF c
<1>9. pc' \in VerifiedSteps \cup {"returned"}
  BY <1>1, <1>7 DEF VerifiedSteps, CreateSteps
<1>10. Calling'
  BY <1>1, <1>7 DEF Guarded, Calling, callVars
<1>11. pc \notin CreateSteps => pc' \notin CreateSteps
  BY <1>1, <1>7 DEF CreateSteps
<1>12. CASE Opened
  <2>1. c.ins \in Inner /\ c.ins # "CHANGE REFERENCE DATA"
    BY <1>6 DEF Inner
  <2>2. Opened'
    BY <1>1, <1>2, <1>6, <1>8, <1>12, <2>1, OpenedMoves
  <2>. QED
    BY <1>1, <1>2, <1>4, <1>9, <1>10, <2>2, VerifiedGoesOn
<1>13. CASE Locked
  <2>1. pc' \notin CreateSteps /\ c.ins # "VERIFY"
    BY <1>6, <1>11, <1>13 DEF Locked
  <2>2. Locked'
    BY <1>2, <1>3, <1>8, <1>13, <2>1, LockedLooks
  <2>. QED
    BY <1>1, <1>2, <1>4, <1>9, <1>10, <2>2, VerifiedGoesOn
<1>. QED
  BY <1>2, <1>12, <1>13 DEF Guarded, Entered

\* CREATE, UPDATE BINARY and ACTIVATE of a binary file.
LEMMA GuardedCreate ==
  ASSUME Faults = {}, lost' <= 1, StorageInv, Guarded, CreateBf \/ WriteBf \/ ActivateBf
  PROVE  Guarded' /\ OwnerStep
<1>. DEFINE c == IF pc = "create bf" THEN CreateFile(file)
                 ELSE IF pc = "activate bf" THEN Current("ACTIVATE")
                 ELSE Apdu("UPDATE BINARY", user, file, <<i + 1, val>>)
<1>1. /\ pc \in {"create bf", "update binary", "activate bf"}
      /\ Send(c) /\ UNCHANGED callVars /\ UNCHANGED buf
  BY DEF CreateBf, WriteBf, ActivateBf, Checked, workVars
<1>2. pc \in VerifiedSteps /\ pc # "read binary" /\ (pc # "create bf" => pc \in CreateSteps)
  BY <1>1 DEF VerifiedSteps, CreateSteps
<1>3. file \in Files
  BY <1>1 DEF StorageInv, Fits, BfSteps, CreateSteps
<1>4. /\ c.ins = CASE pc = "create bf" -> "CREATE" [] pc = "activate bf" -> "ACTIVATE"
                   [] pc = "update binary" -> "UPDATE BINARY"
      /\ c.user = user
      /\ c.ins = "CREATE" => c.node \in Nodes /\ c.node # "df"
  BY <1>1, <1>3, NodeNames, StepNames DEF CreateFile, Current, Apdu
<1>5. /\ pc' = "returned" \/ (sw' = "ok" /\ pc' \in CreateSteps)
  BY <1>1 DEF CreateBf, WriteBf, ActivateBf, Checked, Proceed, Goto, Return, CreateSteps
<1>6. Effect(c)
  BY <1>1, SendEffect
<1>. HIDE DEF c
<1>7. pc' \in VerifiedSteps \cup {"returned"} /\ Calling'
  BY <1>5 DEF VerifiedSteps, CreateSteps, Calling
<1>8. CASE Opened
  <2>1. c.ins \in Inner /\ c.ins # "CHANGE REFERENCE DATA"
        /\ (c.ins \in Naming => c.user = user /\ c.node \in Nodes)
    BY <1>1, <1>4 DEF Inner, Naming
  <2>2. Opened' /\ OwnerStep
    BY <1>1, <1>2, <1>6, <1>8, <2>1, OpenedMoves
  <2>. QED
    BY <1>1, <1>2, <1>7, <2>2, VerifiedGoesOn
<1>9. CASE Locked
  <2>1. c.ins = "CREATE" /\ c.node # "df"
    BY <1>1, <1>2, <1>4, <1>9 DEF Locked
  <2>2. sw' # "ok" /\ OwnerStep
    BY <1>1, <1>9, <2>1, LockedFails DEF NeedsKey
  <2>. QED
    BY <1>1, <1>2, <1>5, <1>7, <2>2, VerifiedGoesOn DEF VerifiedSteps, CreateSteps
<1>. QED
  BY <1>2, <1>8, <1>9 DEF Guarded, Entered

\* DELETE, of the current file whichever it is.
LEMMA GuardedDelete ==
  ASSUME Faults = {}, lost' <= 1, StorageInv, Guarded, DeleteUserDf \/ DeleteBf
  PROVE  Guarded' /\ OwnerStep
<1>. DEFINE c == Current("DELETE")
<1>1. /\ pc \in {"delete df", "delete bf"} /\ Send(c) /\ c.ins = "DELETE"
      /\ UNCHANGED callVars /\ UNCHANGED buf /\ pc' = "returned"
  BY DEF DeleteUserDf, DeleteBf, Checked, workVars, Proceed, Return, Current, Apdu
<1>2. pc \in VerifiedSteps /\ pc # "read binary"
  BY <1>1 DEF VerifiedSteps
<1>3. user \in Users /\ op \in PasswordOps \ {"register"}
  BY <1>1, StepNames DEF StorageInv, Fits, Steps, Guarded, Calling, PasswordOps, FileOps
<1>4. CardTypeOK
  BY DEF StorageInv, TypeOK
<1>5. Effect(c)
  BY <1>1, SendEffect
<1>. HIDE DEF c
<1>6. OwnerStep
  <2>1. CASE Opened
    <3>1. \A u \in Users : u # user => FilesOf(u)' = FilesOf(u)
      BY <1>1, <1>3, <1>4, <1>5, <2>1, DeletesInside DEF Opened
    <3>. QED
      BY <1>3, <2>1, <3>1 DEF Opened, OwnerStep
  <2>2. CASE Locked
    BY <1>1, <2>2, LockedFails DEF NeedsKey
  <2>. QED
    BY <1>2, <2>1, <2>2 DEF Guarded, Entered
<1>7. Calling'
  BY <1>1 DEF Calling
<1>. QED
  BY <1>1, <1>2, <1>6, <1>7, VerifiedGoesOn DEF VerifiedSteps, CreateSteps

\* READ BINARY: a chunk only comes with the password.
LEMMA GuardedRead ==
  ASSUME Faults = {}, lost' <= 1, StorageInv, Guarded, ReadBf
  PROVE  Guarded' /\ OwnerStep
<1>. DEFINE c == Apdu("READ BINARY", user, file, i + 1)
<1>1. /\ pc = "read binary" /\ Send(c) /\ c.ins = "READ BINARY" /\ UNCHANGED callVars
      /\ pc' \in {"read binary", "returned"}
      /\ sw' # "ok" => pc' = "returned" /\ UNCHANGED buf
  BY DEF ReadBf, Apdu, Proceed, Goto, Return
<1>2. pc \in VerifiedSteps
  BY <1>1 DEF VerifiedSteps
<1>3. UNCHANGED <<lcs, records, pin, data>>
  BY QuietFilesKept DEF QuietStep
<1>4. OwnerStep
  BY <1>3 DEF OwnerStep, FilesOf
<1>5. Effect(c)
  BY <1>1, SendEffect
<1>. HIDE DEF c
<1>6. Mine' /\ Calling'
  BY <1>1 DEF Mine, Guarded, Calling, callVars, RegisterSteps, OwnNodeSteps
<1>7. op = "read_bf"
  BY <1>1 DEF Guarded, Calling
<1>8. CASE Opened
  <2>1. c.ins \in Inner /\ c.ins \notin Naming /\ c.ins # "CHANGE REFERENCE DATA"
    BY <1>1 DEF Inner, Naming
  <2>2. Opened'
    BY <1>1, <1>2, <1>5, <1>8, <2>1, OpenedMoves
  <2>3. Copied'
    BY <1>1, <1>3, <1>8 DEF Copied, Opened, callVars
  <2>. QED
    BY <1>4, <1>6, <2>2, <2>3 DEF Guarded, Entered
<1>9. CASE Locked
  <2>1. sw' # "ok"
    BY <1>1, <1>9, LockedFails DEF NeedsKey
  <2>2. Copied'
    BY <1>1, <1>3, <2>1 DEF Guarded, Copied, callVars, Blank
  <2>3. Entered'
    BY <1>1, <2>1 DEF Entered, VerifiedSteps, CreateSteps
  <2>. QED
    BY <1>4, <1>6, <2>2, <2>3 DEF Guarded
<1>. QED
  BY <1>2, <1>8, <1>9 DEF Guarded, Entered

\* The exchange that finds out whether the user is registered.
LEMMA GuardedCheckUser ==
  ASSUME StorageInv, Guarded, CheckUserDf
  PROVE  Guarded'
<1>1. /\ pc = "check df" /\ UNCHANGED callVars /\ UNCHANGED buf /\ Send(UserFile("df"))
      /\ op \in Ops /\ user \in Users
  BY DEF CheckUserDf, StorageInv, Fits, Steps
<1>2. sw' \in Status
  BY <1>1, Exchange, Commands, NodeNames DEF StorageInv, RspTypeOK
<1>3. /\ pc' \in {"returned", "verify", "open df", "create df"}
      /\ pc' = "create df" => sw' # "ok"
  BY <1>2 DEF CheckUserDf, Status, Goto, Return
<1>4. CASE pc' # "create df"
  BY <1>1, <1>3, <1>4, GuardedElsewhere DEF RegSteps, RegisterSteps, VerifiedSteps, CreateSteps
<1>5. CASE pc' = "create df"
  <2>1. Mine' /\ Entered' /\ Calling'
    BY <1>3, <1>5
       DEF Mine, Entered, Calling, RegisterSteps, OwnNodeSteps, VerifiedSteps, CreateSteps
  <2>2. buf' = Blank /\ Blank' = Blank
    BY <1>1 DEF Guarded, Copied, Blank
  <2>. QED
    BY <2>1, <2>2 DEF Guarded, Copied
<1>. QED
  BY <1>4, <1>5

\* Around a call, before VERIFY, and where ids are listed.
LEMMA GuardedQuiet ==
  ASSUME Faults = {}, StorageInv, Guarded,
         \/ Call \/ CallerResumes \/ OpenChannel \/ CloseChannel \/ Crash
         \/ SelectCryptoAid \/ OpenUserDf \/ CheckBf
         \/ ReadNullSize \/ ListFiles \/ FreeUninitialised
  PROVE  Guarded'
<1>1. CASE CallerResumes
  <2>1. pc' = "idle" /\ buf' = Blank /\ Blank' = Blank
    BY <1>1 DEF CallerResumes, Idle, Blank
  <2>2. Mine' /\ Entered' /\ Calling' /\ Copied'
    BY <2>1 DEF Mine, Entered, Calling, Copied, RegisterSteps, OwnNodeSteps, VerifiedSteps,
       CreateSteps
  <2>. QED
    BY <2>2 DEF Guarded
<1>2. ASSUME pc' \in {"idle", "select aid", "returned", "list first", "list next", "check df",
                      "check bf", "verify"},
             pc # "returned", pc # "read binary", UNCHANGED buf \/ buf' = Blank
      PROVE  Guarded'
  BY <1>2, GuardedElsewhere DEF RegSteps, RegisterSteps, VerifiedSteps, CreateSteps
<1>3. CASE Call \/ OpenChannel \/ CloseChannel
  BY <1>2, <1>3 DEF Call, OpenChannel, CloseChannel, workVars
<1>4. CASE ReadNullSize \/ FreeUninitialised
  BY <1>2, <1>4 DEF ReadNullSize, FreeUninitialised, Restart, Idle
<1>5. CASE SelectCryptoAid
  BY <1>2, <1>5 DEF SelectCryptoAid, AfterAid, Goto, Return, workVars
<1>6. CASE OpenUserDf
  <2>1. op \in FileOps \cup {"select_user", "list_files"}
    BY <1>6 DEF OpenUserDf, StorageInv, Fits, Steps
  <2>. QED
    BY <1>2, <1>6, <2>1 DEF OpenUserDf, Goto, Return, workVars
<1>7. CASE CheckBf \/ ListFiles
  BY <1>2, <1>7 DEF CheckBf, ListFiles, Goto, Return
<1>8. ~ Crash
  BY DEF Crash
<1>. QED
  BY <1>1, <1>3, <1>4, <1>5, <1>6, <1>7, <1>8

\* A step up to the first loss, and the one that loses the first answer.
LEMMA GuardedNext ==
  ASSUME Faults = {}, lost' <= 1, StorageInv, Guarded, lost = 0 => Settled, Next
  PROVE  Guarded' /\ OwnerStep
<1>1. CASE RegisterStep
  BY <1>1, GuardedRegister
<1>2. CASE SelectDfDelete \/ SelectBfWrite \/ SelectBfUse \/ SelectBfDelete \/ SelectBfRead
  BY <1>2, GuardedSelect
<1>3. CASE CreateBf \/ WriteBf \/ ActivateBf
  BY <1>3, GuardedCreate
<1>4. CASE DeleteUserDf \/ DeleteBf
  BY <1>4, GuardedDelete
<1>5. CASE ReadBf
  BY <1>5, GuardedRead
<1>6. CASE VerifyPin
  BY <1>6, GuardedVerify
<1>7. CASE CheckUserDf
  <2>1. OwnerStep
    BY <1>7, QuietFilesKept DEF OwnerStep, FilesOf
  <2>. QED
    BY <1>7, <2>1, GuardedCheckUser
<1>8. CASE \/ Call \/ CallerResumes \/ OpenChannel \/ CloseChannel \/ Crash
           \/ SelectCryptoAid \/ OpenUserDf \/ CheckBf
           \/ ReadNullSize \/ ListFiles \/ FreeUninitialised
  <2>1. QuietStep
    BY <1>8 DEF QuietStep
  <2>2. OwnerStep
    BY <2>1, QuietFilesKept DEF OwnerStep, FilesOf
  <2>. QED
    BY <1>8, <2>2, GuardedQuiet
<1>. QED
  BY <1>1, <1>2, <1>3, <1>4, <1>5, <1>6, <1>7, <1>8 DEF Next, ClientStep, FileStep

\* Steps that change nothing keep all this.
LEMMA OneLostStutter ==
  ASSUME UNCHANGED vars
  PROVE  (Settled => Settled') /\ (Guarded => Guarded') /\ OwnerStep
<1>1. UNCHANGED <<lcs, records, pin, data, dir, node, auth, pc, op, user, file, pwd, sw, buf,
                  lost>>
  BY DEF vars, cardVars, fileVars, selectVars, clientVars, callVars, rspVars, workVars
<1>2. OwnerStep
  BY <1>1 DEF OwnerStep, FilesOf
<1>3. Settled => Settled'
  BY <1>1 DEF Settled, NoneTorn, NotYetVerified, ArrMade
<1>4. Mine /\ Entered => Mine' /\ Entered'
  BY <1>1 DEF Mine, Entered, Opened, Locked
<1>5. Copied /\ Calling => Copied' /\ Calling'
  BY <1>1 DEF Copied, Calling, Blank
<1>. QED
  BY <1>2, <1>3, <1>4, <1>5 DEF Guarded

\* Before anything has happened.
LEMMA OneLostInit == Init => Settled /\ Guarded
<1>. SUFFICES ASSUME Init PROVE Settled /\ Guarded
  OBVIOUS
<1>1. pc = "idle" /\ op = "none" /\ buf = Blank
  BY DEF Init, ClientInit
<1>2. \A u \in Users, n \in Nodes : lcs[u][n] = "none"
  BY DEF Init, CardInit, NoFiles
<1>3. Settled
  BY <1>1, <1>2 DEF Settled, NoneTorn, NotYetVerified, ArrMade, ArrSteps
<1>4. Guarded
  BY <1>1 DEF Guarded, Mine, Entered, Copied, Calling, VerifiedSteps, OwnNodeSteps,
     RegisterSteps, CreateSteps
<1>. QED
  BY <1>3, <1>4

-----------------------------------------------------------------------------
(* The theorems.                                                            *)

NoFaults == Faults = {}

\* As long as nothing is lost, only the call under way has files half made,
\* and the key is not verified before VERIFY.
THEOREM SettledInvariant ==
  ASSUME NoFaults
  PROVE  Spec => [](lost = 0 => Settled)
<1>1. Init => (lost = 0 => Settled)
  BY OneLostInit
<1>2. ASSUME StorageInv, lost = 0 => ReliableInv, lost = 0 => CompleteInv,
             lost = 0 => Settled, [Next]_vars
      PROVE  (lost = 0 => Settled)'
  <2>1. ASSUME lost' = 0 PROVE Settled'
    <3>1. Whole /\ Settled
      BY <1>2, <2>1, LostStays DEF Whole, Trusted
    <3>2. CASE Next
      BY <2>1, <3>1, <3>2, SettledNext DEF NoFaults
    <3>3. CASE UNCHANGED vars
      BY <3>1, <3>3, OneLostStutter
    <3>. QED
      BY <1>2, <3>2, <3>3
  <2>. QED
    BY <2>1
<1>3. "refuse" \notin Faults
  BY DEF NoFaults
<1>4. Spec => [](lost = 0 => CompleteInv)
  BY <1>3, CompleteInvariant
<1>. QED
  BY <1>1, <1>2, <1>4, StorageInvariant, ReliableInvariant, PTL DEF Spec

\* A loss is counted, so with at most one after the step there was at most one
\* before it.
LEMMA FewLost == ASSUME StorageInv, [Next]_vars, lost' <= 1 PROVE lost <= 1
<1>1. lost \in Nat
  BY StorageAssumption DEF StorageInv, TypeOK
<1>. QED
  BY <1>1, LostGrows

\* As long as at most one answer has been lost, whoever goes on after VERIFY has
\* the password or finds every access closed.
THEOREM GuardedInvariant ==
  ASSUME NoFaults
  PROVE  Spec => [](lost <= 1 => Guarded)
<1>1. Init => (lost <= 1 => Guarded)
  BY OneLostInit
<1>2. ASSUME StorageInv, lost = 0 => Settled, lost <= 1 => Guarded, [Next]_vars
      PROVE  (lost <= 1 => Guarded)'
  <2>1. ASSUME lost' <= 1 PROVE Guarded'
    <3>1. Guarded
      BY <1>2, <2>1, FewLost
    <3>2. CASE Next
      BY <1>2, <2>1, <3>1, <3>2, GuardedNext DEF NoFaults
    <3>3. CASE UNCHANGED vars
      BY <3>1, <3>3, OneLostStutter
    <3>. QED
      BY <1>2, <3>2, <3>3
  <2>. QED
    BY <2>1
<1>. QED
  BY <1>1, <1>2, StorageInvariant, SettledInvariant, PTL DEF Spec

\* Even when one answer has been lost, anywhere, nothing of a user's changes but
\* in a call for that user which registers a user not yet registered or carries
\* the user's password (do_verify_pin before every change).
THEOREM OwnersSurviveOneLoss ==
  ASSUME NoFaults
  PROVE  Spec => OnlyOwnerChanges
<1>1. /\ StorageInv /\ (lost = 0 => Settled) /\ (lost <= 1 => Guarded) /\ [Next]_vars =>
           [\A u \in Users :
              lost' <= 1 /\ FilesOf(u)' # FilesOf(u) =>
                /\ user = u
                /\ \/ op = "register" /\ lcs[u]["df"] # "use"
                   \/ op \in PasswordOps \ {"register"} /\ pwd = pin[u]]_vars
  <2>. SUFFICES ASSUME StorageInv, lost = 0 => Settled, lost <= 1 => Guarded, Next, lost' <= 1
                PROVE  OwnerStep
    BY DEF OwnerStep
  <2>1. Guarded
    BY FewLost
  <2>. QED
    BY <2>1, GuardedNext DEF NoFaults
<1>. QED
  BY <1>1, StorageInvariant, SettledInvariant, GuardedInvariant, PTL DEF Spec, OnlyOwnerChanges

\* Even when one answer has been lost, chunks of a file reach the caller's
\* buffer only with the user's password (read_bf_file).
THEOREM ReadsSurviveOneLoss ==
  ASSUME NoFaults
  PROVE  Spec => []ReadNeedsPassword
<1>1. (lost <= 1 => Guarded) => ReadNeedsPassword
  BY DEF Guarded, Copied, ReadNeedsPassword
<1>. QED
  BY <1>1, GuardedInvariant, PTL

-----------------------------------------------------------------------------
(* What a call returns is due, as long as no answer has been lost and when   *)
(* nothing is refused without a cause.  "User not registered" and its like   *)
(* are read off the element, so they are right if the client stands where it *)
(* means to stand; SEC_STORAGE_UNKNOWN_ERROR cannot come up if every command *)
(* that the call gives up on is accepted from there.                        *)

FoundSteps == {"select bf read", "read binary", "select bf delete", "delete bf"}

\* Where the client stands, each next command is accepted, or it fails for the
\* reason that the call then reports.
OnCourse ==
  /\ ArrMade
  /\ pc \notin {"idle", "select aid", "returned"} => session
  /\ pc \in {"check df", "create df"} => dir = Root
  /\ pc \in {"open df", "check bf", "verify"} \cup VerifiedSteps => lcs[user]["df"] # "none"
  /\ pc = "verify" => dir = user /\ (op \in FileOps => exists = (lcs[user][file] # "none"))
  /\ pc \in VerifiedSteps \ CreateSteps => auth
  /\ pc = "create bf" => lcs[user][file] = "none"
  /\ pc \in FoundSteps => lcs[user][file] # "none"

DueInv == OnCourse /\ StatusIsDue

\* A command that is accepted is carried out.
LEMMA AcceptedPasses ==
  ASSUME "refuse" \notin Faults, lost' = 0, StorageInv, NEW c, Send(c), Accepts(c)
  PROVE  sw' = "ok"
BY CommandFailed

\* An accepted exchange leads to the next one, or to SEC_STORAGE_OK.
LEMMA AcceptedGoesOn ==
  ASSUME "refuse" \notin Faults, lost' = 0, StorageInv, NEW step, NEW c, NEW next,
         Checked(step, c, next), Accepts(c)
  PROVE  /\ sw' = "ok" /\ Send(c) /\ pc = step /\ pc' = next
         /\ next = "returned" => ret' = "OK"
         /\ UNCHANGED <<callVars, session, workVars>>
<1>1. sw' = "ok"
  BY AcceptedPasses DEF Checked
<1>. QED
  BY <1>1 DEF Checked, Proceed, Goto, Return

\* The last exchange of a call.
LEMMA AcceptedEnds ==
  ASSUME "refuse" \notin Faults, lost' = 0, StorageInv, NEW step, NEW c,
         Checked(step, c, "returned"), Accepts(c)
  PROVE  pc = step /\ pc' = "returned" /\ ret' = "OK" /\ UNCHANGED <<callVars, session>>
<1>1. sw' = "ok" /\ pc = step /\ UNCHANGED <<callVars, session>>
  BY AcceptedGoesOn
<1>2. Return("OK")
  BY <1>1 DEF Checked, Proceed
<1>. QED
  BY <1>1, <1>2 DEF Return

\* A key that has been verified stays so while the DF stays current.
LEMMA KeyStays ==
  ASSUME dir' = dir, NEW ins \in {"SELECT", "SELECT FCP", "READ BINARY"}, NEW u, NEW n, NEW a,
         Send(Apdu(ins, u, n, a))
  PROVE  auth => auth'
<1>. DEFINE c == Apdu(ins, u, n, a)
<1>1. c.ins \in {"SELECT", "SELECT FCP", "READ BINARY"} /\ Send(c)
  BY DEF Apdu
<1>. HIDE DEF c
<1>2. ASSUME auth, NEW x, Execute(c, x) PROVE auth'
  BY <1>1, <1>2 DEF Execute, SelectAid, Select, Create, AppendRecord, ChangeReferenceData,
     Activate, DeleteDf, DeleteFile, Verify, UpdateBinary, List, cardVars, selectVars
<1>. QED
  BY <1>1, <1>2 DEF Send, Answered, Refused, Lost, cardVars, selectVars

\* Returning with SEC_STORAGE_OK from beyond the checks of the arguments.
LEMMA OkIsDue ==
  ASSUME StorageInv, OnCourse, pc \in Steps \ {"select aid", "list first", "list next"},
         UNCHANGED <<callVars, session>>, pc' = "returned", ret' = "OK",
         op \in FileOps => file \in Files
  PROVE  DueInv'
<1>1. user \in Users /\ (op \in PasswordOps => pwd \in Passwords)
  BY DEF StorageInv, Fits
<1>2. session'
  BY StepNames DEF OnCourse
<1>3. user # BadUser /\ (op \in FileOps => file # BadFile) /\ (op \in PasswordOps => pwd # BadPassword)
  BY <1>1, StorageAssumption DEF Nodes, EFs
<1>4. StatusIsDue'
  BY <1>2, <1>3 DEF StatusIsDue, Statuses, callVars
<1>5. OnCourse'
  BY DEF OnCourse, ArrMade, ArrSteps, VerifiedSteps, CreateSteps, FoundSteps
<1>. QED
  BY <1>4, <1>5 DEF DueInv

\* Between two calls nothing is due.
LEMMA DueBetween ==
  ASSUME \/ Call \/ CallerResumes \/ OpenChannel \/ CloseChannel \/ Crash
         \/ ReadNullSize \/ FreeUninitialised
  PROVE  DueInv'
<1>1. pc' \in {"idle", "select aid"}
  BY DEF Call, CallerResumes, OpenChannel, CloseChannel, Crash, ReadNullSize,
         FreeUninitialised, Restart, Idle
<1>. QED
  BY <1>1 DEF DueInv, OnCourse, StatusIsDue, ArrMade, ArrSteps, VerifiedSteps, CreateSteps,
              FoundSteps

\* SELECT of the applet, and the checks of user id and password.
LEMMA DueSelectAid ==
  ASSUME "refuse" \notin Faults, lost' = 0, Trusted, SelectCryptoAid
  PROVE  DueInv'
<1>. USE DEF DueInv, OnCourse, StatusIsDue, Statuses, ArrMade, ArrSteps, VerifiedSteps, CreateSteps,
             FoundSteps
<1>1. ~ Lose /\ UNCHANGED <<callVars, session>>
  BY NothingLost DEF Trusted, SelectCryptoAid
<1>2. CASE ~ session
  <2>1. pc' = "returned" /\ ret' = "AID_SELECT_ERROR"
    BY <1>1, <1>2 DEF SelectCryptoAid, Return
  <2>. QED
    BY <1>1, <1>2, <2>1
<1>3. CASE session
  <2>1. AfterAid /\ \E x : Execute(Current("SELECT AID"), x)
    BY <1>1, <1>3 DEF SelectCryptoAid
  <2>2. dir' = Root
    BY <2>1, AidDone
  <2>3. CASE op = "list_users"
    BY <1>1, <1>3, <2>1, <2>3 DEF AfterAid, Goto
  <2>4. CASE op # "list_users" /\ user = BadUser
    BY <1>1, <2>1, <2>4 DEF AfterAid, Return, callVars
  <2>5. CASE op # "list_users" /\ user # BadUser
    BY <1>1, <1>3, <2>1, <2>2, <2>5 DEF AfterAid, Return, Goto, callVars
  <2>. QED
    BY <2>3, <2>4, <2>5
<1>. QED
  BY <1>2, <1>3

\* The check of the user.
LEMMA DueCheckUserDf ==
  ASSUME "refuse" \notin Faults, lost' = 0, Trusted, DueInv, CheckUserDf
  PROVE  DueInv'
<1>. USE DEF ArrMade, ArrSteps, VerifiedSteps, CreateSteps, FoundSteps, Statuses
<1>1. /\ pc = "check df" /\ Send(UserFile("df")) /\ UNCHANGED <<callVars, session>>
  BY DEF CheckUserDf
<1>2. /\ user \in Users /\ op \in Ops \ {"list_users"}
      /\ user # BadUser /\ (op \in PasswordOps => pwd # BadPassword)
  BY <1>1, StorageAssumption DEF Trusted, StorageInv, Fits, Steps
<1>3. sw' \in Status
  BY <1>1, <1>2, Exchange, Commands, NodeNames DEF Trusted, StorageInv, RspTypeOK
<1>4. /\ UNCHANGED lcs /\ (sw' = "ok" <=> lcs[user]["df"] # "none")
      /\ sw' = "ok" => dir' = user
      /\ sw' # "ok" => dir' = dir
  BY <1>1, <1>2, SelectExchange, UserHome, NodeNames DEF Trusted
<1>5. sw' # "refused"
  <2>1. ASSUME sw' = "refused" PROVE FALSE
    <3>1. ~ Accepts(UserFile("df")) /\ Answered(UserFile("df"))
      BY <1>1, <2>1, CommandFailed, NothingLost DEF Trusted, Refused
    <3>2. StatusOf(UserFile("df")) = "not found"
      BY <3>1 DEF StatusOf, UserFile, Apdu
    <3>. QED
      BY <2>1, <3>1, <3>2 DEF Answered
  <2>. QED
    BY <2>1
<1>6. session /\ dir = Root
  BY <1>1 DEF DueInv, OnCourse
<1>7. CASE sw' = "ok" /\ op = "register"
  BY <1>1, <1>2, <1>4, <1>7 DEF CheckUserDf, Return, DueInv, OnCourse, StatusIsDue, callVars
<1>8. CASE sw' = "ok" /\ op = "unregister"
  BY <1>1, <1>2, <1>4, <1>6, <1>8 DEF CheckUserDf, Goto, DueInv, OnCourse, StatusIsDue,
     callVars, FileOps
<1>9. CASE op = "is_registered"
  BY <1>1, <1>2, <1>3, <1>5, <1>6, <1>9 DEF CheckUserDf, Return, DueInv, OnCourse, StatusIsDue,
     callVars, FileOps, PasswordOps
<1>10. CASE sw' = "ok" /\ op \notin {"is_registered", "register", "unregister"}
  BY <1>1, <1>4, <1>6, <1>10 DEF CheckUserDf, Goto, DueInv, OnCourse, StatusIsDue, callVars
<1>11. CASE sw' = "not found" /\ op = "register"
  BY <1>1, <1>4, <1>6, <1>11 DEF CheckUserDf, Goto, DueInv, OnCourse, StatusIsDue, callVars
<1>12. CASE sw' = "not found" /\ op \notin {"is_registered", "register"}
  BY <1>1, <1>2, <1>4, <1>12 DEF CheckUserDf, Return, DueInv, OnCourse, StatusIsDue,
     callVars
<1>. QED
  BY <1>3, <1>5, <1>7, <1>8, <1>9, <1>10, <1>11, <1>12 DEF Status

\* A SELECT that is not lost is answered with 9000 or with "not found".
LEMMA SelectAnswered ==
  ASSUME "refuse" \notin Faults, lost' = 0, StorageInv, NEW n, Send(UserFile(n))
  PROVE  sw' # "refused"
<1>1. ASSUME sw' = "refused" PROVE FALSE
  <2>1. ~ Accepts(UserFile(n)) /\ Answered(UserFile(n))
    BY <1>1, CommandFailed, NothingLost DEF Refused
  <2>2. StatusOf(UserFile(n)) = "not found"
    BY <2>1 DEF StatusOf, UserFile, Apdu
  <2>. QED
    BY <1>1, <2>1, <2>2 DEF Answered
<1>. QED
  BY <1>1

\* The SELECT of the user's DF in select_user_file_helper.
LEMMA DueOpenUserDf ==
  ASSUME "refuse" \notin Faults, lost' = 0, Trusted, DueInv, OpenUserDf
  PROVE  DueInv'
<1>. USE DEF ArrMade, ArrSteps, VerifiedSteps, CreateSteps, FoundSteps, Statuses
<1>1. pc = "open df" /\ Send(UserFile("df")) /\ UNCHANGED <<callVars, session>>
  BY DEF OpenUserDf
<1>2. user \in Users /\ op \in FileOps \cup {"select_user", "list_files"}
  BY <1>1 DEF Trusted, StorageInv, Fits, Steps
<1>3. session /\ lcs[user]["df"] # "none"
  BY <1>1 DEF DueInv, OnCourse
<1>4. UNCHANGED lcs /\ sw' = "ok"
  BY <1>1, <1>2, <1>3, SelectExchange, UserHome, NodeNames DEF Trusted
<1>5. CASE op = "select_user"
  <2>1. pc' = "returned" /\ ret' = "OK" /\ pc \in Steps \ {"select aid", "list first", "list next"}
    BY <1>1, <1>4, <1>5 DEF OpenUserDf, Return, Steps, FileOps
  <2>. QED
    BY <1>1, <1>5, <2>1, OkIsDue DEF Trusted, DueInv, FileOps
<1>6. CASE op = "list_files"
  <2>1. pc' = "list first" /\ session'
    <3>1. pc' = "list first"
      BY <1>4, <1>6 DEF OpenUserDf, Goto, FileOps
    <3>2. session'
      BY <1>1, <1>3
    <3>. QED
      BY <3>1, <3>2
  <2>. QED
    BY <2>1 DEF DueInv, OnCourse, StatusIsDue
<1>7. CASE op \in FileOps /\ file = BadFile
  <2>1. pc' = "returned" /\ ret' = "WRONG_FILE_ID"
    BY <1>4, <1>7 DEF OpenUserDf, Return, FileOps
  <2>. QED
    BY <1>1, <1>7, <2>1 DEF DueInv, OnCourse, StatusIsDue, callVars
<1>8. CASE op \in FileOps /\ file # BadFile
  <2>1. pc' = "check bf"
    BY <1>4, <1>8 DEF OpenUserDf, Goto, FileOps
  <2>. QED
    BY <1>1, <1>3, <1>4, <2>1 DEF DueInv, OnCourse, StatusIsDue, callVars
<1>. QED
  BY <1>2, <1>5, <1>6, <1>7, <1>8

\* The check of the file.
LEMMA DueCheckBf ==
  ASSUME "refuse" \notin Faults, lost' = 0, Trusted, DueInv, CheckBf
  PROVE  DueInv'
<1>. USE DEF ArrMade, ArrSteps, VerifiedSteps, CreateSteps, FoundSteps, Statuses
<1>1. pc = "check bf" /\ Send(UserFile(file)) /\ UNCHANGED <<callVars, session>>
  BY DEF CheckBf
<1>2. /\ user \in Users /\ file \in Files /\ file \in Nodes /\ op \in FileOps /\ dir = user
  BY <1>1, NodeNames DEF Trusted, StorageInv, Fits, Steps, BfSteps, ReliableInv, Located
<1>3. session /\ lcs[user]["df"] # "none"
  BY <1>1 DEF DueInv, OnCourse
<1>4. /\ UNCHANGED lcs /\ (sw' = "ok" <=> lcs[user][file] # "none")
      /\ dir' = user
  BY <1>1, <1>2, SelectExchange, UserHome DEF Trusted
<1>5. pc' = "verify" /\ exists' = (sw' = "ok")
  BY <1>1, SelectAnswered DEF CheckBf, Goto, Trusted
<1>6. exists' = (lcs'[user'][file'] # "none")
  BY <1>1, <1>4, <1>5, Zenon DEF callVars
<1>7. OnCourse'
  BY <1>1, <1>3, <1>4, <1>5, <1>6 DEF OnCourse, callVars
<1>. QED
  BY <1>5, <1>7 DEF DueInv, StatusIsDue

\* VERIFY, and what each call makes of the file that it has found or not.
LEMMA DueVerify ==
  ASSUME "refuse" \notin Faults, lost' = 0, Trusted, DueInv, VerifyPin
  PROVE  DueInv'
<1>. USE DEF ArrMade, ArrSteps, VerifiedSteps, CreateSteps, FoundSteps, Statuses
<1>. DEFINE c == Apdu("VERIFY", user, "kf", pwd)
<1>1. pc = "verify" /\ Send(c) /\ UNCHANGED <<callVars, session>>
  BY DEF VerifyPin
<1>2. user \in Users /\ (op = "unregister" \/ op \in FileOps)
  BY <1>1 DEF Trusted, StorageInv, Fits, Steps
<1>3. /\ session /\ lcs[user]["df"] # "none" /\ dir = user
      /\ op \in FileOps => exists = (lcs[user][file] # "none")
  BY <1>1 DEF DueInv, OnCourse
<1>4. op \in PasswordOps \ {"register"}
  BY <1>2 DEF PasswordOps, FileOps
<1>5. CASE sw' # "ok"
  <2>1. pc' = "returned" /\ ret' = "PASSWORD_VERIF_ERROR"
    BY <1>5 DEF VerifyPin, Return
  <2>2. UNCHANGED <<lcs, pin>> /\ ~ Accepts(c)
    BY <1>1, <1>5, CommandFailed DEF Trusted
  <2>3. lcs[user]["kf"] # "use" \/ pin[user] # pwd
    BY <1>2, <1>3, <2>2 DEF Accepts, Apdu
  <2>. QED
    BY <1>1, <1>4, <2>1, <2>2, <2>3 DEF DueInv, OnCourse, StatusIsDue, callVars
<1>6. CASE sw' = "ok"
  <2>1. PICK x \in Answers(c) : Accepts(c) /\ Execute(c, x)
    BY <1>1, <1>6, CommandDone DEF Trusted
  <2>2. UNCHANGED lcs /\ dir' = user /\ auth'
    BY <2>1, VerifyDone, VerifyIs
  <2>3. CASE pc' = "returned"
    <3>1. \/ op = "create_bf" /\ exists /\ ret' = "FILE_IS_ALREADY_CREATED"
          \/ op \in {"read_bf", "delete_bf"} /\ ~ exists /\ ret' = "WRONG_USER_ID"
      BY <1>2, <1>6, <2>3 DEF VerifyPin, AfterVerify, Goto, Return, FileOps
    <3>2. \/ op = "create_bf" /\ lcs[user][file] # "none"
             /\ ret' = "FILE_IS_ALREADY_CREATED"
          \/ op \in {"read_bf", "delete_bf"} /\ lcs[user][file] = "none"
             /\ ret' = "WRONG_USER_ID"
      BY <1>3, <3>1 DEF FileOps
    <3>3. op \in FileOps => file \in Files
      BY <1>1 DEF Trusted, StorageInv, Fits, Steps, FileOps
    <3>4. ret' = "WRONG_USER_ID" => FileIsMissing'
      BY <1>1, <1>2, <2>2, <3>2, <3>3 DEF FileIsMissing, FileOps, callVars
    <3>. QED
      BY <1>1, <2>2, <2>3, <3>2, <3>4 DEF DueInv, OnCourse, StatusIsDue, callVars
  <2>4. CASE pc' # "returned"
    <3>1. \/ pc' = "select df delete"
          \/ op = "create_bf" /\ ~ exists /\ pc' = "create bf"
          \/ op \in FileOps /\ exists /\ pc' \in {"select bf read", "select bf delete"}
      BY <1>2, <1>6, <2>4 DEF VerifyPin, AfterVerify, Goto, Return, FileOps
    <3>2. /\ pc' = "create bf" => lcs[user][file] = "none"
          /\ pc' \in {"select bf read", "select bf delete"} => lcs[user][file] # "none"
      BY <1>3, <3>1 DEF FileOps
    <3>. QED
      BY <1>1, <1>3, <2>2, <2>4, <3>1, <3>2 DEF DueInv, OnCourse, StatusIsDue, callVars
  <2>. QED
    BY <2>3, <2>4
<1>. QED
  BY <1>5, <1>6

(* register_new_user_impl *)

\* The element takes CREATE of the DF.
LEMMA NewDfAccepted ==
  ASSUME Whole, OnCourse, pc = "create df"
  PROVE  Accepts(CreateFile("df"))
<1>1. user \in Users /\ lcs[user]["df"] = "none" /\ dir = Root
  BY Registers DEF RegSteps, Whole, Trusted, ReliableInv, HalfMade, OnCourse
<1>2. Home(user, "df") = user /\ ~ Exists(user, "df")
  BY <1>1, UserHome DEF Exists
<1>. QED
  BY <1>1, <1>2 DEF Accepts, CreateFile, Apdu

\* The exchanges that a registration gives up on are all accepted.
LEMMA DueRegisterChecked ==
  ASSUME "refuse" \notin Faults, lost' = 0, Whole, DueInv,
         \/ CreateUserDf \/ CreateUserEfArr \/ SelectUserEfArr \/ AddRecordEfArr
         \/ SelectArrUse \/ ActivateArr \/ SelectDfUse \/ ActivateDf
  PROVE  /\ sw' = "ok" /\ pc \in RegSteps /\ UNCHANGED <<callVars, session>>
         /\ pc' \in RegisterSteps \/ (pc = "activate df" /\ pc' = "returned" /\ ret' = "OK")
         /\ pc' \in ArrSteps => \/ pc = "create arr" /\ Send(CreateFile("arr"))
                                \/ pc \in ArrSteps /\ UNCHANGED lcs
<1>. USE DEF RegisterSteps, RegSteps, ArrSteps
<1>1. StorageInv /\ ArrMade /\ OnCourse
  BY DEF Whole, Trusted, DueInv, OnCourse
<1>2. CASE CreateUserDf
  <2>1. pc = "create df" /\ Accepts(CreateFile("df"))
    BY <1>1, <1>2, NewDfAccepted DEF CreateUserDf, Checked
  <2>2. sw' = "ok" /\ pc' = "create arr" /\ UNCHANGED <<callVars, session>>
    BY <1>1, <1>2, <2>1, AcceptedGoesOn DEF CreateUserDf
  <2>. QED
    BY <2>1, <2>2
<1>3. CASE CreateUserEfArr
  <2>1. pc = "create arr"
    BY <1>3 DEF CreateUserEfArr, Checked
  <2>2. Accepts(CreateFile("arr"))
    BY <1>1, <2>1, RegisterAccepted
  <2>3. /\ sw' = "ok" /\ pc' = "select arr" /\ UNCHANGED <<callVars, session>>
        /\ Send(CreateFile("arr"))
    BY <1>1, <1>3, <2>2, AcceptedGoesOn DEF CreateUserEfArr
  <2>. QED
    BY <2>1, <2>3
<1>4. CASE SelectUserEfArr \/ SelectArrUse
  <2>1. pc \in {"select arr", "select arr use"}
    BY <1>4 DEF SelectUserEfArr, SelectArrUse, Checked
  <2>2. Accepts(UserFile("arr"))
    BY <1>1, <2>1, RegisterAccepted
  <2>3. /\ sw' = "ok" /\ pc' \in {"append record", "activate arr"}
        /\ UNCHANGED <<callVars, session>> /\ Send(UserFile("arr"))
    BY <1>1, <1>4, <2>2, AcceptedGoesOn DEF SelectUserEfArr, SelectArrUse
  <2>4. UNCHANGED lcs
    BY <2>1, <2>3, Halfway, UserHome, SelectExchange, NodeNames DEF Whole, Trusted
  <2>. QED
    BY <2>1, <2>3, <2>4
<1>5. CASE AddRecordEfArr
  <2>1. pc = "append record" /\ Send(Current("APPEND RECORD"))
    BY <1>5 DEF AddRecordEfArr
  <2>2. Accepts(Current("APPEND RECORD"))
    BY <1>1, <2>1, RegisterAccepted
  <2>3. sw' = "ok"
    BY <1>1, <2>1, <2>2, AcceptedPasses
  <2>4. pc' \in {"append record", "select arr use"} /\ UNCHANGED <<callVars, session>>
    BY <1>5, <2>3 DEF AddRecordEfArr, Goto
  <2>5. UNCHANGED lcs
    BY <1>5, <2>3, RecordAdded DEF Whole
  <2>. QED
    BY <2>1, <2>3, <2>4, <2>5
<1>6. CASE ActivateArr \/ ActivateDf
  <2>1. pc \in {"activate arr", "activate df"}
    BY <1>6 DEF ActivateArr, ActivateDf, Checked
  <2>2. Accepts(Current("ACTIVATE"))
    BY <1>1, <2>1, RegisterAccepted
  <2>3. CASE ActivateArr
    <3>1. sw' = "ok" /\ pc' = "create kf" /\ UNCHANGED <<callVars, session>>
      BY <1>1, <2>2, <2>3, AcceptedGoesOn DEF ActivateArr
    <3>. QED
      BY <2>1, <3>1
  <2>4. CASE ActivateDf
    <3>1. /\ pc = "activate df" /\ pc' = "returned" /\ ret' = "OK"
          /\ UNCHANGED <<callVars, session>>
      BY <1>1, <2>2, <2>4, AcceptedEnds DEF ActivateDf
    <3>2. sw' = "ok"
      BY <1>1, <2>2, <2>4, AcceptedGoesOn DEF ActivateDf
    <3>. QED
      BY <3>1, <3>2
  <2>. QED
    BY <1>6, <2>3, <2>4
<1>7. CASE SelectDfUse
  <2>1. pc = "select df use"
    BY <1>7 DEF SelectDfUse, Checked
  <2>2. Accepts(UserFile("df"))
    BY <1>1, <2>1, RegisterAccepted
  <2>3. sw' = "ok" /\ pc' = "activate df" /\ UNCHANGED <<callVars, session>>
    BY <1>1, <1>7, <2>2, AcceptedGoesOn DEF SelectDfUse
  <2>. QED
    BY <2>1, <2>3
<1>. QED
  BY <1>2, <1>3, <1>4, <1>5, <1>6, <1>7

\* So a registration ends with SEC_STORAGE_OK or with the process.
LEMMA DueRegister ==
  ASSUME "refuse" \notin Faults, lost' = 0, Whole, DueInv, RegisterStep
  PROVE  DueInv'
<1>1. CASE CreateKf \/ SelectKf \/ ChangeRefData \/ SelectKfUse \/ ActivateKf
  <2>1. /\ pc \in RegisterSteps /\ UNCHANGED <<callVars, session>>
        /\ pc' \in {"select kf", "change ref data", "select kf use", "activate kf",
                    "select df use"}
    BY <1>1 DEF CreateKf, SelectKf, ChangeRefData, SelectKfUse, ActivateKf, Ignored, Goto,
                RegisterSteps
  <2>2. session'
    BY <2>1 DEF DueInv, OnCourse, RegisterSteps
  <2>. QED
    BY <2>1, <2>2 DEF DueInv, OnCourse, StatusIsDue, ArrMade, ArrSteps, VerifiedSteps,
                      CreateSteps, FoundSteps
<1>2. CASE \/ CreateUserDf \/ CreateUserEfArr \/ SelectUserEfArr \/ AddRecordEfArr
           \/ SelectArrUse \/ ActivateArr \/ SelectDfUse \/ ActivateDf
  <2>1. /\ sw' = "ok" /\ pc \in RegSteps /\ UNCHANGED <<callVars, session>>
        /\ pc' \in RegisterSteps \/ (pc = "activate df" /\ pc' = "returned" /\ ret' = "OK")
        /\ pc' \in ArrSteps => \/ pc = "create arr" /\ Send(CreateFile("arr"))
                               \/ pc \in ArrSteps /\ UNCHANGED lcs
    BY <1>2, DueRegisterChecked
  <2>2. user \in Users /\ op = "register"
    BY <2>1, Registers DEF Whole
  <2>3. CASE pc' = "returned"
    <3>1. pc = "activate df" /\ ret' = "OK"
      BY <2>1, <2>3 DEF RegisterSteps
    <3>2. pc \in Steps \ {"select aid", "list first", "list next"}
      BY <3>1 DEF Steps
    <3>. QED
      BY <2>1, <2>2, <2>3, <3>1, <3>2, OkIsDue DEF Whole, Trusted, DueInv, FileOps
  <2>4. CASE pc' # "returned"
    <3>1. pc' \in RegisterSteps /\ user' = user
      BY <2>1, <2>4 DEF callVars
    <3>2. session'
      BY <2>1 DEF DueInv, OnCourse, RegSteps, RegisterSteps
    <3>3. ASSUME pc' \in ArrSteps PROVE lcs'[user]["arr"] = "init"
      <4>1. CASE pc = "create arr" /\ Send(CreateFile("arr"))
        BY <2>1, <4>1, FileMade, NodeNames DEF Whole
      <4>2. CASE pc \in ArrSteps /\ UNCHANGED lcs
        BY <4>2 DEF DueInv, OnCourse, ArrMade
      <4>. QED
        BY <2>1, <3>3, <4>1, <4>2
    <3>. QED
      BY <3>1, <3>2, <3>3 DEF DueInv, OnCourse, StatusIsDue, ArrMade, RegisterSteps,
                              VerifiedSteps, CreateSteps, FoundSteps
  <2>. QED
    BY <2>3, <2>4
<1>. QED
  BY <1>1, <1>2 DEF RegisterStep

(* The calls that have been let in.                                         *)

\* What is known at the steps after VERIFY.
LEMMA LetInOnCourse ==
  ASSUME Trusted, DueInv, pc \in VerifiedSteps
  PROVE  /\ user \in Users /\ dir = user /\ session /\ lcs[user]["df"] # "none"
         /\ pc \in Steps \ {"select aid", "list first", "list next"}
         /\ pc \notin CreateSteps => auth
         /\ pc \notin {"select df delete", "delete df"} => file \in Files /\ file \in Nodes
<1>1. user \in Users /\ dir = user
      /\ (pc \notin {"select df delete", "delete df"} => file \in Files)
  BY LetIn
<1>2. /\ session /\ lcs[user]["df"] # "none" /\ (pc \notin CreateSteps => auth)
  BY DEF DueInv, OnCourse, VerifiedSteps, CreateSteps
<1>3. pc \in Steps \ {"select aid", "list first", "list next"}
  BY DEF VerifiedSteps, CreateSteps, Steps
<1>. QED
  BY <1>1, <1>2, <1>3, NodeNames

\* A SELECT of a file that is there keeps the key.
LEMMA SelectOnCourse ==
  ASSUME "refuse" \notin Faults, lost' = 0, Trusted, DueInv, pc \in VerifiedSteps,
         NEW n \in Nodes, lcs[user][n] # "none", Send(UserFile(n))
  PROVE  sw' = "ok" /\ UNCHANGED lcs /\ (auth => auth')
<1>1. user \in Users /\ dir = user
  BY LetIn
<1>2. /\ sw' = "ok" /\ UNCHANGED lcs /\ dir' = dir
  BY <1>1, SelectExchange, UserHome DEF Trusted
<1>3. auth => auth'
  BY <1>2, KeyStays DEF UserFile
<1>. QED
  BY <1>2, <1>3

\* DELETE of the current file by a call that has the key.
LEMMA DeletionAccepted ==
  ASSUME Trusted, DueInv, pc \in {"delete df", "delete bf"}
  PROVE  Accepts(Current("DELETE"))
<1>1. dir = user /\ user \in Users /\ auth /\ lcs[user]["df"] # "none"
  BY LetInOnCourse DEF VerifiedSteps, CreateSteps
<1>2. node = IF pc = "delete df" THEN "df" ELSE file
  BY DEF Trusted, ReliableInv, Located
<1>3. lcs[user][node] # "none"
  BY <1>1, <1>2 DEF DueInv, OnCourse, FoundSteps
<1>. QED
  BY <1>1, <1>3 DEF Accepts, Current, Apdu, CurrentIs, Granted

\* unregister_user_impl.
LEMMA DueUnregister ==
  ASSUME "refuse" \notin Faults, lost' = 0, Trusted, DueInv, SelectDfDelete \/ DeleteUserDf
  PROVE  DueInv'
<1>1. CASE SelectDfDelete
  <2>1. /\ pc = "select df delete" /\ Send(UserFile("df")) /\ UNCHANGED <<callVars, session>>
        /\ pc \in VerifiedSteps
    BY <1>1 DEF SelectDfDelete, Checked, VerifiedSteps
  <2>2. session /\ lcs[user]["df"] # "none" /\ auth
    BY <2>1, LetInOnCourse DEF CreateSteps
  <2>3. sw' = "ok" /\ UNCHANGED lcs /\ auth'
    BY <2>1, <2>2, SelectOnCourse, NodeNames
  <2>4. pc' = "delete df"
    BY <1>1, <2>3 DEF SelectDfDelete, Checked, Proceed, Goto
  <2>. QED
    BY <2>1, <2>2, <2>3, <2>4 DEF DueInv, OnCourse, StatusIsDue, ArrMade, ArrSteps,
                                  VerifiedSteps, CreateSteps, FoundSteps, callVars
<1>2. CASE DeleteUserDf
  <2>1. pc = "delete df" /\ pc \in VerifiedSteps
    BY <1>2 DEF DeleteUserDf, Checked, VerifiedSteps
  <2>2. op = "unregister" /\ Accepts(Current("DELETE"))
        /\ pc \in Steps \ {"select aid", "list first", "list next"}
    BY <2>1, DeletionAccepted, LetInOnCourse DEF Trusted, ReliableInv, Calling
  <2>3. pc' = "returned" /\ ret' = "OK" /\ UNCHANGED <<callVars, session>>
    BY <1>2, <2>2, AcceptedEnds DEF DeleteUserDf, Trusted
  <2>. QED
    BY <2>2, <2>3, OkIsDue DEF Trusted, DueInv, FileOps
<1>. QED
  BY <1>1, <1>2

\* delete_bf_file_impl.
LEMMA DueDelete ==
  ASSUME "refuse" \notin Faults, lost' = 0, Trusted, DueInv, SelectBfDelete \/ DeleteBf
  PROVE  DueInv'
<1>1. CASE SelectBfDelete
  <2>1. /\ pc = "select bf delete" /\ Send(UserFile(file)) /\ UNCHANGED <<callVars, session>>
        /\ pc \in VerifiedSteps /\ pc' = "delete bf"
    BY <1>1 DEF SelectBfDelete, Ignored, VerifiedSteps, Goto
  <2>2. session /\ lcs[user]["df"] # "none" /\ auth /\ file \in Nodes
    BY <2>1, LetInOnCourse DEF CreateSteps
  <2>3. lcs[user][file] # "none"
    BY <2>1 DEF DueInv, OnCourse, FoundSteps
  <2>4. UNCHANGED lcs /\ auth'
    BY <2>1, <2>2, <2>3, SelectOnCourse
  <2>. QED
    BY <2>1, <2>2, <2>3, <2>4 DEF DueInv, OnCourse, StatusIsDue, ArrMade, ArrSteps,
                                  VerifiedSteps, CreateSteps, FoundSteps, callVars
<1>2. CASE DeleteBf
  <2>1. pc = "delete bf" /\ pc \in VerifiedSteps
    BY <1>2 DEF DeleteBf, Checked, VerifiedSteps
  <2>2. file \in Files /\ Accepts(Current("DELETE"))
        /\ pc \in Steps \ {"select aid", "list first", "list next"}
    BY <2>1, DeletionAccepted, LetInOnCourse
  <2>3. pc' = "returned" /\ ret' = "OK" /\ UNCHANGED <<callVars, session>>
    BY <1>2, <2>2, AcceptedEnds DEF DeleteBf, Trusted
  <2>. QED
    BY <2>2, <2>3, OkIsDue DEF Trusted, DueInv
<1>. QED
  BY <1>1, <1>2

\* do_read_data_from_bf_file.
LEMMA DueRead ==
  ASSUME "refuse" \notin Faults, lost' = 0, Trusted, DueInv, SelectBfRead \/ ReadBf
  PROVE  DueInv'
<1>1. CASE SelectBfRead
  <2>. DEFINE c == Apdu("SELECT FCP", user, file, None)
  <2>1. pc = "select bf read" /\ Send(c) /\ UNCHANGED <<callVars, session>>
        /\ pc \in VerifiedSteps
    BY <1>1 DEF SelectBfRead, VerifiedSteps
  <2>2. /\ session /\ lcs[user]["df"] # "none" /\ auth /\ file \in Nodes /\ file \in Files
        /\ user \in Users /\ dir = user
    BY <2>1, LetInOnCourse DEF CreateSteps
  <2>3. lcs[user][file] # "none"
    BY <2>1 DEF DueInv, OnCourse, FoundSteps
  <2>4. Home(user, file) = user /\ Exists(user, file)
    BY <2>2, <2>3 DEF Home, Exists
  <2>5. Accepts(c)
    BY <2>2, <2>4 DEF Accepts, Apdu
  <2>6. sw' = "ok"
    BY <2>1, <2>5, AcceptedPasses DEF Trusted
  <2>7. PICK x \in Answers(c) : Accepts(c) /\ Execute(c, x) /\ payload' = x
    BY <2>1, <2>6, CommandDone DEF Trusted
  <2>8. UNCHANGED lcs /\ dir' = Home(user, file) /\ payload' = file
    <3>1. payload' = file
      BY <2>7 DEF Answers, Apdu
    <3>2. UNCHANGED lcs
      BY <2>7, SelectDone
    <3>3. dir' = Home(user, file)
      BY <2>7, SelectDone
    <3>. QED
      BY <3>1, <3>2, <3>3
  <2>9. auth'
    <3>1. dir' = dir
      BY <2>2, <2>4, <2>8
    <3>. QED
      BY <2>1, <2>2, <3>1, KeyStays
  <2>10. pc' = "read binary"
    <3>1. len' = NChunks /\ Proceed(IF len' = 0 THEN "returned" ELSE "read binary")
      BY <1>1, <2>2, <2>6, <2>8 DEF SelectBfRead
    <3>2. len' # 0
      BY <3>1, ElementAssumption
    <3>. QED
      BY <3>1, <3>2 DEF Proceed, Goto
  <2>. QED
    BY <2>1, <2>2, <2>3, <2>8, <2>9, <2>10
       DEF DueInv, OnCourse, StatusIsDue, ArrMade, ArrSteps, VerifiedSteps, CreateSteps,
           FoundSteps, callVars
<1>2. CASE ReadBf
  <2>. DEFINE c == Apdu("READ BINARY", user, file, i + 1)
  <2>1. pc = "read binary" /\ Send(c) /\ UNCHANGED <<callVars, session>>
        /\ pc \in VerifiedSteps
    BY <1>2 DEF ReadBf, VerifiedSteps
  <2>2. /\ session /\ lcs[user]["df"] # "none" /\ auth /\ file \in Files
        /\ user \in Users /\ dir = user
        /\ pc \in Steps \ {"select aid", "list first", "list next"}
    BY <2>1, LetInOnCourse DEF CreateSteps
  <2>3. lcs[user][file] # "none" /\ node = file
    BY <2>1 DEF DueInv, OnCourse, FoundSteps, Trusted, ReliableInv, Located
  <2>4. Accepts(c)
    BY <2>2, <2>3 DEF Accepts, Apdu, CurrentIs, Granted
  <2>5. sw' = "ok"
    BY <2>1, <2>4, AcceptedPasses DEF Trusted
  <2>6. PICK x \in Answers(c) : Accepts(c) /\ Execute(c, x) /\ payload' = x
    BY <2>1, <2>5, CommandDone DEF Trusted
  <2>7. UNCHANGED lcs /\ dir' = dir
    BY <2>6, ReadDone
  <2>8. auth'
    BY <2>1, <2>2, <2>7, KeyStays
  <2>9. Proceed(IF i + 1 < len THEN "read binary" ELSE "returned")
    BY <1>2, <2>5 DEF ReadBf
  <2>10. pc' = "read binary" \/ (pc' = "returned" /\ ret' = "OK")
    BY <2>9 DEF Proceed, Goto, Return
  <2>11. CASE pc' = "read binary"
    BY <2>1, <2>2, <2>3, <2>7, <2>8, <2>11
       DEF DueInv, OnCourse, StatusIsDue, ArrMade, ArrSteps, VerifiedSteps, CreateSteps,
           FoundSteps, callVars
  <2>12. CASE pc' = "returned" /\ ret' = "OK"
    BY <2>1, <2>2, <2>12, OkIsDue DEF Trusted, DueInv
  <2>. QED
    BY <2>10, <2>11, <2>12
<1>. QED
  BY <1>1, <1>2

\* The element takes CREATE of the file.
LEMMA NewFileAccepted ==
  ASSUME Trusted, DueInv, pc = "create bf"
  PROVE  Accepts(CreateFile(file))
<1>1. /\ user \in Users /\ dir = user /\ auth /\ lcs[user]["df"] # "none"
      /\ file \in Files /\ file \notin {"df", "arr", "kf"}
  BY LetInOnCourse, Creating DEF VerifiedSteps, CreateSteps
<1>2. lcs[user][file] = "none"
  BY DEF DueInv, OnCourse
<1>3. /\ Home(user, file) = user /\ ~ Exists(user, file) /\ Exists(user, "df")
      /\ Granted("df")
  BY <1>1, <1>2 DEF Home, Exists, Granted
<1>. QED
  BY <1>1, <1>3 DEF Accepts, CreateFile, Apdu

\* create_bf_file_impl.
LEMMA DueCreate ==
  ASSUME "refuse" \notin Faults, lost' = 0, Whole, DueInv,
         CreateBf \/ SelectBfWrite \/ WriteBf \/ SelectBfUse \/ ActivateBf
  PROVE  DueInv'
<1>1. /\ pc \in {"create bf"} \cup CreateSteps /\ pc \in VerifiedSteps
      /\ UNCHANGED <<callVars, session>> /\ Trusted
  BY DEF CreateBf, SelectBfWrite, WriteBf, SelectBfUse, ActivateBf, Checked, CreateSteps,
         VerifiedSteps, Whole
<1>2. /\ user \in Users /\ session /\ lcs[user]["df"] # "none" /\ file \in Files
      /\ file # "df" /\ pc \in Steps \ {"select aid", "list first", "list next"}
  BY <1>1, LetInOnCourse, Creating DEF Whole, VerifiedSteps, CreateSteps
<1>3. ASSUME pc' \in CreateSteps, lcs'[user]["df"] # "none"
      PROVE  DueInv'
  BY <1>1, <1>2, <1>3 DEF DueInv, OnCourse, StatusIsDue, ArrMade, ArrSteps, VerifiedSteps,
                          CreateSteps, FoundSteps, callVars
<1>4. CASE CreateBf
  <2>1. pc = "create bf"
    BY <1>4 DEF CreateBf, Checked
  <2>2. sw' = "ok" /\ pc' = "select bf write"
    BY <1>1, <1>4, <2>1, NewFileAccepted, AcceptedGoesOn DEF CreateBf, Trusted
  <2>3. \A k \in Nodes : lcs'[user][k] = IF k = file THEN "init" ELSE lcs[user][k]
    BY <1>1, <1>4, <2>2, BfCreated
  <2>4. lcs'[user]["df"] # "none"
    BY <1>2, <2>3, NodeNames
  <2>. QED
    BY <1>3, <2>2, <2>4 DEF CreateSteps
<1>5. CASE SelectBfWrite \/ SelectBfUse
  <2>1. pc \in {"select bf write", "select bf use"}
    BY <1>5 DEF SelectBfWrite, SelectBfUse, Checked
  <2>2. Accepts(UserFile(file))
    BY <2>1, CreationAccepted DEF CreateSteps
  <2>3. pc' \in {"update binary", "activate bf"}
    BY <1>1, <1>5, <2>2, AcceptedGoesOn DEF SelectBfWrite, SelectBfUse, Trusted
  <2>4. UNCHANGED lcs
    BY <1>5, QuietFilesKept
  <2>. QED
    BY <1>2, <1>3, <2>3, <2>4 DEF CreateSteps
<1>6. CASE WriteBf
  <2>1. pc = "update binary" /\ Send(Apdu("UPDATE BINARY", user, file, <<i + 1, val>>))
    BY <1>6 DEF WriteBf
  <2>2. Accepts(Apdu("UPDATE BINARY", user, file, <<i + 1, val>>))
    BY <2>1, CreationAccepted DEF CreateSteps
  <2>3. sw' = "ok"
    BY <1>1, <2>1, <2>2, AcceptedPasses DEF Trusted
  <2>4. pc' \in CreateSteps
    BY <1>6, <2>3 DEF WriteBf, Goto, CreateSteps
  <2>5. UNCHANGED lcs
    BY <1>1, <1>6, <2>3, ChunkWritten
  <2>. QED
    BY <1>2, <1>3, <2>4, <2>5
<1>7. CASE ActivateBf
  <2>1. pc = "activate bf"
    BY <1>7 DEF ActivateBf, Checked
  <2>2. Accepts(Current("ACTIVATE"))
    BY <2>1, CreationAccepted DEF CreateSteps
  <2>3. pc' = "returned" /\ ret' = "OK"
    BY <1>1, <1>7, <2>2, AcceptedEnds DEF ActivateBf, Trusted
  <2>. QED
    BY <1>1, <1>2, <2>3, OkIsDue DEF Trusted, DueInv
<1>. QED
  BY <1>4, <1>5, <1>6, <1>7

\* A list ends with SEC_STORAGE_OK.
LEMMA DueList ==
  ASSUME Trusted, Gathering, DueInv, ListFiles
  PROVE  DueInv'
<1>1. /\ pc \in {"list first", "list next"} /\ UNCHANGED <<callVars, session>>
      /\ pc' = "list next" \/ (pc' = "returned" /\ ret' = "OK")
  BY DEF ListFiles, Goto, Return
<1>2. session
  BY <1>1 DEF DueInv, OnCourse
<1>3. op = "list_users" \/ (op = "list_files" /\ user \in Users)
  BY <1>1 DEF Gathering
<1>4. user \in Users => user # BadUser
  BY StorageAssumption
<1>. QED
  BY <1>1, <1>2, <1>3, <1>4
     DEF DueInv, OnCourse, StatusIsDue, ArrMade, ArrSteps, VerifiedSteps, CreateSteps,
         FoundSteps, callVars, FileOps, PasswordOps, Statuses

-----------------------------------------------------------------------------
\* Every step keeps the invariant.
LEMMA DueNext ==
  ASSUME "refuse" \notin Faults, lost' = 0, Whole, Gathering, DueInv, Next
  PROVE  DueInv'
<1>1. Trusted
  BY DEF Whole
<1>2. CASE \/ Call \/ CallerResumes \/ OpenChannel \/ CloseChannel \/ Crash
           \/ ReadNullSize \/ FreeUninitialised
  BY <1>2, DueBetween
<1>3. CASE SelectCryptoAid \/ CheckUserDf \/ OpenUserDf \/ CheckBf \/ VerifyPin
  BY <1>1, <1>3, DueSelectAid, DueCheckUserDf, DueOpenUserDf, DueCheckBf, DueVerify
<1>4. CASE RegisterStep
  BY <1>4, DueRegister
<1>5. CASE CreateBf \/ SelectBfWrite \/ WriteBf \/ SelectBfUse \/ ActivateBf
  BY <1>5, DueCreate
<1>6. CASE SelectDfDelete \/ DeleteUserDf \/ SelectBfDelete \/ DeleteBf
  BY <1>1, <1>6, DueUnregister, DueDelete
<1>7. CASE SelectBfRead \/ ReadBf \/ ListFiles
  BY <1>1, <1>7, DueRead, DueList
<1>. QED
  BY <1>2, <1>3, <1>4, <1>5, <1>6, <1>7 DEF Next, ClientStep, FileStep

\* A step that changes nothing keeps it.
LEMMA DueStutter == ASSUME DueInv, UNCHANGED vars PROVE DueInv'
<1>1. UNCHANGED <<lcs, pin, dir, auth, pc, op, user, file, pwd, session, exists, ret>>
  BY DEF vars, cardVars, fileVars, selectVars, clientVars, callVars, workVars
<1>2. OnCourse'
  BY <1>1 DEF DueInv, OnCourse, ArrMade
<1>3. StatusIsDue'
  BY <1>1 DEF DueInv, StatusIsDue, FileIsMissing
<1>. QED
  BY <1>2, <1>3 DEF DueInv

\* Initially no call is under way.
LEMMA DueInit == Init => DueInv
BY DEF Init, ClientInit, DueInv, OnCourse, StatusIsDue, ArrMade, ArrSteps, VerifiedSteps,
       CreateSteps, FoundSteps

\* Where the client stands, as long as no answer has been lost.
THEOREM DueInvariant ==
  ASSUME "refuse" \notin Faults
  PROVE  Spec => [](lost = 0 => DueInv)
<1>1. ASSUME StorageInv, lost = 0 => ReliableInv, lost = 0 => CompleteInv,
             lost = 0 => ResultsInv, lost = 0 => DueInv, [Next]_vars
      PROVE  (lost = 0 => DueInv)'
  <2>1. SUFFICES ASSUME lost' = 0 PROVE DueInv'
    OBVIOUS
  <2>2. lost = 0
    BY <1>1, <2>1, LostStays
  <2>3. Whole /\ Gathering /\ DueInv
    BY <1>1, <2>2 DEF Whole, Trusted, ResultsInv
  <2>. QED
    BY <1>1, <2>1, <2>3, DueNext, DueStutter
<1>. QED
  BY <1>1, DueInit, StorageInvariant, ReliableInvariant, CompleteInvariant, ResultsInvariant,
     PTL DEF Spec

\* No bad argument passes, and every error that a call returns is that of an
\* argument, of a channel that is not open, or of what the element holds: while
\* no answer is lost and nothing refused without a cause, whatever a process that
\* died has left half made, no call ends with SEC_STORAGE_UNKNOWN_ERROR.
THEOREM StatusesAreDue ==
  ASSUME MaxLost = 0, "refuse" \notin Faults
  PROVE  Spec => []StatusIsDue
<1>1. StorageInv /\ (lost = 0 => DueInv) => StatusIsDue
  BY NoneLost DEF DueInv
<1>. QED
  BY <1>1, DueInvariant, StorageInvariant, PTL
=============================================================================
