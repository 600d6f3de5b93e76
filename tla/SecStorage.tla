----------------------------- MODULE SecStorage -----------------------------
(***************************************************************************)
(* The storage API of src/src/sec_storage.c on top of the commands of      *)
(* src/src/at_commands.c.  One action is one APDU exchange with the secure *)
(* element together with the local code that runs up to the next exchange  *)
(* or to the return of the call: between two exchanges the client is a     *)
(* sequential program, and what interleaves with it are failures.          *)
(*                                                                         *)
(* The status word every caller tests is the one in the static apdu_rsp,   *)
(* and an answer that is lost, is an AT error or cannot be parsed leaves   *)
(* there the status word of an EARLIER command (get_cgla_response returns  *)
(* before clear_rsp, and its callers ignore what it returns).              *)
(***************************************************************************)
EXTENDS SecureElement

CONSTANTS BadUser,      \* a user id is_user_id_ok refuses
          BadFile,      \* a file id is_file_id_ok refuses
          BadPassword,  \* a password is_password_size_ok refuses
          Faults,       \* what may go wrong besides: "refuse", "crash"
          MaxLost       \* bound on the answers that are lost in a behaviour

ASSUME StorageAssumption ==
  /\ Faults \subseteq {"refuse", "crash"}
  /\ MaxLost \in Nat
  /\ BadUser \notin Users \cup Nodes \cup {Root}
  /\ BadFile \notin Nodes \cup Users \cup {None}
  /\ BadPassword \notin Passwords \cup {None}
  /\ None \notin {BadUser, Root}

VARIABLES pc,        \* the exchange the client is about to make
          op, user, file, pwd, val,  \* the call and its arguments
          session,   \* crypto_app_session_id # -1
          sw,        \* status word held by apdu_rsp
          payload,   \* data held by apdu_rsp
          exists,    \* user_exist_flag, file_exist_flag, *reg_flag
          i,         \* record or chunk the loop is at
          len,       \* chunks of the file being read
          buf,       \* what read_bf_file has copied out
          found,     \* ids a list operation has stored
          repeated,  \* it has stored one of them twice
          ret,       \* status of the call
          lost       \* answers lost so far

callVars == <<op, user, file, pwd, val>>
rspVars == <<sw, payload>>
workVars == <<exists, i, len, buf, found, repeated>>
clientVars == <<pc, callVars, session, rspVars, workVars, ret>>
vars == <<cardVars, clientVars, lost>>

Ops == {"register", "unregister", "is_registered", "select_user", "list_users",
        "create_bf", "read_bf", "delete_bf", "list_files"}
FileOps == {"create_bf", "read_bf", "delete_bf"}
PasswordOps == FileOps \cup {"register", "unregister"}

\* The exchanges, in the order the calls make them.
Steps == {"select aid", "check df",
          "create df", "create arr", "select arr", "append record",
          "select arr use", "activate arr",
          "create kf", "select kf", "change ref data",
          "select kf use", "activate kf", "select df use", "activate df",
          "open df", "check bf", "verify",
          "select df delete", "delete df",
          "create bf", "select bf write", "update binary",
          "select bf use", "activate bf",
          "select bf read", "read binary",
          "select bf delete", "delete bf",
          "list first", "list next"}

Statuses == {"OK", "WRONG_USER_ID", "WRONG_FILE_ID", "WRONG_PASSWORD_SIZE",
             "AID_SELECT_ERROR", "USER_IS_NOT_REGISTERED",
             "USER_IS_ALREADY_REGISTERED", "FILE_IS_NOT_CREATED",
             "FILE_IS_ALREADY_CREATED", "PASSWORD_VERIF_ERROR", "UNKNOWN_ERROR"}
NoStatus == "none"   \* the call has not returned

TypeOK ==
  /\ CardTypeOK
  /\ pc \in Steps \cup {"idle", "returned"}
  /\ op \in Ops \cup {"none"}
  /\ user \in Users \cup {BadUser} /\ file \in Files \cup {BadFile}
  /\ pwd \in Passwords \cup {BadPassword} /\ val \in Values \cup {None}
  /\ session \in BOOLEAN
  /\ sw \in Status /\ payload \in Payloads
  /\ exists \in BOOLEAN
  /\ i \in 0..NRecords + NChunks /\ len \in 0..NChunks
  /\ buf \in [1..NChunks -> Payloads]
  /\ found \subseteq Users \cup Nodes /\ repeated \in BOOLEAN
  /\ ret \in Statuses \cup {NoStatus}
  /\ lost \in 0..MaxLost

\* A process that has just started: apdu_rsp is static, hence zero, which is
\* none of the status words the code tests for.
ClientInit ==
  /\ pc = "idle" /\ op = "none"
  /\ user = BadUser /\ file = BadFile /\ pwd = BadPassword /\ val = None
  /\ session = FALSE /\ sw = "refused" /\ payload = None
  /\ exists = FALSE /\ i = 0 /\ len = 0 /\ buf = Blank
  /\ found = {} /\ repeated = FALSE /\ ret = NoStatus
  /\ lost = 0

Init == CardInit /\ ClientInit

\* No call under way: what the last one left in its locals is gone.
Idle ==
  /\ pc' = "idle" /\ op' = "none"
  /\ user' = BadUser /\ file' = BadFile /\ pwd' = BadPassword /\ val' = None
  /\ exists' = FALSE /\ i' = 0 /\ len' = 0 /\ buf' = Blank
  /\ found' = {} /\ repeated' = FALSE /\ ret' = NoStatus

\* The process dies and is started again; the element keeps its state.
Restart ==
  /\ Idle
  /\ session' = FALSE /\ sw' = "refused" /\ payload' = None
  /\ UNCHANGED cardVars

-----------------------------------------------------------------------------
(* One exchange: do_send_apdu, receive_response_from_cgla.                  *)

Answered(c) ==
  /\ \E x \in Answers(c) :
       Execute(c, x) /\ sw' = StatusOf(c) /\ payload' = x
  /\ UNCHANGED lost

\* The element answers with an error the model gives no cause for (memory
\* full, wrong state): nothing is changed.
Refused ==
  /\ "refuse" \in Faults
  /\ sw' = "refused" /\ payload' = None
  /\ UNCHANGED <<cardVars, lost>>

Lose == lost < MaxLost /\ lost' = lost + 1

\* No parsable answer arrives, whether or not the command was carried out:
\* apdu_rsp keeps what an earlier command left there.
Lost(c) ==
  /\ Lose
  /\ UNCHANGED rspVars
  /\ UNCHANGED cardVars \/ \E x \in Answers(c) : Execute(c, x)

Send(c) == Answered(c) \/ Refused \/ Lost(c)

Return(status) == pc' = "returned" /\ ret' = status
Goto(step) == pc' = step /\ UNCHANGED ret
Proceed(next) == IF next = "returned" THEN Return("OK") ELSE Goto(next)

\* An exchange the call gives up on with SEC_STORAGE_UNKNOWN_ERROR unless the
\* status word in apdu_rsp is then 9000.
Checked(step, c, next) ==
  /\ pc = step
  /\ Send(c)
  /\ IF sw' = "ok" THEN Proceed(next) ELSE Return("UNKNOWN_ERROR")
  /\ UNCHANGED <<callVars, session, workVars>>

UserFile(n) == Apdu("SELECT", user, n, None)
CreateFile(n) == Apdu("CREATE", user, n, None)
Current(ins) == Apdu(ins, user, "df", None)

-----------------------------------------------------------------------------
(* The calls.                                                               *)

\* The caller's arguments; those an operation does not take stay at a fixed
\* value.  Three operations pass PASSWORD_SIZE_MAX as the size.
Arguments(o, u, f, p, v) ==
  /\ o = "list_users" => u = BadUser
  /\ o \notin FileOps => f = BadFile
  /\ o \notin PasswordOps => p = BadPassword
  /\ (o = "create_bf") = (v \in Values)

Call ==
  /\ pc = "idle"
  /\ \E o \in Ops, u \in Users \cup {BadUser}, f \in Files \cup {BadFile},
        p \in Passwords \cup {BadPassword}, v \in Values \cup {None} :
       /\ Arguments(o, u, f, p, v)
       /\ op' = o /\ user' = u /\ file' = f /\ pwd' = p /\ val' = v
  /\ pc' = "select aid"
  /\ UNCHANGED <<cardVars, session, rspVars, workVars, ret, lost>>

\* The caller has taken the status and the results.
CallerResumes ==
  /\ pc = "returned"
  /\ Idle
  /\ UNCHANGED <<cardVars, session, rspVars, lost>>

\* open_crypto_lchannel, close_crypto_lchannel between two calls.
OpenChannel ==
  /\ pc = "idle" /\ ~ session
  /\ session' = TRUE
  /\ dir' = Root /\ node' = "df" /\ auth' = FALSE /\ unlisted' = {}
  /\ UNCHANGED <<fileVars, pc, callVars, rspVars, workVars, ret, lost>>

CloseChannel ==
  /\ pc = "idle" /\ session
  /\ session' = FALSE
  /\ UNCHANGED <<cardVars, pc, callVars, rspVars, workVars, ret, lost>>

\* The process is killed between two exchanges and started again.
Crash ==
  /\ "crash" \in Faults
  /\ pc # "idle"
  /\ Restart
  /\ UNCHANGED lost

AfterAid ==
  IF op = "list_users" THEN Goto("list first")
  ELSE IF user = BadUser THEN Return("WRONG_USER_ID")
  ELSE IF op \in PasswordOps /\ pwd = BadPassword THEN Return("WRONG_PASSWORD_SIZE")
  ELSE Goto("check df")

\* do_select_crypto_aid looks at the status of read_message and never at the
\* answer; it leaves apdu_rsp alone.
SelectCryptoAid ==
  /\ pc = "select aid"
  /\ LET c == Current("SELECT AID")
         Carried == \E x \in Answers(c) : Execute(c, x)
     IN \/ /\ ~ session
           /\ Return("AID_SELECT_ERROR") /\ UNCHANGED <<cardVars, lost>>
        \/ /\ session
           /\ Carried /\ AfterAid /\ UNCHANGED lost
        \/ /\ session /\ "refuse" \in Faults
           /\ UNCHANGED cardVars /\ AfterAid /\ UNCHANGED lost
        \/ /\ session /\ Lose
           /\ UNCHANGED cardVars \/ Carried
           /\ AfterAid \/ Return("AID_SELECT_ERROR")
  /\ UNCHANGED <<callVars, session, rspVars, workVars>>

\* do_check_fid_existence of the user's DF, and what each call makes of it.
CheckUserDf ==
  /\ pc = "check df"
  /\ Send(UserFile("df"))
  /\ exists' = (sw' = "ok")
  /\ CASE sw' = "refused" -> Return("UNKNOWN_ERROR")
       [] sw' # "refused" /\ op = "is_registered" -> Return("OK")
       [] sw' = "ok" /\ op = "register" -> Return("USER_IS_ALREADY_REGISTERED")
       [] sw' = "ok" /\ op = "unregister" -> Goto("verify")
       [] sw' = "ok" /\ op \notin {"is_registered", "register", "unregister"} ->
            Goto("open df")
       [] sw' = "not found" /\ op = "register" -> Goto("create df")
       [] sw' = "not found" /\ op \notin {"is_registered", "register"} ->
            Return("USER_IS_NOT_REGISTERED")
  /\ UNCHANGED <<callVars, session, i, len, buf, found, repeated>>

(* register_new_user_impl *)

CreateUserDf == Checked("create df", CreateFile("df"), "create arr")
CreateUserEfArr == Checked("create arr", CreateFile("arr"), "select arr")
SelectUserEfArr == Checked("select arr", UserFile("arr"), "append record")

\* Mutant: one record more than a user has.
OneRecordMore ==
  /\ pc = "append record"
  /\ Send(Current("APPEND RECORD"))
  /\ i' = IF sw' = "ok" /\ i < NRecords THEN i + 1 ELSE 0
  /\ IF sw' # "ok" THEN Return("UNKNOWN_ERROR")
     ELSE Goto(IF i < NRecords THEN "append record" ELSE "select arr use")
  /\ UNCHANGED <<callVars, session, exists, len, buf, found, repeated>>

AddRecordEfArr ==
  /\ pc = "append record"
  /\ Send(Current("APPEND RECORD"))
  /\ i' = IF sw' = "ok" /\ i + 1 < NRecords THEN i + 1 ELSE 0
  /\ IF sw' # "ok" THEN Return("UNKNOWN_ERROR")
     ELSE Goto(IF i + 1 < NRecords THEN "append record" ELSE "select arr use")
  /\ UNCHANGED <<callVars, session, exists, len, buf, found, repeated>>

\* Mutant: set_file_lcs_to_use is given user_df_fid.
SelectDfAsArr == Checked("select arr use", UserFile("df"), "activate arr")
SelectArrUse == Checked("select arr use", UserFile("arr"), "activate arr")
ActivateArr == Checked("activate arr", Current("ACTIVATE"), "create kf")

\* create_kf_pin_file returns 0 whatever happens: a failure only skips the
\* rest of do_create_kf_file, or of set_file_lcs_to_use.
Ignored(step, c, next, skip) ==
  /\ pc = step
  /\ Send(c)
  /\ Goto(IF sw' = "ok" THEN next ELSE skip)
  /\ UNCHANGED <<callVars, session, workVars>>

\* Mutant: do_create_kf_file is not called.
KfForgotten ==
  /\ pc = "create kf" /\ Goto("select kf use")
  /\ UNCHANGED <<cardVars, callVars, session, rspVars, workVars, lost>>
CreateKf == Ignored("create kf", CreateFile("kf"), "select kf", "select kf use")
SelectKf == Ignored("select kf", UserFile("kf"), "change ref data", "select kf use")
ChangeRefData ==
  Ignored("change ref data", Apdu("CHANGE REFERENCE DATA", user, "kf", pwd),
          "select kf use", "select kf use")
SelectKfUse == Ignored("select kf use", UserFile("kf"), "activate kf", "select df use")
ActivateKf == Ignored("activate kf", Current("ACTIVATE"), "select df use", "select df use")

SelectDfUse == Checked("select df use", UserFile("df"), "activate df")
ActivateDf == Checked("activate df", Current("ACTIVATE"), "returned")

(* select_user_file_helper, after the user has been found. *)

OpenUserDf ==
  /\ pc = "open df"
  /\ Send(UserFile("df"))
  /\ CASE sw' # "ok" -> Return("UNKNOWN_ERROR")
       [] sw' = "ok" /\ op = "select_user" -> Return("OK")
       [] sw' = "ok" /\ op = "list_files" -> Goto("list first")
       [] sw' = "ok" /\ op \in FileOps ->
            IF file = BadFile THEN Return("WRONG_FILE_ID") ELSE Goto("check bf")
  /\ UNCHANGED <<callVars, session, workVars>>

CheckBf ==
  /\ pc = "check bf"
  /\ Send(UserFile(file))
  /\ exists' = (sw' = "ok")
  /\ IF sw' = "refused" THEN Return("UNKNOWN_ERROR") ELSE Goto("verify")
  /\ UNCHANGED <<callVars, session, i, len, buf, found, repeated>>

\* A missing file is reported as the number 1, SEC_STORAGE_WRONG_USER_ID.
AfterVerify ==
  CASE op = "unregister" -> Goto("select df delete")
    [] op = "create_bf" ->
         IF exists THEN Return("FILE_IS_ALREADY_CREATED") ELSE Goto("create bf")
    [] op = "read_bf" ->
         IF exists THEN Goto("select bf read") ELSE Return("WRONG_USER_ID")
    [] op = "delete_bf" ->
         IF exists THEN Goto("select bf delete") ELSE Return("WRONG_USER_ID")

\* Mutant: the result of do_verify_pin is not looked at.
VerifyUnchecked ==
  /\ pc = "verify"
  /\ Send(Apdu("VERIFY", user, "kf", pwd))
  /\ AfterVerify
  /\ UNCHANGED <<callVars, session, workVars>>

\* do_verify_pin.
VerifyPin ==
  /\ pc = "verify"
  /\ Send(Apdu("VERIFY", user, "kf", pwd))
  /\ IF sw' = "ok" THEN AfterVerify ELSE Return("PASSWORD_VERIF_ERROR")
  /\ UNCHANGED <<callVars, session, workVars>>

(* unregister_user_impl *)

SelectDfDelete == Checked("select df delete", UserFile("df"), "delete df")
DeleteUserDf == Checked("delete df", Current("DELETE"), "returned")

(* create_bf_file_impl *)

CreateBf == Checked("create bf", CreateFile(file), "select bf write")
SelectBfWrite == Checked("select bf write", UserFile(file), "update binary")

\* Mutant: the loop ends one chunk early.
WriteBfShort ==
  /\ pc = "update binary"
  /\ Send(Apdu("UPDATE BINARY", user, file, <<i + 1, val>>))
  /\ i' = IF sw' = "ok" /\ i + 2 < NChunks THEN i + 1 ELSE 0
  /\ IF sw' # "ok" THEN Return("UNKNOWN_ERROR")
     ELSE Goto(IF i + 2 < NChunks THEN "update binary" ELSE "select bf use")
  /\ UNCHANGED <<callVars, session, exists, len, buf, found, repeated>>

WriteBf ==
  /\ pc = "update binary"
  /\ Send(Apdu("UPDATE BINARY", user, file, <<i + 1, val>>))
  /\ i' = IF sw' = "ok" /\ i + 1 < NChunks THEN i + 1 ELSE 0
  /\ IF sw' # "ok" THEN Return("UNKNOWN_ERROR")
     ELSE Goto(IF i + 1 < NChunks THEN "update binary" ELSE "select bf use")
  /\ UNCHANGED <<callVars, session, exists, len, buf, found, repeated>>

\* Mutant: set_file_lcs_to_use ends after the SELECT.
BfNotActivated == Checked("select bf use", UserFile(file), "returned")
SelectBfUse == Checked("select bf use", UserFile(file), "activate bf")
ActivateBf == Checked("activate bf", Current("ACTIVATE"), "returned")

(* do_read_data_from_bf_file *)

\* Mutant: a size that is a whole number of chunks counts one more.
SizeRoundedUp ==
  /\ pc = "select bf read"
  /\ Send(Apdu("SELECT FCP", user, file, None))
  /\ IF sw' # "ok" THEN Return("UNKNOWN_ERROR") /\ UNCHANGED len
     ELSE len' = NChunks + 1 /\ Goto("read binary")
  /\ UNCHANGED <<callVars, session, exists, i, buf, found, repeated>>

\* The size comes from the FCP in the answer.  Chunk data that a lost answer
\* left in apdu_rsp may parse to any size.
SelectBfRead ==
  /\ pc = "select bf read"
  /\ Send(Apdu("SELECT FCP", user, file, None))
  /\ \/ /\ sw' # "ok"
        /\ Return("UNKNOWN_ERROR") /\ UNCHANGED len
     \/ /\ sw' = "ok" /\ payload' \in Files \cup Values
        /\ len' \in IF payload' \in Files THEN {NChunks} ELSE 0..NChunks
        /\ Proceed(IF len' = 0 THEN "returned" ELSE "read binary")
  /\ UNCHANGED <<callVars, session, exists, i, buf, found, repeated>>

\* An FCP without tag 0x80 leaves a null pointer that the next line reads:
\* the process dies.
ReadNullSize ==
  /\ pc = "select bf read" /\ Lose
  /\ sw = "ok" /\ payload \notin Files \cup Values
  /\ Restart

ReadBf ==
  /\ pc = "read binary"
  /\ Send(Apdu("READ BINARY", user, file, i + 1))
  /\ IF sw' # "ok" THEN Return("UNKNOWN_ERROR") /\ UNCHANGED <<i, buf>>
     ELSE /\ buf' = [buf EXCEPT ![i + 1] = payload']
          /\ i' = i + 1
          /\ Proceed(IF i + 1 < len THEN "read binary" ELSE "returned")
  /\ UNCHANGED <<callVars, session, exists, len, found, repeated>>

(* delete_bf_file_impl: the SELECT is not checked. *)

\* Mutant: user_df_fid is selected.
SelectDfAsBf ==
  Ignored("select bf delete", UserFile("df"), "delete bf", "delete bf")
SelectBfDelete == Ignored("select bf delete", UserFile(file), "delete bf", "delete bf")
DeleteBf == Checked("delete bf", Current("DELETE"), "returned")

(* get_list_of_registered_users, get_list_of_user_bf_files *)

\* Mutant: the type and FID of an entry are not looked at.
ListsEverything(x) == TRUE
\* is_df_md_file_type and FID 0xDFxx; is_bf_file_type and FID 0xBFxx.
Listed(x) == x \in IF op = "list_users" THEN Users ELSE Files

\* Mutant: first_flag is not reset.
ListsFirstAgain ==
  /\ pc \in {"list first", "list next"}
  /\ Send(Current("SELECT FIRST"))
  /\ IF sw' # "ok" THEN Return("OK") /\ UNCHANGED <<found, repeated>>
     ELSE /\ Goto("list next")
          /\ found' = found \cup {x \in {payload'} : Listed(x)}
          /\ repeated' = (repeated \/ payload' \in found)
  /\ UNCHANGED <<callVars, session, exists, i, len, buf>>

ListFiles ==
  /\ pc \in {"list first", "list next"}
  /\ Send(Current(IF pc = "list first" THEN "SELECT FIRST" ELSE "SELECT NEXT"))
  /\ IF sw' # "ok" THEN Return("OK") /\ UNCHANGED <<found, repeated>>
     ELSE /\ Goto("list next")
          /\ found' = found \cup {x \in {payload'} : Listed(x)}
          /\ repeated' = (repeated \/ payload' \in found)
  /\ UNCHANGED <<callVars, session, exists, i, len, buf>>

\* Mutant: what the loop has freed is freed again after it.
FreesTwice ==
  /\ pc = "list next" /\ unlisted = {}
  /\ Restart /\ UNCHANGED lost

\* When the first SELECT fails the descriptor that free_fcp_dscr frees was
\* never initialised: the process may die instead of returning.
FreeUninitialised ==
  /\ pc = "list first"
  /\ \/ (Children(dir) = {} \/ "refuse" \in Faults) /\ UNCHANGED lost
     \/ sw # "ok" /\ Lose
  /\ Restart

-----------------------------------------------------------------------------
RegisterStep ==
  \/ CreateUserDf \/ CreateUserEfArr \/ SelectUserEfArr \/ AddRecordEfArr
  \/ SelectArrUse \/ ActivateArr
  \/ CreateKf \/ SelectKf \/ ChangeRefData \/ SelectKfUse \/ ActivateKf
  \/ SelectDfUse \/ ActivateDf

FileStep ==
  \/ CreateBf \/ SelectBfWrite \/ WriteBf \/ SelectBfUse \/ ActivateBf
  \/ SelectBfRead \/ ReadNullSize \/ ReadBf
  \/ SelectBfDelete \/ DeleteBf

ClientStep ==
  \/ SelectCryptoAid \/ CheckUserDf \/ OpenUserDf \/ CheckBf \/ VerifyPin
  \/ RegisterStep \/ FileStep
  \/ SelectDfDelete \/ DeleteUserDf
  \/ ListFiles \/ FreeUninitialised

Next == Call \/ CallerResumes \/ OpenChannel \/ CloseChannel \/ ClientStep \/ Crash

Spec == Init /\ [][Next]_vars

\* The client's thread runs on until the call returns; nothing makes the
\* caller call, or the channel open.
FairSpec == Spec /\ WF_vars(ClientStep \/ CallerResumes)

-----------------------------------------------------------------------------
(* Properties.                                                              *)

FilesOf(u) == <<lcs[u], records[u], pin[u], data[u]>>

Returned(o) == pc = "returned" /\ op = o /\ ret = "OK"

\* Whatever answers are refused or lost and whenever the process dies, a file
\* comes into being only below the DF of the user of the call that is under
\* way, and a binary file only after the element has verified that user's
\* password (register_new_user_impl, create_bf_file).
CreatesInOwnDf ==
  [][\A u \in Users, n \in Nodes :
       lcs[u][n] = "none" /\ lcs'[u][n] # "none" =>
         /\ user = u
         /\ \/ op = "register" /\ n \notin Files
            \/ op = "create_bf" /\ n = file /\ auth /\ pwd = pin[u]]_vars

\* As long as at most one answer has been lost, nothing of a user's changes but
\* in a call for that user, which is the registration of a user who is not
\* registered yet or carries the user's password (do_verify_pin before every
\* change).
OnlyOwnerChanges ==
  [][\A u \in Users :
       lost' <= 1 /\ FilesOf(u)' # FilesOf(u) =>
         /\ user = u
         /\ \/ op = "register" /\ lcs[u]["df"] # "use"
            \/ op \in PasswordOps \ {"register"} /\ pwd = pin[u]]_vars

\* delete_bf_file deletes "the current file": it is the file asked for, and
\* neither another file nor the DF with all the user's files.
DeleteHitsTarget ==
  [][op = "delete_bf" =>
       \A u \in Users, n \in Nodes :
         lcs'[u][n] # lcs[u][n] => u = user /\ n = file]_vars

\* A user whose DF is in the "use" state is complete: all records of EF.ARR
\* guard the files and there is a password to open them with.  The DF's state
\* is set last (register_new_user_impl), so a crash leaves no such user half
\* made.
RegisteredIsComplete ==
  \A u \in Users : lcs[u]["df"] = "use" =>
    /\ lcs[u]["arr"] = "use" /\ records[u] = NRecords
    /\ lcs[u]["kf"] = "use" /\ pin[u] # None

\* A binary file in the "use" state holds in every chunk what one create call
\* wrote: its state is set after the last UPDATE BINARY (create_bf_file_impl).
UsedFileIsWhole ==
  \A u \in Users, f \in Files :
    lcs[u][f] = "use" =>
      \E v \in Values : data[u][f] = [k \in 1..NChunks |-> v]

\* When a call that changes files returns SEC_STORAGE_OK the element holds
\* what was asked for.
ChangesAreDone ==
  /\ Returned("register") =>
       /\ \A n \in {"df", "arr", "kf"} : lcs[user][n] = "use"
       /\ records[user] = NRecords /\ pin[user] = pwd
       /\ \A f \in Files : lcs[user][f] = "none"
  /\ Returned("unregister") => lcs[user] = NoFiles /\ pin[user] = None
  /\ Returned("create_bf") =>
       /\ lcs[user][file] = "use"
       /\ data[user][file] = [k \in 1..NChunks |-> val]
  /\ Returned("delete_bf") => lcs[user][file] = "none"

\* When a call that reads returns SEC_STORAGE_OK its results are what the
\* element holds, each id once.
ResultsAreTrue ==
  /\ Returned("read_bf") => buf = data[user][file] /\ pwd = pin[user]
  /\ Returned("is_registered") => exists = (lcs[user]["df"] # "none")
  /\ Returned("list_users") =>
       found = {u \in Users : lcs[u]["df"] # "none"} /\ ~ repeated
  /\ Returned("list_files") =>
       found = {f \in Files : lcs[user][f] # "none"} /\ ~ repeated

\* Chunks of a file reach the caller's buffer only with the user's password,
\* even if the read then fails and one answer has been lost.
ReadNeedsPassword ==
  lost <= 1 /\ op = "read_bf" /\ buf # Blank => pwd = pin[user]

\* A read or a deletion of a file that is not there.
FileIsMissing ==
  /\ op \in {"read_bf", "delete_bf"} /\ user \in Users /\ file \in Files
  /\ lcs[user][file] = "none"

\* What a call returns is due (the statuses of sec_storage.h): no bad argument
\* passes, and an error is that of an argument, of a channel that is not open, or
\* of what the element holds.  When nothing is refused or lost no call ends with
\* SEC_STORAGE_UNKNOWN_ERROR, whatever half made users and files a process that
\* died has left.  Nothing is said of the status of a read or a deletion that
\* finds no file: it is not the one sec_storage.h has (MissingFileIsTold).
StatusIsDue ==
  pc = "returned" =>
    /\ ret = "OK" =>
         /\ session
         /\ op # "list_users" => user # BadUser
         /\ op \in FileOps => file # BadFile
         /\ op \in PasswordOps => pwd # BadPassword
    /\ ret \in Statuses \ {"UNKNOWN_ERROR"}
    /\ ret = "AID_SELECT_ERROR" => ~ session
    /\ ret = "WRONG_USER_ID" /\ ~ FileIsMissing => op # "list_users" /\ user = BadUser
    /\ ret = "WRONG_FILE_ID" => op \in FileOps /\ file = BadFile
    /\ ret = "WRONG_PASSWORD_SIZE" => op \in PasswordOps /\ pwd = BadPassword
    /\ ret = "USER_IS_NOT_REGISTERED" =>
         op \notin {"register", "is_registered", "list_users"} /\ lcs[user]["df"] = "none"
    /\ ret = "USER_IS_ALREADY_REGISTERED" => op = "register" /\ lcs[user]["df"] # "none"
    /\ ret = "FILE_IS_NOT_CREATED" => FileIsMissing
    /\ ret = "FILE_IS_ALREADY_CREATED" => op = "create_bf" /\ lcs[user][file] # "none"
    /\ ret = "PASSWORD_VERIF_ERROR" =>
         op \in PasswordOps \ {"register"} /\ (lcs[user]["kf"] # "use" \/ pin[user] # pwd)

\* Where read_bf_file and delete_bf_file print that the "current file id is not
\* created" (sec_storage.c:687, 751) the caller is told that, for which
\* sec_storage.h:19 has SEC_STORAGE_FILE_IS_NOT_CREATED, and not that the user id
\* is wrong.
MissingFileIsTold == pc = "returned" /\ FileIsMissing => ret # "WRONG_USER_ID"

\* register_new_user: "Error during user KF file creation" is an error of the
\* call (sec_storage.c:339-342), so a call that returns SEC_STORAGE_OK has left
\* a usable password.
OkSetsPassword == Returned("register") => lcs[user]["kf"] = "use" /\ pin[user] = pwd

\* delete_bf_file returns before any deletion when "current file id is not
\* created" (sec_storage.c:750-753).
DeleteOfMissingChangesNothing ==
  [][op = "delete_bf" /\ user \in Users /\ file \in Files =>
       (lcs[user][file] = "none" => UNCHANGED fileVars)]_vars

\* Every call returns, or ends with the process.
CallReturns == pc # "idle" ~> pc = "idle"

-----------------------------------------------------------------------------
(* The abstract store this implements, as long as nothing is refused or     *)
(* lost: a crash abandons what is pending.                                  *)

RegisterSteps == {"create arr", "select arr", "append record", "select arr use",
                  "activate arr", "create kf", "select kf", "change ref data",
                  "select kf use", "activate kf", "select df use", "activate df"}
CreateSteps == {"select bf write", "update binary", "select bf use", "activate bf"}

Account(u) == IF lcs[u]["df"] = "none" THEN "absent"
              ELSE IF lcs[u]["df"] = "init" THEN "half" ELSE "registered"

Contents(u, f) == IF lcs[u][f] = "none" THEN None
                  ELSE IF lcs[u][f] = "init" THEN "half" ELSE data[u][f][NChunks]

Accounts == [u \in Users |-> Account(u)]
Keys == [u \in Users |-> IF lcs[u]["kf"] = "use" THEN pin[u] ELSE None]
Stores == [u \in Users |-> [f \in Files |-> Contents(u, f)]]
Pending == IF pc \in RegisterSteps THEN <<"register", user>>
           ELSE IF pc \in CreateSteps THEN <<"create", user, file>> ELSE None

Store == INSTANCE SecureStore WITH
  account <- Accounts, key <- Keys, store <- Stores, pending <- Pending

\* Every behaviour of the storage API is one of the abstract store.
ImplementsStore == Store!Spec
=============================================================================
