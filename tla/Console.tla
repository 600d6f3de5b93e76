------------------------------ MODULE Console ------------------------------
(***************************************************************************)
(* The command words of the interactive loop of func2, src/src/            *)
(* uicc_test1.c, which call the storage API: which ids a word takes from   *)
(* what is typed behind it, what the loop keeps from one command to the    *)
(* next, and the two words that act on whatever the last one left          *)
(* selected.  Its users have one password; another program that calls the  *)
(* library takes turns with it and may use any.                            *)
(*                                                                         *)
(* Nobody types create_df, so there is no file 0xAABB for delete_df.       *)
(***************************************************************************)
EXTENDS SecStorage

CONSTANTS Passwd,               \* passwd
          FirstUser, FirstFile  \* user_id and file_id of a new process

ASSUME ConsoleAssumption ==
  Passwd \in Passwords /\ FirstUser \in Users /\ FirstFile \in Files

VARIABLES who,             \* whose process it is
          user_id, file_id,
          typed,           \* ids typed behind the word, up to 2
          task,            \* an exchange of a word that is no call of the API
          data_read,       \* whose chunk stands where in the buffer
          data_size_read   \* in chunks

idVars == <<user_id, file_id>>
readVars == <<data_read, data_size_read>>
consoleVars == <<who, idVars, typed, task, readVars>>
allVars == <<vars, consoleVars>>

Unset == None   \* nothing has been stored there
Tasks == {"none", "select 0xAABB", "delete current", "print first", "print next"}

ConsoleTypeOK ==
  /\ who \in {"func2", "other"}
  /\ user_id \in Users \cup {BadUser} /\ file_id \in Files \cup {BadFile}
  /\ typed \in 0..2 /\ task \in Tasks
  /\ data_read \in [1..NChunks -> {None} \cup (Users \X Files)]
  /\ data_size_read \in 0..NChunks \cup {Unset}

Fresh(program) ==
  /\ who' = program /\ user_id' = FirstUser /\ file_id' = FirstFile
  /\ typed' = 0 /\ task' = "none"
  /\ data_read' = Blank /\ data_size_read' = Unset

ConsoleInit ==
  /\ Init
  /\ who = "func2" /\ user_id = FirstUser /\ file_id = FirstFile
  /\ typed = 0 /\ task = "none"
  /\ data_read = Blank /\ data_size_read = Unset

-----------------------------------------------------------------------------
(* What a word does with n ids behind it, the first of them u and the       *)
(* second f: a character that is no digit is id 0, and so is the 0 that     *)
(* ends the text.                                                           *)

\* The last user stays unless exactly one character is typed.
OneId(n, u) == user_id' = (IF n = 1 THEN u ELSE user_id) /\ UNCHANGED file_id

TwoIds(n, u, f) ==
  /\ user_id' = (IF n >= 1 THEN u ELSE user_id)
  /\ file_id' = (IF n >= 2 THEN f ELSE file_id)

\* The length of delete_bf is tested for one character less.
DeleteIds(n, u, f) ==
  /\ user_id' = (IF n >= 1 THEN u ELSE BadUser)
  /\ file_id' = (IF n >= 2 THEN f ELSE IF n = 1 THEN BadFile ELSE file_id)

Ids(o, n, u, f) ==
  CASE o = "list_users" -> n = 0 /\ UNCHANGED idVars
    [] o \in {"create_bf", "read_bf"} -> TwoIds(n, u, f)
    [] o = "delete_bf" -> DeleteIds(n, u, f)
    [] OTHER -> OneId(n, u)

\* Mutant: the password is typed.
PasswordTyped == op' \in PasswordOps => pwd' \in Passwords
PasswordFixed == op' \in PasswordOps => pwd' = Passwd

Command == who = "func2" /\ pc = "idle" /\ task = "none"

Word ==
  /\ Command /\ Call
  /\ typed' \in 0..2
  /\ \E u \in Users \cup {BadUser}, f \in Files \cup {BadFile} : Ids(op', typed', u, f)
  /\ op' # "list_users" => user' = user_id'
  /\ op' \in FileOps => file' = file_id'
  /\ PasswordFixed
  /\ UNCHANGED <<who, task, readVars>>

\* delete_df: neither the SELECT of 0xAABB nor the DELETE is looked at.
\* print_files lists whatever is current.
OtherWord ==
  /\ Command
  /\ session   \* without a channel the loop waits for an answer for ever
  /\ task' \in {"select 0xAABB", "print first"}
  /\ UNCHANGED <<vars, who, idVars, typed, readVars>>

KeepClient == UNCHANGED <<pc, callVars, session, workVars, ret>>

SelectAABB ==
  /\ task = "select 0xAABB"
  /\ Send(Apdu("SELECT", BadUser, "df", None))
  /\ task' = "delete current"
  /\ KeepClient /\ UNCHANGED <<who, idVars, typed, readVars>>

DeleteCurrent ==
  /\ task = "delete current"
  /\ Send(Current("DELETE"))
  /\ task' = "none"
  /\ KeepClient /\ UNCHANGED <<who, idVars, typed, readVars>>

\* do_print_all_files_cur_dir.
PrintFiles ==
  /\ task \in {"print first", "print next"}
  /\ Send(Current(IF task = "print first" THEN "SELECT FIRST" ELSE "SELECT NEXT"))
  /\ task' = (IF sw' = "ok" THEN "print next" ELSE "none")
  /\ KeepClient /\ UNCHANGED <<who, idVars, typed, readVars>>

-----------------------------------------------------------------------------
\* Mutant: the size is not handed to the caller.
SizeDropped == UNCHANGED data_size_read

\* The size is stored with the answer to the SELECT, before the first chunk.
SizeRead ==
  data_size_read' = IF who = "func2" /\ pc = "select bf read" /\ sw' = "ok"
                    THEN len' ELSE data_size_read

ChunkRead ==
  data_read' = IF who = "func2" /\ pc = "read binary" /\ sw' = "ok"
               THEN [data_read EXCEPT ![i + 1] = <<user, file>>] ELSE data_read

\* What goes on in a call, and its return.
CallStep ==
  /\ task = "none"
  /\ ClientStep /\ pc' # "idle"
  /\ SizeRead /\ ChunkRead
  /\ UNCHANGED <<who, idVars, typed, task>>

Returns ==
  /\ CallerResumes
  /\ typed' = 0
  /\ UNCHANGED <<who, idVars, task, readVars>>

OtherCall == who = "other" /\ Call /\ UNCHANGED consoleVars

Session ==
  /\ task = "none"
  /\ OpenChannel \/ CloseChannel
  /\ UNCHANGED consoleVars

\* exit, the death of the process in a call, or its end by what it frees.
NextProcess ==
  /\ \/ pc = "idle" /\ Restart /\ UNCHANGED lost
     \/ Crash
     \/ ClientStep /\ pc' = "idle"
  /\ \E program \in {"func2", "other"} : Fresh(program)

ConsoleNext ==
  \/ Word \/ OtherWord \/ SelectAABB \/ DeleteCurrent \/ PrintFiles
  \/ CallStep \/ Returns \/ OtherCall \/ Session \/ NextProcess

ConsoleSpec == ConsoleInit /\ [][ConsoleNext]_allVars

-----------------------------------------------------------------------------
\* While no answer is lost or refused, a file goes in the console's process only
\* when its user is the one in use there, and in a delete_bf only when both ids
\* have been typed behind the word, although the length of what is typed is
\* tested for one character less.  delete_df, which deletes what is current, can
\* hit no user but the last one used.
DeletionsAreSpelledOut ==
  [][\A u \in Users, f \in Files :
       who = "func2" /\ lcs[u][f] # "none" /\ lcs'[u][f] = "none" =>
         /\ u = user_id
         /\ op = "delete_bf" => typed = 2 /\ f = file_id
         /\ op \in {"delete_bf", "unregister"} \/ task = "delete current"]_allVars

\* The console takes any user id with its one password: of a registered user
\* with another password it changes no file in use, not even with delete_df.
SparesOtherPasswords ==
  [][\A u \in Users :
       who = "func2" /\ lcs[u]["df"] = "use" /\ pin[u] # Passwd =>
         /\ pin'[u] = pin[u]
         /\ \A n \in Nodes : lcs[u][n] = "use" => lcs'[u][n] = "use"]_allVars

\* The chunks read_bf prints after a read that has not failed are those of the
\* file it was asked for: as many as that file has, none of an earlier read.
PrintsThisFile ==
  who = "func2" /\ Returned("read_bf") =>
    /\ data_size_read = NChunks
    /\ \A k \in 1..NChunks : data_read[k] = <<user_id, file_id>>
=============================================================================
