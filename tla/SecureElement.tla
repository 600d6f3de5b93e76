--------------------------- MODULE SecureElement ---------------------------
(***************************************************************************)
(* The file system of the secure element, as far as the client in          *)
(* src/src/sec_storage.c and src/src/at_commands.c uses it.  This is code  *)
(* that is not in the repository: what a command does is what the client's *)
(* sequences of commands need it to do, and the access rules are the four  *)
(* records the client appends to EF.ARR when it registers a user.          *)
(*                                                                         *)
(* A user has one DF under the root of the Crypto applet; below it lie the *)
(* EF.ARR, the key file KF and the binary files.                           *)
(***************************************************************************)
EXTENDS Naturals, FiniteSets

CONSTANTS Users,      \* user ids the client accepts (1..15 in the code)
          Files,      \* file ids the client accepts (1..15 in the code)
          Passwords,  \* passwords of an accepted size (8..64 bytes)
          Values,     \* what one chunk of a binary file can hold
          NRecords,   \* records of an EF.ARR (4 in create_user_efarr_file)
          NChunks,    \* READ/UPDATE BINARY exchanges per binary file
          Root,       \* the root of the Crypto applet
          None        \* no password, an unwritten chunk, an empty answer

EFs == {"arr", "kf"} \cup Files
Nodes == {"df"} \cup EFs

ASSUME ElementAssumption ==
  /\ NRecords \in Nat \ {0} /\ NChunks \in Nat \ {0}
  /\ IsFiniteSet(Users) /\ IsFiniteSet(Files)
  /\ Files \cap {"df", "arr", "kf"} = {}
  /\ Root \notin Users /\ Users \cap Nodes = {}
  /\ None \notin Users \cup Nodes \cup Passwords \cup Values

VARIABLES lcs,       \* life cycle state of each file of each user
          records,   \* records in each EF.ARR
          pin,       \* password held by each KF
          data,      \* contents of each binary file
          dir,       \* current DF
          node,      \* current file of that DF ("df": the DF itself)
          auth,      \* the key of the current DF has been verified
          unlisted   \* what SELECT next has still to return

fileVars == <<lcs, records, pin, data>>
selectVars == <<dir, node, auth, unlisted>>
cardVars == <<fileVars, selectVars>>

Lcs == {"none", "init", "use"}
Blank == [i \in 1..NChunks |-> None]
NoFiles == [n \in Nodes |-> "none"]

\* What an answer can carry besides the status word: the FCP of a file, which
\* stands for the file itself, or one chunk of a binary file.
Payloads == Users \cup Nodes \cup Values \cup {None}

CardTypeOK ==
  /\ lcs \in [Users -> [Nodes -> Lcs]]
  /\ records \in [Users -> 0..NRecords]
  /\ pin \in [Users -> Passwords \cup {None}]
  /\ data \in [Users -> [Files -> [1..NChunks -> Values \cup {None}]]]
  /\ dir \in Users \cup {Root}
  /\ node \in Nodes
  /\ auth \in BOOLEAN
  /\ unlisted \subseteq Users \cup Nodes

SelectInit == dir = Root /\ node = "df" /\ auth = FALSE /\ unlisted = {}

CardInit ==
  /\ lcs = [u \in Users |-> NoFiles]
  /\ records = [u \in Users |-> 0]
  /\ pin = [u \in Users |-> None]
  /\ data = [u \in Users |-> [f \in Files |-> Blank]]
  /\ SelectInit

-----------------------------------------------------------------------------
(* Commands.  A file is addressed by the user and the node its FID names;   *)
(* the FID of a binary file (0xBF00 + id) does not name a user, so it means *)
(* the file of that id in whatever DF is current.                           *)

Apdu(ins, u, n, x) == [ins |-> ins, user |-> u, node |-> n, arg |-> x]

\* Where the FID of node n of user u is looked for.
Home(u, n) == IF n \in Files THEN dir ELSE u

Exists(u, n) == u \in Users /\ lcs[u][n] # "none"

\* Access is free until the life cycle state is "use"; from then on the
\* records of EF.ARR ask for the user's key.
Granted(n) == lcs[dir][n] = "init" \/ auth

Children(d) == IF d = Root THEN {u \in Users : lcs[u]["df"] # "none"}
               ELSE {n \in EFs : lcs[d][n] # "none"}

CurrentIs(n) == dir \in Users /\ node = n /\ lcs[dir][n] # "none"

Accepts(c) ==
  CASE c.ins = "SELECT AID" -> TRUE
    [] c.ins \in {"SELECT", "SELECT FCP"} ->
         /\ c.node = "df" \/ Home(c.user, c.node) = dir
         /\ Exists(Home(c.user, c.node), c.node)
    [] c.ins = "CREATE" ->
         /\ ~ Exists(Home(c.user, c.node), c.node)
         /\ IF c.node = "df" THEN dir = Root
            ELSE /\ dir \in Users /\ Home(c.user, c.node) = dir
                 /\ Exists(dir, "df") /\ Granted("df")
    [] c.ins = "APPEND RECORD" -> CurrentIs("arr") /\ records[dir] < NRecords
    [] c.ins = "CHANGE REFERENCE DATA" -> CurrentIs("kf")
    [] c.ins = "ACTIVATE" -> CurrentIs(node)
    [] c.ins = "DELETE" -> CurrentIs(node) /\ Granted(node)
    [] c.ins = "VERIFY" -> /\ dir = c.user /\ dir \in Users
                           /\ lcs[dir]["kf"] = "use" /\ pin[dir] = c.arg
    [] c.ins = "UPDATE BINARY" -> node \in Files /\ CurrentIs(node) /\ Granted(node)
    [] c.ins = "READ BINARY" -> node \in Files /\ CurrentIs(node) /\ Granted(node)
    [] c.ins = "SELECT FIRST" -> Children(dir) # {}
    [] c.ins = "SELECT NEXT" -> unlisted # {}

\* Status words as far as the client tells them apart: 9000, 6A82/6A83, others.
Status == {"ok", "not found", "refused"}

StatusOf(c) ==
  IF Accepts(c) THEN "ok"
  ELSE IF c.ins \in {"SELECT", "SELECT FCP", "SELECT FIRST", "SELECT NEXT"}
       THEN "not found" ELSE "refused"

\* The data a command may answer with.
Answers(c) ==
  IF ~ Accepts(c) THEN {None}
  ELSE CASE c.ins = "SELECT FCP" -> {c.node}
         [] c.ins = "READ BINARY" -> {data[dir][node][c.arg]}
         [] c.ins = "SELECT FIRST" -> Children(dir)
         [] c.ins = "SELECT NEXT" -> unlisted
         [] OTHER -> {None}

SetNode(d, n, s) == [lcs EXCEPT ![d][n] = s]

SelectAid(c) ==
  /\ c.ins = "SELECT AID"
  /\ dir' = Root /\ node' = "df" /\ auth' = FALSE /\ unlisted' = {}
  /\ UNCHANGED fileVars

Select(c) ==
  /\ c.ins \in {"SELECT", "SELECT FCP"}
  /\ dir' = Home(c.user, c.node) /\ node' = c.node
  /\ auth' = (auth /\ dir' = dir)
  /\ UNCHANGED <<fileVars, unlisted>>

Create(c) ==
  /\ c.ins = "CREATE"
  /\ dir' = Home(c.user, c.node) /\ node' = c.node
  /\ auth' = (auth /\ dir' = dir)
  /\ lcs' = SetNode(dir', c.node, "init")
  /\ UNCHANGED <<records, pin, data, unlisted>>

AppendRecord(c) ==
  /\ c.ins = "APPEND RECORD"
  /\ records' = [records EXCEPT ![dir] = @ + 1]
  /\ UNCHANGED <<lcs, pin, data, selectVars>>

ChangeReferenceData(c) ==
  /\ c.ins = "CHANGE REFERENCE DATA"
  /\ pin' = [pin EXCEPT ![dir] = c.arg]
  /\ UNCHANGED <<lcs, records, data, selectVars>>

Activate(c) ==
  /\ c.ins = "ACTIVATE"
  /\ lcs' = SetNode(dir, node, "use")
  /\ UNCHANGED <<records, pin, data, selectVars>>

\* Deleting a DF removes everything below it; the root becomes current.
DeleteDf(c) ==
  /\ c.ins = "DELETE" /\ node = "df"
  /\ lcs' = [lcs EXCEPT ![dir] = NoFiles]
  /\ records' = [records EXCEPT ![dir] = 0]
  /\ pin' = [pin EXCEPT ![dir] = None]
  /\ data' = [data EXCEPT ![dir] = [f \in Files |-> Blank]]
  /\ dir' = Root /\ node' = "df" /\ auth' = FALSE /\ unlisted' = {}

DeleteFile(c) ==
  /\ c.ins = "DELETE" /\ node # "df"
  /\ lcs' = SetNode(dir, node, "none")
  /\ records' = [records EXCEPT ![dir] = IF node = "arr" THEN 0 ELSE @]
  /\ pin' = [pin EXCEPT ![dir] = IF node = "kf" THEN None ELSE @]
  /\ data' = [data EXCEPT ![dir] =
                [f \in Files |-> IF f = node THEN Blank ELSE data[dir][f]]]
  /\ node' = "df"
  /\ UNCHANGED <<dir, auth, unlisted>>

Verify(c) ==
  /\ c.ins = "VERIFY"
  /\ auth' = TRUE
  /\ UNCHANGED <<fileVars, dir, node, unlisted>>

UpdateBinary(c) ==
  /\ c.ins = "UPDATE BINARY"
  /\ data' = [data EXCEPT ![dir][node][c.arg[1]] = c.arg[2]]
  /\ UNCHANGED <<lcs, records, pin, selectVars>>

List(c, x) ==
  /\ c.ins \in {"SELECT FIRST", "SELECT NEXT"}
  /\ unlisted' = (IF c.ins = "SELECT FIRST" THEN Children(dir) ELSE unlisted) \ {x}
  /\ UNCHANGED <<fileVars, dir, node, auth>>

\* The element carries out command c and answers with x.
Execute(c, x) ==
  \/ /\ Accepts(c)
     /\ \/ SelectAid(c) \/ Select(c) \/ Create(c) \/ AppendRecord(c)
        \/ ChangeReferenceData(c) \/ Activate(c) \/ DeleteDf(c) \/ DeleteFile(c)
        \/ Verify(c) \/ UpdateBinary(c) \/ List(c, x)
        \/ c.ins = "READ BINARY" /\ UNCHANGED cardVars
  \/ /\ ~ Accepts(c)
     /\ auth' = (auth /\ ~ (c.ins = "VERIFY" /\ c.user = dir))
     /\ UNCHANGED <<fileVars, dir, node, unlisted>>
=============================================================================
