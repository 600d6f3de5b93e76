------------------------- MODULE SecStorage_proofs -------------------------
(***************************************************************************)
(* Proofs about SecStorage, for every set of users, files, passwords and   *)
(* values and every number of records and chunks.                          *)
(*                                                                         *)
(* The first part holds whatever is refused or lost and wherever the       *)
(* process dies: the types, and who makes files.  The second holds as long *)
(* as no answer has been lost, and so on a line that loses none            *)
(* (MaxLost = 0), while commands may be refused and the process may die    *)
(* anywhere: who changes what, and what a written file holds.              *)
(***************************************************************************)
EXTENDS SecStorage, TLAPS

(* The element.                                                             *)

\* A command the element can be sent: what it carries has the type its
\* instruction asks for.
CommandOK(c) ==
  /\ c.ins \in {"SELECT", "SELECT FCP", "CREATE"} => c.user \in Users /\ c.node \in Nodes
  /\ c.ins = "CHANGE REFERENCE DATA" => c.arg \in Passwords
  /\ c.ins = "UPDATE BINARY" => c.arg[2] \in Values
  /\ c.ins = "READ BINARY" => c.arg \in 1..NChunks

\* SetNode changes the life cycle state of one file and of no other.
LEMMA SetNodeIs ==
  ASSUME CardTypeOK, NEW d \in Users, NEW n \in Nodes, NEW s \in Lcs
  PROVE  /\ SetNode(d, n, s) \in [Users -> [Nodes -> Lcs]]
         /\ \A u \in Users, k \in Nodes :
              SetNode(d, n, s)[u][k] = IF u = d /\ k = n THEN s ELSE lcs[u][k]
BY DEF CardTypeOK, SetNode

\* The names of the files of a user.
LEMMA NodeNames == "df" \in Nodes /\ "arr" \in Nodes /\ "kf" \in Nodes /\ Files \subseteq Nodes
BY DEF Nodes, EFs

\* A FID is looked for in the current DF or in a user's.
LEMMA HomeType ==
  ASSUME CardTypeOK, NEW u \in Users, NEW n \in Nodes
  PROVE  Home(u, n) \in Users \cup {Root}
BY DEF CardTypeOK, Home

\* A file that is created gets its state from the CREATE command that names it.
LEMMA CreateIs ==
  ASSUME CardTypeOK, NEW c, CommandOK(c), Accepts(c), c.ins = "CREATE", Create(c)
  PROVE  LET d == Home(c.user, c.node) IN
           /\ d \in Users /\ c.node \in Nodes
           /\ lcs[d][c.node] = "none"
           /\ lcs' = SetNode(d, c.node, "init")
           /\ CardTypeOK'
<1>. DEFINE d == Home(c.user, c.node)
<1>1. c.user \in Users /\ c.node \in Nodes
  BY DEF CommandOK
<1>2. d \in Users
  <2>1. CASE c.node = "df"
    BY <2>1, <1>1, ElementAssumption DEF Home
  <2>2. CASE c.node # "df"
    BY <2>2, <1>1 DEF Accepts
  <2>. QED
    BY <2>1, <2>2
<1>3. lcs[d][c.node] \in Lcs /\ lcs[d][c.node] = "none"
  <2>1. ~ Exists(d, c.node)
    BY DEF Accepts
  <2>. QED
    BY <1>1, <1>2, <2>1 DEF CardTypeOK, Exists
<1>4. lcs' = SetNode(d, c.node, "init") /\ dir' = d /\ node' = c.node
      /\ auth' = (auth /\ dir' = dir) /\ UNCHANGED <<records, pin, data, unlisted>>
  BY DEF Create
<1>5. lcs' \in [Users -> [Nodes -> Lcs]]
  BY <1>1, <1>2, <1>4, SetNodeIs DEF Lcs
<1>. QED
  BY <1>1, <1>2, <1>3, <1>4, <1>5 DEF CardTypeOK

\* ACTIVATE creates nothing.
LEMMA ActivateIs ==
  ASSUME CardTypeOK, NEW c, Accepts(c), Activate(c)
  PROVE  /\ dir \in Users /\ node \in Nodes
         /\ lcs[dir][node] # "none"
         /\ lcs' = SetNode(dir, node, "use")
         /\ CardTypeOK'
<1>1. dir \in Users /\ node \in Nodes /\ lcs[dir][node] # "none"
  BY DEF Accepts, Activate, CurrentIs, CardTypeOK
<1>2. lcs' = SetNode(dir, node, "use") /\ UNCHANGED <<records, pin, data, selectVars>>
  BY DEF Activate
<1>3. lcs' \in [Users -> [Nodes -> Lcs]]
  BY <1>1, <1>2, SetNodeIs DEF Lcs
<1>. QED
  BY <1>1, <1>2, <1>3 DEF CardTypeOK, selectVars

\* DELETE of a DF creates nothing.
LEMMA DeleteDfIs ==
  ASSUME CardTypeOK, NEW c, Accepts(c), DeleteDf(c)
  PROVE  /\ \A u \in Users, n \in Nodes : lcs[u][n] = "none" => lcs'[u][n] = "none"
         /\ CardTypeOK'
<1>1. dir \in Users
  BY DEF Accepts, DeleteDf, CurrentIs
<1>2. lcs' = [lcs EXCEPT ![dir] = NoFiles] /\ NoFiles \in [Nodes -> Lcs]
  BY DEF DeleteDf, NoFiles, Lcs
<1>3. lcs' \in [Users -> [Nodes -> Lcs]]
  BY <1>2 DEF CardTypeOK
<1>4. records' \in [Users -> 0..NRecords] /\ pin' \in [Users -> Passwords \cup {None}]
  BY <1>1, ElementAssumption DEF CardTypeOK, DeleteDf
<1>5. data' \in [Users -> [Files -> [1..NChunks -> Values \cup {None}]]]
  <2>1. [f \in Files |-> Blank] \in [Files -> [1..NChunks -> Values \cup {None}]]
    BY DEF Blank
  <2>. QED
    BY <2>1 DEF CardTypeOK, DeleteDf
<1>6. dir' \in Users \cup {Root} /\ node' \in Nodes /\ auth' \in BOOLEAN
      /\ unlisted' \subseteq Users \cup Nodes
  BY NodeNames DEF DeleteDf
<1>7. \A u \in Users, n \in Nodes : lcs[u][n] = "none" => lcs'[u][n] = "none"
  BY <1>1, <1>2 DEF CardTypeOK, NoFiles
<1>. QED
  BY <1>3, <1>4, <1>5, <1>6, <1>7 DEF CardTypeOK

\* DELETE of a file creates nothing.
LEMMA DeleteFileIs ==
  ASSUME CardTypeOK, NEW c, Accepts(c), DeleteFile(c)
  PROVE  /\ \A u \in Users, n \in Nodes : lcs[u][n] = "none" => lcs'[u][n] = "none"
         /\ CardTypeOK'
<1>1. dir \in Users /\ node \in Nodes
  BY DEF Accepts, DeleteFile, CurrentIs, CardTypeOK
<1>2. lcs' = SetNode(dir, node, "none")
  BY DEF DeleteFile
<1>3. /\ lcs' \in [Users -> [Nodes -> Lcs]]
      /\ \A u \in Users, n \in Nodes : lcs[u][n] = "none" => lcs'[u][n] = "none"
  BY <1>1, <1>2, SetNodeIs DEF Lcs
<1>4. records' \in [Users -> 0..NRecords] /\ pin' \in [Users -> Passwords \cup {None}]
  BY <1>1, ElementAssumption DEF CardTypeOK, DeleteFile
<1>5. data' \in [Users -> [Files -> [1..NChunks -> Values \cup {None}]]]
  <2>1. [f \in Files |-> IF f = node THEN Blank ELSE data[dir][f]]
          \in [Files -> [1..NChunks -> Values \cup {None}]]
    BY <1>1 DEF Blank, CardTypeOK
  <2>. QED
    BY <2>1 DEF CardTypeOK, DeleteFile
<1>6. dir' \in Users \cup {Root} /\ node' \in Nodes /\ auth' \in BOOLEAN
      /\ unlisted' \subseteq Users \cup Nodes
  BY NodeNames DEF DeleteFile, CardTypeOK
<1>. QED
  BY <1>3, <1>4, <1>5, <1>6 DEF CardTypeOK

\* UPDATE BINARY changes one chunk and creates nothing.
LEMMA UpdateBinaryIs ==
  ASSUME CardTypeOK, NEW c, CommandOK(c), Accepts(c), UpdateBinary(c)
  PROVE  UNCHANGED lcs /\ CardTypeOK'
<1>1. dir \in Users /\ node \in Files /\ c.arg[2] \in Values
  BY DEF Accepts, UpdateBinary, CurrentIs, CommandOK
<1>2. data[dir] \in [Files -> [1..NChunks -> Values \cup {None}]]
      /\ data[dir][node] \in [1..NChunks -> Values \cup {None}]
  BY <1>1 DEF CardTypeOK
<1>3. [data[dir][node] EXCEPT ![c.arg[1]] = c.arg[2]] \in [1..NChunks -> Values \cup {None}]
  BY <1>1, <1>2
<1>. DEFINE chunks == [data[dir][node] EXCEPT ![c.arg[1]] = c.arg[2]]
            files == [data[dir] EXCEPT ![node] = chunks]
<1>4. files \in [Files -> [1..NChunks -> Values \cup {None}]]
  <2>. HIDE DEF chunks
  <2>. QED
    BY <1>1, <1>2, <1>3 DEF chunks
<1>5. data' \in [Users -> [Files -> [1..NChunks -> Values \cup {None}]]]
  <2>1. data' = [data EXCEPT ![dir] = files]
    BY <1>1, <1>2 DEF UpdateBinary, CardTypeOK
  <2>. HIDE DEF files
  <2>. QED
    BY <1>1, <1>4, <2>1 DEF CardTypeOK
<1>. QED
  BY <1>5 DEF CardTypeOK, UpdateBinary, selectVars

\* What a listing can meet.
LEMMA ChildrenType ==
  ASSUME CardTypeOK
  PROVE  Children(dir) \subseteq Users \cup Nodes
BY DEF Children, Nodes

\* What a command answers with is something apdu_rsp can hold.
LEMMA AnswersType ==
  ASSUME CardTypeOK, NEW c, CommandOK(c), NEW x \in Answers(c)
  PROVE  x \in Payloads
<1>1. CASE ~ Accepts(c)
  BY <1>1 DEF Answers, Payloads
<1>2. CASE Accepts(c) /\ c.ins = "SELECT FCP"
  BY <1>2 DEF Answers, Payloads, CommandOK
<1>3. CASE Accepts(c) /\ c.ins = "READ BINARY"
  <2>1. dir \in Users /\ node \in Files /\ c.arg \in 1..NChunks
    BY <1>3 DEF Accepts, CommandOK, CurrentIs
  <2>2. data[dir] \in [Files -> [1..NChunks -> Values \cup {None}]]
    BY <2>1 DEF CardTypeOK
  <2>3. data[dir][node] \in [1..NChunks -> Values \cup {None}]
    BY <2>1, <2>2
  <2>4. data[dir][node][c.arg] \in Values \cup {None}
    BY <2>1, <2>3
  <2>. QED
    BY <1>3, <2>4 DEF Answers, Payloads
<1>4. CASE Accepts(c) /\ c.ins = "SELECT FIRST"
  BY <1>4, ChildrenType DEF Answers, Payloads
<1>5. CASE Accepts(c) /\ c.ins = "SELECT NEXT"
  BY <1>5 DEF Answers, Payloads, CardTypeOK
<1>6. CASE Accepts(c) /\ c.ins \notin {"SELECT FCP", "READ BINARY", "SELECT FIRST",
                                      "SELECT NEXT"}
  BY <1>6 DEF Answers, Payloads
<1>. QED
  BY <1>1, <1>2, <1>3, <1>4, <1>5, <1>6

\* A file that comes into being is the one a CREATE command named.
Creates(c) ==
  \A u \in Users, n \in Nodes :
    lcs[u][n] = "none" /\ lcs'[u][n] # "none" =>
      c.ins = "CREATE" /\ u = Home(c.user, c.node) /\ n = c.node

\* A command keeps the element's types, and creates only by CREATE.
LEMMA ExecuteIs ==
  ASSUME CardTypeOK, NEW c, CommandOK(c), NEW x \in Answers(c), Execute(c, x)
  PROVE  CardTypeOK' /\ Creates(c)
<1>1. CASE ~ Accepts(c)
  <2>1. auth' \in BOOLEAN /\ UNCHANGED <<lcs, records, pin, data, dir, node, unlisted>>
    BY <1>1 DEF Execute, CardTypeOK, fileVars
  <2>. QED
    BY <2>1 DEF CardTypeOK, Creates
<1>2. CASE Accepts(c) /\ SelectAid(c)
  BY <1>2, NodeNames DEF SelectAid, CardTypeOK, Creates, fileVars
<1>3. CASE Accepts(c) /\ Select(c)
  <2>1. dir' \in Users \cup {Root} /\ node' \in Nodes /\ auth' \in BOOLEAN
    BY <1>3, HomeType DEF Select, CommandOK, CardTypeOK
  <2>. QED
    BY <1>3, <2>1 DEF Select, CardTypeOK, Creates, fileVars
<1>4. CASE Accepts(c) /\ Create(c)
  <2>1. c.ins = "CREATE"
    BY <1>4 DEF Create
  <2>. QED
    BY <1>4, <2>1, CreateIs, SetNodeIs DEF Creates, Lcs
<1>5. CASE Accepts(c) /\ AppendRecord(c)
  <2>1. dir \in Users /\ records[dir] < NRecords
    BY <1>5 DEF Accepts, AppendRecord, CurrentIs
  <2>2. records[dir] \in Nat /\ records[dir] + 1 \in 0..NRecords
    BY <2>1, ElementAssumption DEF CardTypeOK
  <2>3. records' = [records EXCEPT ![dir] = records[dir] + 1]
    BY <1>5 DEF AppendRecord
  <2>4. records' \in [Users -> 0..NRecords]
    BY <2>1, <2>2, <2>3 DEF CardTypeOK
  <2>. QED
    BY <1>5, <2>4 DEF CardTypeOK, AppendRecord, Creates, selectVars
<1>6. CASE Accepts(c) /\ ChangeReferenceData(c)
  <2>1. pin' \in [Users -> Passwords \cup {None}]
    BY <1>6 DEF CardTypeOK, ChangeReferenceData, CommandOK
  <2>. QED
    BY <1>6, <2>1 DEF CardTypeOK, ChangeReferenceData, Creates, selectVars
<1>7. CASE Accepts(c) /\ Activate(c)
  <2>1. dir \in Users /\ node \in Nodes /\ lcs[dir][node] # "none"
        /\ lcs' = SetNode(dir, node, "use")
    BY <1>7, ActivateIs
  <2>2. \A u \in Users, n \in Nodes :
          lcs'[u][n] = IF u = dir /\ n = node THEN "use" ELSE lcs[u][n]
    BY <2>1, SetNodeIs DEF Lcs
  <2>. QED
    BY <1>7, <2>1, <2>2, ActivateIs DEF Creates
<1>8. CASE Accepts(c) /\ DeleteDf(c)
  BY <1>8, DeleteDfIs DEF Creates
<1>9. CASE Accepts(c) /\ DeleteFile(c)
  BY <1>9, DeleteFileIs DEF Creates
<1>10. CASE Accepts(c) /\ Verify(c)
  BY <1>10 DEF Verify, CardTypeOK, Creates, fileVars
<1>11. CASE Accepts(c) /\ UpdateBinary(c)
  BY <1>11, UpdateBinaryIs DEF Creates
<1>12. CASE Accepts(c) /\ List(c, x)
  <2>1. unlisted' \subseteq Users \cup Nodes
    BY <1>12, ChildrenType DEF List, CardTypeOK
  <2>. QED
    BY <1>12, <2>1 DEF List, CardTypeOK, Creates, fileVars
<1>13. CASE Accepts(c) /\ UNCHANGED cardVars
  BY <1>13 DEF cardVars, fileVars, selectVars, CardTypeOK, Creates
<1>. QED
  BY <1>1, <1>2, <1>3, <1>4, <1>5, <1>6, <1>7, <1>8, <1>9, <1>10, <1>11, <1>12,
     <1>13 DEF Execute

-----------------------------------------------------------------------------
(* One exchange.                                                            *)

RspTypeOK == sw \in Status /\ payload \in Payloads /\ lost \in 0..MaxLost

\* The element's types when it is left alone.
LEMMA CardUnchanged ==
  ASSUME CardTypeOK, UNCHANGED cardVars, NEW c
  PROVE  CardTypeOK' /\ Creates(c)
BY DEF cardVars, fileVars, selectVars, CardTypeOK, Creates

\* An exchange keeps the types whether the command is answered, refused or lost.
LEMMA SendIs ==
  ASSUME CardTypeOK, RspTypeOK, NEW c, CommandOK(c), Send(c)
  PROVE  CardTypeOK' /\ RspTypeOK' /\ Creates(c)
<1>1. CASE Answered(c)
  <2>1. PICK x \in Answers(c) : Execute(c, x) /\ sw' = StatusOf(c) /\ payload' = x
    BY <1>1 DEF Answered
  <2>2. CardTypeOK' /\ Creates(c) /\ x \in Payloads
    BY <2>1, ExecuteIs, AnswersType
  <2>. QED
    BY <1>1, <2>1, <2>2 DEF Answered, RspTypeOK, StatusOf, Status
<1>2. CASE Refused
  <2>1. CardTypeOK' /\ Creates(c)
    BY <1>2, CardUnchanged DEF Refused
  <2>. QED
    BY <1>2, <2>1 DEF Refused, RspTypeOK, Status, Payloads
<1>3. CASE Lost(c)
  <2>1. CardTypeOK' /\ Creates(c)
    BY <1>3, CardUnchanged, ExecuteIs DEF Lost
  <2>2. lost' \in 0..MaxLost
    BY <1>3, StorageAssumption DEF Lost, Lose, RspTypeOK
  <2>. QED
    BY <1>3, <2>1, <2>2 DEF Lost, RspTypeOK, rspVars
<1>. QED
  BY <1>1, <1>2, <1>3 DEF Send

\* A status word that was not in apdu_rsp before is the answer to this very
\* command: a stale one cannot turn up.
LEMMA FreshAnswer ==
  ASSUME NEW c, Send(c), sw' # sw, sw' # "refused"
  PROVE  Answered(c)
BY DEF Send, Refused, Lost, rspVars

-----------------------------------------------------------------------------
(* The client.                                                              *)

RegSteps == {"create df"} \cup RegisterSteps
BfSteps == CreateSteps \cup {"create bf", "check bf", "select bf read", "read binary",
                             "select bf delete", "delete bf"}

\* The call under way fits the exchange p: its operation makes that exchange,
\* and the arguments the exchange uses have been checked.
Fits(p) ==
  /\ p \in Steps \cup {"idle", "returned"}
  /\ p \in Steps => op \in Ops /\ (op = "create_bf" => val \in Values)
  /\ p \in Steps \ {"select aid", "list first", "list next"} =>
       user \in Users /\ op # "list_users" /\ (op \in PasswordOps => pwd \in Passwords)
  /\ p \in RegSteps => op = "register"
  /\ p = "open df" => op \in FileOps \cup {"select_user", "list_files"}
  /\ p = "check bf" => op \in FileOps
  /\ p = "verify" => op = "unregister" \/ (op \in FileOps /\ file \in Files)
  /\ p \in BfSteps => file \in Files
  /\ p \in {"create bf"} \cup CreateSteps => op = "create_bf"

\* The loops stay within their bounds.
LoopOK ==
  /\ pc \notin {"append record", "update binary", "read binary", "returned"} => i = 0
  /\ pc = "append record" => i < NRecords
  /\ pc = "update binary" => i < NChunks
  /\ pc = "read binary" => i < len

\* What apdu_rsp holds at three exchanges.  A file that the client takes to be
\* missing is missing: "not found" was not in apdu_rsp when it was asked for.
\* The 9000 after VERIFY is then fresh as well, so the element has really
\* verified the password before CREATE.
RspFits ==
  /\ pc = "check bf" => sw = "ok"
  /\ pc = "verify" /\ op = "create_bf" /\ ~ exists => sw = "not found"
  /\ pc = "create bf" => dir = user /\ auth /\ pin[user] = pwd

StorageInv == TypeOK /\ Fits(pc) /\ LoopOK /\ RspFits

\* Creation at this step, for CreatesInOwnDf.
CreationOK ==
  \A u \in Users, n \in Nodes :
    lcs[u][n] = "none" /\ lcs'[u][n] # "none" =>
      /\ user = u
      /\ \/ op = "register" /\ n \notin Files
         \/ op = "create_bf" /\ n = file /\ auth /\ pwd = pin[u]

\* No exchange is called as the states between and after calls.
LEMMA StepNames ==
  /\ RegSteps \subseteq Steps /\ BfSteps \subseteq Steps
  /\ "idle" \notin Steps /\ "returned" \notin Steps
  /\ \A n \in {"df", "arr", "kf"} : n \notin Files
BY ElementAssumption DEF RegSteps, BfSteps, RegisterSteps, CreateSteps, Steps

\* There is a record to append and a chunk to write.
LEMMA AtLeastOne == 0 < NRecords /\ 0 < NChunks
<1>1. NRecords \in Nat \ {0} /\ NChunks \in Nat \ {0}
  BY ElementAssumption
<1>. QED
  BY <1>1

\* A command other than CREATE creates nothing.
LEMMA NoCreation ==
  ASSUME NEW c, Creates(c), c.ins # "CREATE"
  PROVE  CreationOK
BY DEF Creates, CreationOK

\* With the files unchanged nothing comes into being.
LEMMA NothingCreated ==
  ASSUME UNCHANGED lcs
  PROVE  CreationOK
BY DEF CreationOK

\* The CREATE of a registration creates in the DF of the user it registers.
LEMMA RegisterCreates ==
  ASSUME NEW n \in {"df", "arr", "kf"}, op = "register", Creates(CreateFile(n))
  PROVE  CreationOK
<1>1. n \notin Files /\ Home(user, n) = user
  BY StepNames DEF Home
<1>. QED
  BY <1>1 DEF CreationOK, Creates, CreateFile, Apdu

\* An exchange of the types it needs, and the variables it leaves alone.
LEMMA Exchange ==
  ASSUME TypeOK, NEW c, CommandOK(c), Send(c)
  PROVE  CardTypeOK' /\ RspTypeOK' /\ Creates(c)
BY SendIs DEF TypeOK, RspTypeOK

\* The call's arguments do not change while it is under way.
LEMMA FitsStable ==
  ASSUME NEW p, Fits(p), pc' = p, UNCHANGED callVars
  PROVE  Fits(pc)'
BY DEF Fits, callVars

ClientTypeOK ==
  /\ pc \in Steps \cup {"idle", "returned"}
  /\ op \in Ops \cup {"none"}
  /\ user \in Users \cup {BadUser} /\ file \in Files \cup {BadFile}
  /\ pwd \in Passwords \cup {BadPassword} /\ val \in Values \cup {None}
  /\ session \in BOOLEAN
  /\ exists \in BOOLEAN
  /\ i \in 0..NRecords + NChunks /\ len \in 0..NChunks
  /\ buf \in [1..NChunks -> Payloads]
  /\ found \subseteq Users \cup Nodes /\ repeated \in BOOLEAN
  /\ ret \in Statuses \cup {NoStatus}

\* Steps that touch neither the loop variables nor the results.
LEMMA PlainStep ==
  ASSUME StorageInv, CardTypeOK', RspTypeOK', NEW p, Fits(p), pc' = p,
         UNCHANGED <<callVars, session, i, len, buf, found, repeated>>,
         exists' \in BOOLEAN, ret' \in Statuses \cup {NoStatus},
         i = 0 \/ p = "returned", p # "read binary"
  PROVE  TypeOK' /\ Fits(pc)' /\ LoopOK'
<1>1. ClientTypeOK'
  BY DEF StorageInv, TypeOK, ClientTypeOK, Fits, callVars
<1>2. TypeOK'
  BY <1>1 DEF TypeOK, RspTypeOK, ClientTypeOK
<1>3. Fits(pc)'
  BY FitsStable
<1>4. LoopOK'
  <2>1. 0 < NRecords /\ 0 < NChunks
    BY AtLeastOne
  <2>2. i' = i /\ len' = len /\ pc' = p
    OBVIOUS
  <2>. QED
    BY <2>1, <2>2 DEF LoopOK
<1>. QED
  BY <1>2, <1>3, <1>4

\* An exchange that the call goes on from only with 9000.
LEMMA CheckedIs ==
  ASSUME StorageInv, NEW step, NEW c, NEW next, Checked(step, c, next),
         CommandOK(c), i = 0, Fits(next), next \in Steps \cup {"returned"},
         next \notin {"read binary", "check bf", "verify", "create bf"}
  PROVE  StorageInv' /\ Creates(c)
<1>1. CardTypeOK' /\ RspTypeOK' /\ Creates(c)
  BY Exchange DEF Checked, StorageInv
<1>2. UNCHANGED <<callVars, session, workVars>>
  BY DEF Checked
<1>3. \/ pc' = next /\ ret' \in {ret, "OK"}
      \/ pc' = "returned" /\ ret' = "UNKNOWN_ERROR"
  BY DEF Checked, Proceed, Return, Goto
<1>4. Fits("returned")
  BY StepNames DEF Fits, RegSteps, BfSteps, RegisterSteps, CreateSteps
<1>5. TypeOK' /\ Fits(pc)' /\ LoopOK'
  BY <1>1, <1>2, <1>3, <1>4, PlainStep DEF workVars, StorageInv, TypeOK, Statuses
<1>6. RspFits'
  BY <1>3 DEF RspFits
<1>. QED
  BY <1>1, <1>5, <1>6 DEF StorageInv

\* An exchange whose failure the call goes on from all the same.
LEMMA IgnoredIs ==
  ASSUME StorageInv, NEW step, NEW c, NEW next, NEW skip, Ignored(step, c, next, skip),
         CommandOK(c), i = 0, Fits(next), Fits(skip),
         next \in Steps, skip \in Steps,
         next \notin {"read binary", "check bf", "verify", "create bf"},
         skip \notin {"read binary", "check bf", "verify", "create bf"}
  PROVE  StorageInv' /\ Creates(c)
<1>1. CardTypeOK' /\ RspTypeOK' /\ Creates(c)
  BY Exchange DEF Ignored, StorageInv
<1>2. UNCHANGED <<callVars, session, workVars>> /\ ret' = ret /\ pc' \in {next, skip}
  BY DEF Ignored, Goto
<1>3. TypeOK' /\ Fits(pc)' /\ LoopOK'
  BY <1>1, <1>2, PlainStep DEF workVars, StorageInv, TypeOK
<1>4. RspFits'
  BY <1>2 DEF RspFits
<1>. QED
  BY <1>1, <1>3, <1>4 DEF StorageInv

-----------------------------------------------------------------------------
(* The commands the client sends, and the steps that lead to one another.   *)

Plain == {"SELECT AID", "APPEND RECORD", "ACTIVATE", "DELETE", "SELECT FIRST", "SELECT NEXT"}

\* The commands the client sends have the types their instructions ask for.
LEMMA Commands ==
  /\ \A n : UserFile(n).ins = "SELECT" /\ CreateFile(n).ins = "CREATE"
  /\ user \in Users => \A n \in Nodes : CommandOK(UserFile(n)) /\ CommandOK(CreateFile(n))
  /\ \A ins \in Plain : CommandOK(Current(ins)) /\ Current(ins).ins = ins
BY DEF CommandOK, UserFile, CreateFile, Current, Apdu, Plain

\* No call, or a call that has returned, asks nothing of its arguments.
LEMMA FitsReturned == Fits("returned") /\ Fits("idle")
BY DEF Fits, Steps, RegSteps, BfSteps, RegisterSteps, CreateSteps

\* The steps of a registration share what they need, and so do those of the
\* creation, the reading and the deletion of a file.
LEMMA RegisterFits ==
  ASSUME Fits(pc), pc \in RegSteps, NEW p \in RegSteps
  PROVE  Fits(p) /\ user \in Users /\ pwd \in Passwords /\ op = "register"
BY DEF Fits, Steps, RegSteps, BfSteps, RegisterSteps, CreateSteps, PasswordOps, FileOps

\* At the steps of a creation the call is create_bf_file with a good file id.
LEMMA CreateFits ==
  ASSUME Fits(pc), pc \in {"create bf"} \cup CreateSteps, NEW p \in CreateSteps
  PROVE  Fits(p) /\ user \in Users /\ pwd \in Passwords /\ file \in Files
         /\ op = "create_bf" /\ val \in Values
BY DEF Fits, Steps, RegSteps, BfSteps, RegisterSteps, CreateSteps, PasswordOps, FileOps

\* At the steps of reading and deletion the user and the file id are good ones.
LEMMA FileFits ==
  ASSUME Fits(pc), pc \in {"select bf read", "read binary", "select bf delete", "delete bf"},
         NEW p \in {"read binary", "delete bf"}
  PROVE  Fits(p) /\ user \in Users /\ file \in Files
BY DEF Fits, Steps, RegSteps, BfSteps, RegisterSteps, CreateSteps

\* At the steps of unregistration the user is a good one.
LEMMA UnregisterFits ==
  ASSUME Fits(pc), pc \in {"select df delete", "delete df"}
  PROVE  Fits("delete df") /\ user \in Users
BY DEF Fits, Steps, RegSteps, BfSteps, RegisterSteps, CreateSteps

\* The two facts a step has to keep.
Kept == StorageInv' /\ CreationOK

(* register_new_user_impl *)

\* What the commands of a registration create.
LEMMA RegisterCommand ==
  ASSUME StorageInv, pc \in RegSteps, NEW c, Creates(c),
         c.ins # "CREATE" \/ \E n \in {"df", "arr", "kf"} : c = CreateFile(n)
  PROVE  CreationOK
<1>1. op = "register"
  BY DEF StorageInv, Fits
<1>. QED
  BY <1>1, NoCreation, RegisterCreates

\* Steps of a registration that end it when the status word is not 9000.
LEMMA RegisterChecked ==
  ASSUME StorageInv, NEW step \in RegSteps \ {"append record"}, NEW c,
         NEW next \in RegisterSteps \cup {"returned"}, Checked(step, c, next),
         CommandOK(c),
         c.ins # "CREATE" \/ \E n \in {"df", "arr", "kf"} : c = CreateFile(n)
  PROVE  Kept
<1>1. pc = step /\ i = 0
  BY DEF Checked, StorageInv, LoopOK, RegSteps, RegisterSteps
<1>2. Fits(next)
  BY <1>1, RegisterFits, FitsReturned DEF StorageInv, RegSteps
<1>3. next \in Steps \cup {"returned"}
      /\ next \notin {"read binary", "check bf", "verify", "create bf"}
  BY DEF RegisterSteps, Steps
<1>. QED
  BY <1>1, <1>2, <1>3, CheckedIs, RegisterCommand DEF Kept

\* Steps of create_kf_pin_file, which ignores failures.
LEMMA RegisterIgnored ==
  ASSUME StorageInv, NEW step \in RegSteps \ {"append record"}, NEW c,
         NEW next \in RegisterSteps, NEW skip \in RegisterSteps,
         Ignored(step, c, next, skip), CommandOK(c),
         c.ins # "CREATE" \/ \E n \in {"df", "arr", "kf"} : c = CreateFile(n)
  PROVE  Kept
<1>1. pc = step /\ i = 0
  BY DEF Ignored, StorageInv, LoopOK, RegSteps, RegisterSteps
<1>2. Fits(next) /\ Fits(skip)
  BY <1>1, RegisterFits DEF StorageInv, RegSteps
<1>3. /\ next \in Steps /\ skip \in Steps
      /\ next \notin {"read binary", "check bf", "verify", "create bf"}
      /\ skip \notin {"read binary", "check bf", "verify", "create bf"}
  BY DEF RegisterSteps, Steps
<1>. QED
  BY <1>1, <1>2, <1>3, IgnoredIs, RegisterCommand DEF Kept

\* The loop of do_add_record_efarr_file.
LEMMA AddRecordKept == ASSUME StorageInv, AddRecordEfArr PROVE Kept
<1>1. pc = "append record" /\ Send(Current("APPEND RECORD"))
      /\ CommandOK(Current("APPEND RECORD")) /\ Current("APPEND RECORD").ins # "CREATE"
  BY Commands DEF AddRecordEfArr, Plain
<1>2. CardTypeOK' /\ RspTypeOK' /\ Creates(Current("APPEND RECORD"))
  BY <1>1, Exchange DEF StorageInv
<1>3. Fits("append record") /\ Fits("select arr use") /\ Fits("returned")
  BY <1>1, RegisterFits, FitsReturned DEF StorageInv, RegSteps, RegisterSteps
<1>4. i \in Nat /\ i < NRecords /\ NRecords \in Nat /\ NChunks \in Nat
  <2>1. NRecords \in Nat \ {0} /\ NChunks \in Nat \ {0}
    BY ElementAssumption
  <2>2. i \in 0..NRecords + NChunks
    BY DEF StorageInv, TypeOK
  <2>3. i < NRecords
    BY <1>1 DEF StorageInv, LoopOK
  <2>. QED
    BY <2>1, <2>2, <2>3
<1>5. /\ UNCHANGED <<callVars, session, exists, len, buf, found, repeated>>
      /\ i' \in {0, i + 1}
      /\ ret' \in {ret, "UNKNOWN_ERROR"}
      /\ \/ pc' = "append record" /\ i' < NRecords
         \/ pc' \in {"returned", "select arr use"} /\ i' = 0
  BY <1>4, AtLeastOne DEF AddRecordEfArr, Return, Goto
<1>6. i' \in 0..NRecords + NChunks
  <2>1. i + 1 \in 0..NRecords + NChunks /\ 0 \in 0..NRecords + NChunks
    BY <1>4
  <2>. QED
    BY <1>5, <2>1
<1>7. Fits(pc)'
  BY <1>3, <1>5, FitsStable
<1>8. TypeOK'
  <2>1. pc' \in Steps \cup {"idle", "returned"} /\ ret' \in Statuses \cup {NoStatus}
    BY <1>5 DEF Steps, Statuses, StorageInv, TypeOK
  <2>2. ClientTypeOK'
    BY <1>5, <1>6, <2>1 DEF ClientTypeOK, TypeOK, StorageInv, callVars
  <2>. QED
    BY <1>2, <2>2 DEF TypeOK, RspTypeOK, ClientTypeOK
<1>9. LoopOK' /\ RspFits'
  BY <1>5 DEF LoopOK, RspFits
<1>10. CreationOK
  BY <1>1, <1>2, NoCreation
<1>. QED
  BY <1>7, <1>8, <1>9, <1>10 DEF Kept, StorageInv

\* Every step of register_new_user_impl.
LEMMA RegisterKept == ASSUME StorageInv, RegisterStep PROVE Kept
<1>. USE DEF RegSteps, RegisterSteps, Plain
<1>1. user \in Users /\ pwd \in Passwords
  <2>1. pc \in RegSteps
    BY DEF RegisterStep, Checked, Ignored, CreateUserDf, CreateUserEfArr, SelectUserEfArr,
           AddRecordEfArr, SelectArrUse, ActivateArr, CreateKf, SelectKf, ChangeRefData,
           SelectKfUse, ActivateKf, SelectDfUse, ActivateDf
  <2>. QED
    BY <2>1, RegisterFits DEF StorageInv
<1>2. \A n \in {"df", "arr", "kf"} :
        /\ CommandOK(UserFile(n)) /\ UserFile(n).ins # "CREATE"
        /\ CommandOK(CreateFile(n))
  BY <1>1, Commands, NodeNames
<1>3. CommandOK(Current("ACTIVATE")) /\ Current("ACTIVATE").ins # "CREATE"
  BY Commands
<1>4. CASE CreateUserDf
  BY <1>2, <1>4, RegisterChecked DEF CreateUserDf
<1>5. CASE CreateUserEfArr
  BY <1>2, <1>5, RegisterChecked DEF CreateUserEfArr
<1>6. CASE SelectUserEfArr
  BY <1>2, <1>6, RegisterChecked DEF SelectUserEfArr
<1>7. CASE AddRecordEfArr
  BY <1>7, AddRecordKept
<1>8. CASE SelectArrUse
  BY <1>2, <1>8, RegisterChecked DEF SelectArrUse
<1>9. CASE ActivateArr
  BY <1>3, <1>9, RegisterChecked DEF ActivateArr
<1>10. CASE CreateKf
  BY <1>2, <1>10, RegisterIgnored DEF CreateKf
<1>11. CASE SelectKf
  BY <1>2, <1>11, RegisterIgnored DEF SelectKf
<1>12. CASE ChangeRefData
  <2>1. LET c == Apdu("CHANGE REFERENCE DATA", user, "kf", pwd) IN
          CommandOK(c) /\ c.ins # "CREATE"
    BY <1>1 DEF CommandOK, Apdu
  <2>. QED
    BY <1>12, <2>1, RegisterIgnored DEF ChangeRefData
<1>13. CASE SelectKfUse
  BY <1>2, <1>13, RegisterIgnored DEF SelectKfUse
<1>14. CASE ActivateKf
  BY <1>3, <1>14, RegisterIgnored DEF ActivateKf
<1>15. CASE SelectDfUse
  BY <1>2, <1>15, RegisterChecked DEF SelectDfUse
<1>16. CASE ActivateDf
  BY <1>3, <1>16, RegisterChecked DEF ActivateDf
<1>. QED
  BY <1>4, <1>5, <1>6, <1>7, <1>8, <1>9, <1>10, <1>11, <1>12, <1>13, <1>14, <1>15,
     <1>16 DEF RegisterStep

-----------------------------------------------------------------------------
(* Between calls, and what all calls share.                                 *)

\* The count of lost answers stays within its bound.
LEMMA LoseKept == ASSUME StorageInv, lost' = lost \/ Lose PROVE lost' \in 0..MaxLost
<1>1. lost \in 0..MaxLost /\ MaxLost \in Nat
  BY StorageAssumption DEF StorageInv, TypeOK
<1>2. ASSUME lost < MaxLost PROVE lost + 1 \in 0..MaxLost
  BY <1>1, <1>2
<1>. QED
  BY <1>1, <1>2 DEF Lose

\* A step to the state between two calls.
LEMMA IdleKept ==
  ASSUME StorageInv, CardTypeOK', RspTypeOK', session' \in BOOLEAN, Idle, UNCHANGED lcs
  PROVE  Kept
<1>1. ClientTypeOK'
  <2>1. 0 \in 0..NRecords + NChunks /\ 0 \in 0..NChunks
    BY ElementAssumption
  <2>2. Blank \in [1..NChunks -> Payloads]
    BY DEF Blank, Payloads
  <2>. QED
    BY <2>1, <2>2 DEF Idle, ClientTypeOK
<1>2. TypeOK'
  BY <1>1 DEF TypeOK, RspTypeOK, ClientTypeOK
<1>3. Fits(pc)'
  BY DEF Fits, Idle, Steps, RegSteps, BfSteps, RegisterSteps, CreateSteps
<1>4. LoopOK' /\ RspFits'
  BY DEF LoopOK, RspFits, Idle
<1>. QED
  BY <1>2, <1>3, <1>4, NothingCreated DEF Kept, StorageInv

\* The state of a process that has just started.
LEMMA RestartKept ==
  ASSUME StorageInv, Restart, lost' \in 0..MaxLost
  PROVE  Kept
<1>1. CardTypeOK' /\ UNCHANGED lcs
  BY CardUnchanged DEF Restart, StorageInv, TypeOK, cardVars, fileVars
<1>2. RspTypeOK'
  BY DEF RspTypeOK, Restart, Status, Payloads
<1>3. Idle /\ session' \in BOOLEAN
  BY DEF Restart
<1>. QED
  BY <1>1, <1>2, <1>3, IdleKept

\* A call with any arguments.
LEMMA CallKept == ASSUME StorageInv, Call PROVE Kept
<1>1. PICK o \in Ops, u \in Users \cup {BadUser}, f \in Files \cup {BadFile},
           p \in Passwords \cup {BadPassword}, v \in Values \cup {None} :
        /\ Arguments(o, u, f, p, v)
        /\ op' = o /\ user' = u /\ file' = f /\ pwd' = p /\ val' = v
  BY DEF Call
<1>2. /\ pc = "idle" /\ pc' = "select aid"
      /\ UNCHANGED <<cardVars, session, rspVars, workVars, ret, lost>>
  BY DEF Call
<1>3. CardTypeOK' /\ UNCHANGED lcs
  BY <1>2, CardUnchanged DEF StorageInv, TypeOK, cardVars, fileVars
<1>4. ClientTypeOK'
  BY <1>1, <1>2 DEF ClientTypeOK, StorageInv, TypeOK, workVars, Steps
<1>5. TypeOK'
  BY <1>2, <1>3, <1>4 DEF ClientTypeOK, StorageInv, TypeOK, rspVars
<1>6. Fits(pc)'
  <2>1. o = "create_bf" => v \in Values
    BY <1>1 DEF Arguments
  <2>. QED
    BY <1>1, <1>2, <2>1 DEF Fits, Steps, RegSteps, BfSteps, RegisterSteps, CreateSteps
<1>7. LoopOK' /\ RspFits'
  BY <1>2 DEF LoopOK, RspFits, StorageInv, workVars
<1>. QED
  BY <1>3, <1>5, <1>6, <1>7, NothingCreated DEF Kept, StorageInv

\* The caller takes the result.
LEMMA CallerResumesKept == ASSUME StorageInv, CallerResumes PROVE Kept
<1>1. CardTypeOK' /\ UNCHANGED lcs
  BY CardUnchanged DEF CallerResumes, StorageInv, TypeOK, cardVars, fileVars
<1>2. RspTypeOK' /\ session' \in BOOLEAN
  BY DEF RspTypeOK, CallerResumes, StorageInv, TypeOK, rspVars
<1>. QED
  BY <1>1, <1>2, IdleKept DEF CallerResumes

\* Opening and closing the channel between two calls.
LEMMA ChannelKept == ASSUME StorageInv, OpenChannel \/ CloseChannel PROVE Kept
<1>1. /\ CardTypeOK' /\ UNCHANGED lcs
  BY NodeNames DEF OpenChannel, CloseChannel, StorageInv, TypeOK, CardTypeOK, cardVars,
     fileVars, selectVars
<1>2. /\ pc = "idle" /\ pc' = "idle"
      /\ session' \in BOOLEAN
      /\ UNCHANGED <<callVars, rspVars, workVars, ret, lost>>
  BY DEF OpenChannel, CloseChannel
<1>3. ClientTypeOK'
  BY <1>2 DEF ClientTypeOK, StorageInv, TypeOK, callVars, workVars
<1>4. TypeOK'
  BY <1>1, <1>2, <1>3 DEF ClientTypeOK, StorageInv, TypeOK, rspVars
<1>5. Fits(pc)' /\ LoopOK' /\ RspFits'
  BY <1>2, FitsStable, FitsReturned DEF LoopOK, RspFits, StorageInv, workVars
<1>. QED
  BY <1>1, <1>4, <1>5, NothingCreated DEF Kept, StorageInv

\* do_select_crypto_aid, and the checks of the arguments that follow it.
LEMMA SelectAidKept == ASSUME StorageInv, SelectCryptoAid PROVE Kept
<1>. DEFINE c == Current("SELECT AID")
<1>1. pc = "select aid" /\ UNCHANGED <<callVars, session, rspVars, workVars>>
  BY DEF SelectCryptoAid
<1>2. UNCHANGED cardVars \/ \E x \in Answers(c) : Execute(c, x)
  BY DEF SelectCryptoAid
<1>3. CardTypeOK' /\ CreationOK
  <2>1. CommandOK(c) /\ c.ins # "CREATE"
    BY Commands DEF Plain
  <2>2. CardTypeOK
    BY DEF StorageInv, TypeOK
  <2>. QED
    BY <1>2, <2>1, <2>2, ExecuteIs, CardUnchanged, NoCreation
<1>4. lost' \in 0..MaxLost
  <2>1. lost' = lost \/ Lose
    BY DEF SelectCryptoAid
  <2>. QED
    BY <2>1, LoseKept
<1>5. RspTypeOK'
  BY <1>1, <1>4 DEF RspTypeOK, StorageInv, TypeOK, rspVars
<1>6. \/ pc' = "returned" /\ ret' \in Statuses
      \/ AfterAid
  BY DEF SelectCryptoAid, Return, Statuses
<1>7. \/ pc' = "returned" /\ ret' \in Statuses
      \/ pc' = "list first" /\ ret' = ret /\ op = "list_users"
      \/ pc' = "check df" /\ ret' = ret /\ op # "list_users" /\ user # BadUser
         /\ (op \in PasswordOps => pwd # BadPassword)
  BY <1>6 DEF AfterAid, Goto, Return, Statuses
<1>8. Fits(pc') /\ ret' \in Statuses \cup {NoStatus}
  BY <1>1, <1>7, FitsReturned
     DEF Fits, StorageInv, TypeOK, Steps, RegSteps, BfSteps, RegisterSteps, CreateSteps
<1>9. TypeOK' /\ Fits(pc)' /\ LoopOK'
  <2>1. i = 0 /\ exists' \in BOOLEAN /\ pc' # "read binary"
    BY <1>1, <1>7 DEF StorageInv, LoopOK, TypeOK, workVars
  <2>. QED
    BY <1>1, <1>3, <1>5, <1>8, <2>1, PlainStep DEF workVars
<1>10. RspFits'
  BY <1>7 DEF RspFits
<1>. QED
  BY <1>3, <1>9, <1>10 DEF Kept, StorageInv

\* do_check_fid_existence of the user's DF.
LEMMA CheckUserKept == ASSUME StorageInv, CheckUserDf PROVE Kept
<1>1. /\ pc = "check df" /\ Send(UserFile("df")) /\ exists' = (sw' = "ok")
      /\ UNCHANGED <<callVars, session, i, len, buf, found, repeated>>
  BY DEF CheckUserDf
<1>2. user \in Users /\ op \in Ops \ {"list_users"} /\ (op \in PasswordOps => pwd \in Passwords)
      /\ (op = "create_bf" => val \in Values) /\ i = 0
  BY <1>1 DEF StorageInv, Fits, LoopOK, Steps
<1>3. CommandOK(UserFile("df")) /\ UserFile("df").ins # "CREATE"
  BY <1>2, Commands, NodeNames
<1>4. CardTypeOK' /\ RspTypeOK' /\ CreationOK
  BY <1>1, <1>3, Exchange, NoCreation DEF StorageInv
<1>5. \/ pc' = "returned" /\ ret' \in Statuses
      \/ pc' = "verify" /\ ret' = ret /\ op = "unregister"
      \/ pc' = "open df" /\ ret' = ret /\ op \in FileOps \cup {"select_user", "list_files"}
      \/ pc' = "create df" /\ ret' = ret /\ op = "register"
  <2>1. sw' \in Status
    BY <1>4 DEF RspTypeOK
  <2>2. op \notin {"is_registered", "register", "unregister"} =>
          op \in FileOps \cup {"select_user", "list_files"}
    BY <1>2 DEF Ops, FileOps
  <2>. QED
    BY <2>1, <2>2 DEF CheckUserDf, Return, Goto, Status, Statuses
<1>6. Fits(pc') /\ ret' \in Statuses \cup {NoStatus}
  <2>1. ret \in Statuses \cup {NoStatus}
    BY DEF StorageInv, TypeOK
  <2>2. ASSUME op = "unregister" PROVE Fits("verify")
    BY <1>2, <2>2 DEF Fits, Steps, RegSteps, BfSteps, RegisterSteps, CreateSteps
  <2>3. op \in FileOps \cup {"select_user", "list_files"} => Fits("open df")
    BY <1>2 DEF Fits, Steps, RegSteps, BfSteps, RegisterSteps, CreateSteps
  <2>4. op = "register" => Fits("create df")
    BY <1>2 DEF Fits, Steps, RegSteps, BfSteps, RegisterSteps, CreateSteps
  <2>. QED
    BY <1>5, <2>1, <2>2, <2>3, <2>4, FitsReturned
<1>7. TypeOK' /\ Fits(pc)' /\ LoopOK'
  <2>1. exists' \in BOOLEAN /\ pc' # "read binary"
    BY <1>1, <1>5
  <2>. QED
    BY <1>1, <1>2, <1>4, <1>6, <2>1, PlainStep
<1>8. RspFits'
  BY <1>1, <1>5 DEF RspFits, callVars
<1>. QED
  BY <1>4, <1>7, <1>8 DEF Kept, StorageInv

\* open_user_df, and what each call goes on with.
LEMMA OpenUserKept == ASSUME StorageInv, OpenUserDf PROVE Kept
<1>1. /\ pc = "open df" /\ Send(UserFile("df"))
      /\ UNCHANGED <<callVars, session, workVars>>
  BY DEF OpenUserDf
<1>2. user \in Users /\ op \in FileOps \cup {"select_user", "list_files"}
      /\ (op \in PasswordOps => pwd \in Passwords)
      /\ op \in Ops /\ (op = "create_bf" => val \in Values) /\ i = 0
  BY <1>1 DEF StorageInv, Fits, LoopOK, Steps
<1>3. CommandOK(UserFile("df")) /\ UserFile("df").ins # "CREATE"
  BY <1>2, Commands, NodeNames
<1>4. CardTypeOK' /\ RspTypeOK' /\ CreationOK
  BY <1>1, <1>3, Exchange, NoCreation DEF StorageInv
<1>5. \/ pc' = "returned" /\ ret' \in Statuses
      \/ pc' = "list first" /\ ret' = ret /\ op = "list_files"
      \/ pc' = "check bf" /\ ret' = ret /\ op \in FileOps /\ file # BadFile /\ sw' = "ok"
  BY <1>2 DEF OpenUserDf, Return, Goto, Statuses, FileOps
<1>6. Fits(pc') /\ ret' \in Statuses \cup {NoStatus}
  BY <1>2, <1>5, FitsReturned
     DEF Fits, StorageInv, TypeOK, Steps, RegSteps, BfSteps, RegisterSteps, CreateSteps,
         FileOps
<1>7. TypeOK' /\ Fits(pc)' /\ LoopOK'
  <2>1. exists' \in BOOLEAN /\ pc' # "read binary"
    BY <1>1, <1>5 DEF StorageInv, TypeOK, workVars
  <2>. QED
    BY <1>1, <1>2, <1>4, <1>6, <2>1, PlainStep DEF workVars
<1>8. RspFits'
  BY <1>5 DEF RspFits
<1>. QED
  BY <1>4, <1>7, <1>8 DEF Kept, StorageInv

\* The 9000 of the SELECT before is in apdu_rsp, so a "not found" can only be
\* the answer to this command.
LEMMA CheckBfKept == ASSUME StorageInv, CheckBf PROVE Kept
<1>1. /\ pc = "check bf" /\ Send(UserFile(file)) /\ exists' = (sw' = "ok")
      /\ UNCHANGED <<callVars, session, i, len, buf, found, repeated>>
  BY DEF CheckBf
<1>2. user \in Users /\ file \in Files /\ op \in FileOps /\ pwd \in Passwords
      /\ (op = "create_bf" => val \in Values) /\ i = 0
  BY <1>1 DEF StorageInv, Fits, LoopOK, Steps, BfSteps, PasswordOps
<1>3. CommandOK(UserFile(file)) /\ UserFile(file).ins # "CREATE"
  BY <1>2, Commands, NodeNames
<1>4. CardTypeOK' /\ RspTypeOK' /\ CreationOK
  BY <1>1, <1>3, Exchange, NoCreation DEF StorageInv
<1>5. \/ pc' = "returned" /\ ret' \in Statuses
      \/ pc' = "verify" /\ ret' = ret /\ sw' # "refused"
  BY DEF CheckBf, Return, Goto, Statuses
<1>6. Fits(pc') /\ ret' \in Statuses \cup {NoStatus}
  BY <1>2, <1>5, FitsReturned
     DEF Fits, StorageInv, TypeOK, Steps, RegSteps, BfSteps, RegisterSteps, CreateSteps,
         Ops, FileOps
<1>7. TypeOK' /\ Fits(pc)' /\ LoopOK'
  <2>1. exists' \in BOOLEAN /\ pc' # "read binary"
    BY <1>1, <1>5
  <2>. QED
    BY <1>1, <1>2, <1>4, <1>6, <2>1, PlainStep
<1>8. RspFits'
  BY <1>1, <1>4, <1>5 DEF RspFits, RspTypeOK, Status
<1>. QED
  BY <1>4, <1>7, <1>8 DEF Kept, StorageInv

\* VERIFY carried out is VERIFY of the user's password, and no file changes.
LEMMA VerifyIs ==
  ASSUME NEW x, NEW p, Accepts(Apdu("VERIFY", user, "kf", p)),
         Execute(Apdu("VERIFY", user, "kf", p), x)
  PROVE  dir' = user /\ auth' /\ pin'[user] = p
BY DEF Apdu, Accepts, Execute, SelectAid, Select, Create, AppendRecord,
       ChangeReferenceData, Activate, DeleteDf, DeleteFile, Verify, UpdateBinary, List,
       fileVars

\* do_verify_pin, and what each call goes on with.
LEMMA VerifyKept == ASSUME StorageInv, VerifyPin PROVE Kept
<1>. DEFINE c == Apdu("VERIFY", user, "kf", pwd)
<1>1. /\ pc = "verify" /\ Send(c)
      /\ UNCHANGED <<callVars, session, workVars>>
  BY DEF VerifyPin
<1>2. /\ user \in Users /\ pwd \in Passwords /\ i = 0 /\ op \in Ops
      /\ op = "unregister" \/ (op \in FileOps /\ file \in Files)
      /\ op = "create_bf" => val \in Values
  BY <1>1 DEF StorageInv, Fits, LoopOK, Steps, PasswordOps
<1>3. CommandOK(c) /\ c.ins # "CREATE"
  BY DEF CommandOK, Apdu
<1>4. CardTypeOK' /\ RspTypeOK' /\ CreationOK
  BY <1>1, <1>3, Exchange, NoCreation DEF StorageInv
<1>5. \/ pc' = "returned" /\ ret' \in Statuses
      \/ pc' = "select df delete" /\ ret' = ret /\ op = "unregister"
      \/ pc' = "create bf" /\ ret' = ret /\ op = "create_bf" /\ ~ exists /\ sw' = "ok"
      \/ pc' \in {"select bf read", "select bf delete"} /\ ret' = ret /\ op \in FileOps
  BY <1>2 DEF VerifyPin, AfterVerify, Return, Goto, Statuses, FileOps
<1>6. Fits(pc') /\ ret' \in Statuses \cup {NoStatus}
  BY <1>2, <1>5, FitsReturned
     DEF Fits, StorageInv, TypeOK, Steps, RegSteps, BfSteps, RegisterSteps, CreateSteps,
         FileOps
<1>7. TypeOK' /\ Fits(pc)' /\ LoopOK'
  <2>1. exists' \in BOOLEAN /\ pc' # "read binary"
    BY <1>1, <1>5 DEF StorageInv, TypeOK, workVars
  <2>. QED
    BY <1>1, <1>2, <1>4, <1>6, <2>1, PlainStep DEF workVars
<1>8. RspFits'
  <2>1. CASE pc' # "create bf"
    BY <1>5, <2>1 DEF RspFits
  <2>2. CASE pc' = "create bf"
    <3>1. op = "create_bf" /\ ~ exists /\ sw' = "ok" /\ sw = "not found"
      BY <1>1, <1>5, <2>2 DEF StorageInv, RspFits
    <3>2. Answered(c)
      BY <1>1, <3>1, FreshAnswer
    <3>3. PICK x \in Answers(c) : Execute(c, x) /\ sw' = StatusOf(c)
      BY <3>2 DEF Answered
    <3>4. Accepts(c)
      BY <3>1, <3>3 DEF StatusOf
    <3>5. dir' = user /\ auth' /\ pin'[user] = pwd
      BY <3>3, <3>4, VerifyIs
    <3>. QED
      BY <1>1, <2>2, <3>5 DEF RspFits, callVars
  <2>. QED
    BY <2>1, <2>2
<1>. QED
  BY <1>4, <1>7, <1>8 DEF Kept, StorageInv

(* unregister_user_impl *)

\* delete_user_df_file.
LEMMA UnregisterKept == ASSUME StorageInv, SelectDfDelete \/ DeleteUserDf PROVE Kept
<1>1. pc \in {"select df delete", "delete df"}
  BY DEF SelectDfDelete, DeleteUserDf, Checked
<1>2. user \in Users /\ i = 0 /\ Fits("delete df") /\ Fits("returned")
  BY <1>1, UnregisterFits, FitsReturned DEF StorageInv, LoopOK
<1>3. CommandOK(UserFile("df")) /\ UserFile("df").ins # "CREATE"
  BY <1>2, Commands, NodeNames
<1>4. CommandOK(Current("DELETE")) /\ Current("DELETE").ins # "CREATE"
  BY Commands DEF Plain
<1>5. CASE SelectDfDelete
  BY <1>2, <1>3, <1>5, CheckedIs, NoCreation DEF SelectDfDelete, Kept, Steps
<1>6. CASE DeleteUserDf
  BY <1>2, <1>4, <1>6, CheckedIs, NoCreation DEF DeleteUserDf, Kept, Steps
<1>. QED
  BY <1>5, <1>6

(* Binary files. *)

\* The CREATE of a binary file: the key has been verified by then.
LEMMA CreateKept == ASSUME StorageInv, CreateBf PROVE Kept
<1>1. pc = "create bf" /\ Checked("create bf", CreateFile(file), "select bf write")
  BY DEF CreateBf, Checked
<1>2. /\ Fits("select bf write") /\ user \in Users /\ file \in Files /\ op = "create_bf"
      /\ i = 0
  BY <1>1, CreateFits DEF StorageInv, LoopOK, CreateSteps
<1>3. CommandOK(CreateFile(file))
  BY <1>2, Commands, NodeNames
<1>4. StorageInv' /\ Creates(CreateFile(file))
  BY <1>1, <1>2, <1>3, CheckedIs DEF Steps
<1>5. dir = user /\ auth /\ pin[user] = pwd
  BY <1>1 DEF StorageInv, RspFits
<1>6. Home(user, file) = user
  BY <1>2, <1>5 DEF Home
<1>7. CreationOK
  BY <1>2, <1>4, <1>5, <1>6 DEF CreationOK, Creates, CreateFile, Apdu
<1>. QED
  BY <1>4, <1>7 DEF Kept

\* The exchanges of create_bf_file_impl outside the loop.
LEMMA CreateRestKept ==
  ASSUME StorageInv, SelectBfWrite \/ SelectBfUse \/ ActivateBf
  PROVE  Kept
<1>1. pc \in CreateSteps \ {"update binary"}
  BY DEF SelectBfWrite, SelectBfUse, ActivateBf, Checked, CreateSteps
<1>2. /\ Fits("update binary") /\ Fits("activate bf") /\ Fits("returned")
      /\ user \in Users /\ file \in Files /\ i = 0
  BY <1>1, CreateFits, FitsReturned DEF StorageInv, LoopOK, CreateSteps
<1>3. CommandOK(UserFile(file)) /\ UserFile(file).ins # "CREATE"
  BY <1>2, Commands, NodeNames
<1>4. CommandOK(Current("ACTIVATE")) /\ Current("ACTIVATE").ins # "CREATE"
  BY Commands DEF Plain
<1>5. CASE SelectBfWrite
  BY <1>2, <1>3, <1>5, CheckedIs, NoCreation DEF SelectBfWrite, Kept, Steps
<1>6. CASE SelectBfUse
  BY <1>2, <1>3, <1>6, CheckedIs, NoCreation DEF SelectBfUse, Kept, Steps
<1>7. CASE ActivateBf
  BY <1>2, <1>4, <1>7, CheckedIs, NoCreation DEF ActivateBf, Kept, Steps
<1>. QED
  BY <1>5, <1>6, <1>7

\* delete_bf_file_impl.
LEMMA DeleteKept == ASSUME StorageInv, SelectBfDelete \/ DeleteBf PROVE Kept
<1>1. pc \in {"select bf delete", "delete bf"}
  BY DEF SelectBfDelete, DeleteBf, Checked, Ignored
<1>2. Fits("delete bf") /\ Fits("returned") /\ user \in Users /\ file \in Files /\ i = 0
  BY <1>1, FileFits, FitsReturned DEF StorageInv, LoopOK
<1>3. CommandOK(UserFile(file)) /\ UserFile(file).ins # "CREATE"
  BY <1>2, Commands, NodeNames
<1>4. CommandOK(Current("DELETE")) /\ Current("DELETE").ins # "CREATE"
  BY Commands DEF Plain
<1>5. CASE SelectBfDelete
  BY <1>2, <1>3, <1>5, IgnoredIs, NoCreation DEF SelectBfDelete, Kept, Steps
<1>6. CASE DeleteBf
  BY <1>2, <1>4, <1>6, CheckedIs, NoCreation DEF DeleteBf, Kept, Steps
<1>. QED
  BY <1>5, <1>6

\* The bounds of the loops over chunks.
LEMMA ChunkBounds ==
  ASSUME StorageInv
  PROVE  /\ i \in Nat /\ len \in Nat /\ len <= NChunks /\ NRecords \in Nat /\ NChunks \in Nat
         /\ i < NChunks => i + 1 \in 1..NChunks /\ i + 1 \in 0..NRecords + NChunks
         /\ i < len => i < NChunks
         /\ 0 \in 0..NRecords + NChunks
<1>1. NRecords \in Nat \ {0} /\ NChunks \in Nat \ {0}
  BY ElementAssumption
<1>2. i \in 0..NRecords + NChunks /\ len \in 0..NChunks
  BY DEF StorageInv, TypeOK
<1>. QED
  BY <1>1, <1>2

\* The loop of do_write_data_into_bf_file.
LEMMA WriteKept == ASSUME StorageInv, WriteBf PROVE Kept
<1>. DEFINE c == Apdu("UPDATE BINARY", user, file, <<i + 1, val>>)
<1>1. pc = "update binary" /\ Send(c)
      /\ UNCHANGED <<callVars, session, exists, len, buf, found, repeated>>
  BY DEF WriteBf
<1>2. /\ Fits("update binary") /\ Fits("select bf use") /\ Fits("returned")
      /\ val \in Values /\ i < NChunks
  BY <1>1, CreateFits, FitsReturned DEF StorageInv, LoopOK, CreateSteps
<1>3. CommandOK(c) /\ c.ins # "CREATE"
  BY <1>2 DEF CommandOK, Apdu
<1>4. CardTypeOK' /\ RspTypeOK' /\ CreationOK
  BY <1>1, <1>3, Exchange, NoCreation DEF StorageInv
<1>5. /\ i' \in {0, i + 1}
      /\ ret' \in {ret, "UNKNOWN_ERROR"}
      /\ \/ pc' = "update binary" /\ i' < NChunks
         \/ pc' \in {"returned", "select bf use"} /\ i' = 0
  BY ChunkBounds DEF WriteBf, Return, Goto
<1>6. i' \in 0..NRecords + NChunks
  BY <1>2, <1>5, ChunkBounds
<1>7. Fits(pc)'
  BY <1>1, <1>2, <1>5, FitsStable
<1>8. ClientTypeOK'
  <2>1. pc' \in Steps \cup {"idle", "returned"} /\ ret' \in Statuses \cup {NoStatus}
    BY <1>5 DEF Steps, Statuses, StorageInv, TypeOK
  <2>. QED
    BY <1>1, <1>6, <2>1 DEF ClientTypeOK, TypeOK, StorageInv, callVars
<1>9. TypeOK'
  BY <1>4, <1>8 DEF TypeOK, RspTypeOK, ClientTypeOK
<1>10. LoopOK' /\ RspFits'
  BY <1>5 DEF LoopOK, RspFits
<1>. QED
  BY <1>4, <1>7, <1>9, <1>10 DEF Kept, StorageInv

\* The size that do_read_data_from_bf_file takes from the FCP.
LEMMA SelectReadKept == ASSUME StorageInv, SelectBfRead PROVE Kept
<1>. DEFINE c == Apdu("SELECT FCP", user, file, None)
<1>1. pc = "select bf read" /\ Send(c)
      /\ UNCHANGED <<callVars, session, exists, i, buf, found, repeated>>
  BY DEF SelectBfRead
<1>2. /\ Fits("read binary") /\ Fits("returned") /\ user \in Users /\ file \in Files
      /\ i = 0
  BY <1>1, FileFits, FitsReturned DEF StorageInv, LoopOK
<1>3. CommandOK(c) /\ c.ins # "CREATE"
  BY <1>2, NodeNames DEF CommandOK, Apdu
<1>4. CardTypeOK' /\ RspTypeOK' /\ CreationOK
  BY <1>1, <1>3, Exchange, NoCreation DEF StorageInv
<1>5. /\ len' \in 0..NChunks
      /\ ret' \in {ret, "UNKNOWN_ERROR", "OK"}
      /\ pc' = "returned" \/ (pc' = "read binary" /\ len' # 0)
  <2>1. CASE Return("UNKNOWN_ERROR") /\ UNCHANGED len
    BY <2>1 DEF Return, StorageInv, TypeOK
  <2>2. CASE /\ len' \in IF payload' \in Files THEN {NChunks} ELSE 0..NChunks
             /\ Proceed(IF len' = 0 THEN "returned" ELSE "read binary")
    <3>1. len' \in 0..NChunks
      <4>1. NChunks \in 0..NChunks
        BY ChunkBounds
      <4>. QED
        BY <2>2, <4>1
    <3>2. CASE len' = 0
      BY <2>2, <3>1, <3>2 DEF Proceed, Return
    <3>3. CASE len' # 0
      BY <2>2, <3>1, <3>3 DEF Proceed, Goto
    <3>. QED
      BY <3>2, <3>3
  <2>. QED
    BY <2>1, <2>2 DEF SelectBfRead
<1>6. pc' \in {"returned", "read binary"}
  BY <1>5
<1>7. Fits(pc)'
  BY <1>1, <1>2, <1>6, FitsStable
<1>8. ClientTypeOK'
  <2>1. pc' \in Steps \cup {"idle", "returned"} /\ ret' \in Statuses \cup {NoStatus}
    BY <1>5 DEF Steps, Statuses, StorageInv, TypeOK
  <2>. QED
    BY <1>1, <1>5, <2>1 DEF ClientTypeOK, TypeOK, StorageInv, callVars
<1>9. TypeOK'
  BY <1>4, <1>8 DEF TypeOK, RspTypeOK, ClientTypeOK
<1>10. LoopOK' /\ RspFits'
  <2>1. i' = 0 /\ (pc' = "read binary" => i' < len')
    <3>1. NChunks \in Nat
      BY ChunkBounds
    <3>2. len' # 0 => 0 < len'
      <4>1. len' \in 0..NChunks
        BY <1>5
      <4>2. \A k \in 0..NChunks : k # 0 => 0 < k
        BY <3>1
      <4>. QED
        BY <4>1, <4>2
    <3>. QED
      BY <1>1, <1>2, <1>5, <3>2
  <2>. QED
    BY <1>6, <2>1 DEF LoopOK, RspFits
<1>. QED
  BY <1>4, <1>7, <1>9, <1>10 DEF Kept, StorageInv

\* The loop of do_read_data_from_bf_file.
LEMMA ReadKept == ASSUME StorageInv, ReadBf PROVE Kept
<1>. DEFINE c == Apdu("READ BINARY", user, file, i + 1)
<1>1. pc = "read binary" /\ Send(c)
      /\ UNCHANGED <<callVars, session, exists, len, found, repeated>>
  BY DEF ReadBf
<1>2. /\ Fits("read binary") /\ Fits("returned") /\ i < len /\ i + 1 \in 1..NChunks
      /\ i + 1 \in 0..NRecords + NChunks
  BY <1>1, FitsReturned, ChunkBounds DEF StorageInv, LoopOK
<1>3. CommandOK(c) /\ c.ins # "CREATE"
  BY <1>2 DEF CommandOK, Apdu
<1>4. CardTypeOK' /\ RspTypeOK' /\ CreationOK
  BY <1>1, <1>3, Exchange, NoCreation DEF StorageInv
<1>5. /\ i' \in {i, i + 1}
      /\ buf' \in {buf, [buf EXCEPT ![i + 1] = payload']}
      /\ ret' \in {ret, "UNKNOWN_ERROR", "OK"}
      /\ pc' = "returned" \/ (pc' = "read binary" /\ i' < len)
  <2>1. CASE sw' # "ok"
    BY <2>1 DEF ReadBf, Return
  <2>2. CASE sw' = "ok" /\ i + 1 < len
    BY <2>2 DEF ReadBf, Proceed, Goto
  <2>3. CASE sw' = "ok" /\ ~ (i + 1 < len)
    BY <2>3 DEF ReadBf, Proceed, Return
  <2>. QED
    BY <2>1, <2>2, <2>3
<1>6. /\ i' \in 0..NRecords + NChunks
      /\ buf' \in [1..NChunks -> Payloads]
  BY <1>2, <1>4, <1>5 DEF StorageInv, TypeOK, RspTypeOK
<1>7. Fits(pc)'
  BY <1>1, <1>2, <1>5, FitsStable
<1>8. ClientTypeOK'
  <2>1. pc' \in Steps \cup {"idle", "returned"} /\ ret' \in Statuses \cup {NoStatus}
    BY <1>5 DEF Steps, Statuses, StorageInv, TypeOK
  <2>. QED
    BY <1>1, <1>6, <2>1 DEF ClientTypeOK, TypeOK, StorageInv, callVars
<1>9. TypeOK'
  BY <1>4, <1>8 DEF TypeOK, RspTypeOK, ClientTypeOK
<1>10. LoopOK' /\ RspFits'
  BY <1>1, <1>5 DEF LoopOK, RspFits
<1>. QED
  BY <1>4, <1>7, <1>9, <1>10 DEF Kept, StorageInv

(* The lists. *)

\* The loops of the two listings.
LEMMA ListKept == ASSUME StorageInv, ListFiles PROVE Kept
<1>. DEFINE c == Current(IF pc = "list first" THEN "SELECT FIRST" ELSE "SELECT NEXT")
<1>1. pc \in {"list first", "list next"} /\ Send(c)
      /\ UNCHANGED <<callVars, session, exists, i, len, buf>>
  BY DEF ListFiles
<1>2. Fits("list next") /\ Fits("returned") /\ i = 0
  BY <1>1, FitsReturned
     DEF StorageInv, LoopOK, Fits, Steps, RegSteps, BfSteps, RegisterSteps, CreateSteps
<1>3. CommandOK(c) /\ c.ins # "CREATE"
  BY Commands DEF Plain
<1>4. CardTypeOK' /\ RspTypeOK' /\ CreationOK
  BY <1>1, <1>3, Exchange, NoCreation DEF StorageInv
<1>5. /\ found' \subseteq Users \cup Nodes /\ repeated' \in BOOLEAN
  BY NodeNames DEF ListFiles, Listed, StorageInv, TypeOK
<1>6. ret' \in {ret, "OK"} /\ pc' \in {"returned", "list next"}
  BY DEF ListFiles, Return, Goto
<1>7. Fits(pc)'
  BY <1>1, <1>2, <1>6, FitsStable
<1>8. ClientTypeOK'
  <2>1. pc' \in Steps \cup {"idle", "returned"} /\ ret' \in Statuses \cup {NoStatus}
    BY <1>6 DEF Steps, Statuses, StorageInv, TypeOK
  <2>. QED
    BY <1>1, <1>5, <2>1 DEF ClientTypeOK, TypeOK, StorageInv, callVars
<1>9. TypeOK'
  BY <1>4, <1>8 DEF TypeOK, RspTypeOK, ClientTypeOK
<1>10. LoopOK' /\ RspFits'
  BY <1>1, <1>2, <1>6 DEF LoopOK, RspFits
<1>. QED
  BY <1>4, <1>7, <1>9, <1>10 DEF Kept, StorageInv

\* The steps at which the process dies.
LEMMA DeathKept == ASSUME StorageInv, Crash \/ ReadNullSize \/ FreeUninitialised PROVE Kept
<1>1. Restart /\ (lost' = lost \/ Lose)
  BY DEF Crash, ReadNullSize, FreeUninitialised
<1>. QED
  BY <1>1, LoseKept, RestartKept

-----------------------------------------------------------------------------
(* The theorems.                                                            *)

\* A first process with an empty element.
LEMMA StorageInit == Init => StorageInv
<1>. SUFFICES ASSUME Init PROVE StorageInv
  OBVIOUS
<1>1. CardTypeOK
  <2>1. NoFiles \in [Nodes -> Lcs]
    BY DEF NoFiles, Lcs
  <2>2. [f \in Files |-> Blank] \in [Files -> [1..NChunks -> Values \cup {None}]]
    BY DEF Blank
  <2>3. 0 \in 0..NRecords
    BY ElementAssumption
  <2>. QED
    BY <2>1, <2>2, <2>3, NodeNames DEF Init, CardInit, SelectInit, CardTypeOK
<1>2. RspTypeOK
  BY StorageAssumption DEF Init, ClientInit, RspTypeOK, Status, Payloads
<1>3. ClientTypeOK
  <2>1. 0 \in 0..NRecords + NChunks /\ 0 \in 0..NChunks
    BY ElementAssumption
  <2>2. Blank \in [1..NChunks -> Payloads]
    BY DEF Blank, Payloads
  <2>. QED
    BY <2>1, <2>2 DEF Init, ClientInit, ClientTypeOK
<1>4. TypeOK
  BY <1>1, <1>2, <1>3 DEF TypeOK, RspTypeOK, ClientTypeOK
<1>5. Fits(pc) /\ LoopOK /\ RspFits
  BY FitsReturned DEF Init, ClientInit, LoopOK, RspFits
<1>. QED
  BY <1>4, <1>5 DEF StorageInv

\* Every step keeps the invariant and creates only where it may.
LEMMA StorageStep == StorageInv /\ Next => Kept
BY CallKept, CallerResumesKept, ChannelKept, SelectAidKept, CheckUserKept, OpenUserKept,
   CheckBfKept, VerifyKept, RegisterKept, UnregisterKept, CreateKept, CreateRestKept,
   WriteKept, SelectReadKept, ReadKept, DeleteKept, ListKept, DeathKept
   DEF Next, ClientStep, FileStep

\* ...and so does a step that changes nothing.
LEMMA StorageStutter == StorageInv /\ UNCHANGED vars => Kept
<1>. SUFFICES ASSUME StorageInv, UNCHANGED vars PROVE Kept
  OBVIOUS
<1>1. /\ UNCHANGED <<lcs, records, pin, data, dir, node, auth, unlisted>>
      /\ UNCHANGED <<pc, op, user, file, pwd, val, session, sw, payload>>
      /\ UNCHANGED <<exists, i, len, buf, found, repeated, ret, lost>>
  BY DEF vars, cardVars, fileVars, selectVars, clientVars, callVars, rspVars, workVars
<1>2. TypeOK'
  BY <1>1 DEF StorageInv, TypeOK, CardTypeOK
<1>3. Fits(pc)'
  BY <1>1, FitsStable DEF StorageInv, callVars
<1>4. LoopOK' /\ RspFits'
  BY <1>1 DEF StorageInv, LoopOK, RspFits
<1>. QED
  BY <1>1, <1>2, <1>3, <1>4, NothingCreated DEF Kept, StorageInv

\* The inductive invariant holds in every behaviour.
LEMMA StorageInvariant == Spec => []StorageInv
<1>1. StorageInv /\ [Next]_vars => StorageInv'
  BY StorageStep, StorageStutter DEF Kept
<1>. QED
  BY <1>1, StorageInit, PTL DEF Spec

\* Every variable of the element and of the client stays in its set, whatever
\* is refused or lost and whenever the process dies: the loops over records and
\* chunks stay within their bounds.
THEOREM StorageTypes == Spec => []TypeOK
<1>1. StorageInv => TypeOK
  BY DEF StorageInv
<1>. QED
  BY <1>1, StorageInvariant, PTL

\* A file comes into being only below the DF of the user of the call under way,
\* and a binary file only after the element has verified that user's password,
\* for any number of lost answers, refusals and crashes.
THEOREM CreationsAreOwned == Spec => CreatesInOwnDf
<1>1. StorageInv /\ [Next]_vars =>
        [\A u \in Users, n \in Nodes :
           lcs[u][n] = "none" /\ lcs'[u][n] # "none" =>
             /\ user = u
             /\ \/ op = "register" /\ n \notin Files
                \/ op = "create_bf" /\ n = file /\ auth /\ pwd = pin[u]]_vars
  BY StorageStep DEF Kept, CreationOK
<1>. QED
  BY <1>1, StorageInvariant, PTL DEF Spec, CreatesInOwnDf

-----------------------------------------------------------------------------
(* As long as no answer has been lost.                                      *)

(* One exchange: either the element has carried out the command and says    *)
(* so, or nothing has changed.                                              *)

\* In a step that loses no answer the command is answered or refused.
LEMMA NothingLost ==
  ASSUME lost' = 0, StorageInv
  PROVE  ~ Lose /\ \A c : Send(c) => Answered(c) \/ Refused
<1>1. lost \in Nat
  BY StorageAssumption DEF StorageInv, TypeOK
<1>2. ~ Lose
  BY <1>1 DEF Lose
<1>. QED
  BY <1>2 DEF Send, Lost

\* 9000 is the answer to this very command, which has been carried out.
LEMMA CommandDone ==
  ASSUME lost' = 0, StorageInv, NEW c, Send(c), sw' = "ok"
  PROVE  Accepts(c) /\ \E x \in Answers(c) : Execute(c, x) /\ payload' = x
<1>1. Answered(c)
  BY NothingLost DEF Refused
<1>2. PICK x \in Answers(c) : Execute(c, x) /\ sw' = StatusOf(c) /\ payload' = x
  BY <1>1 DEF Answered
<1>3. Accepts(c)
  BY <1>2 DEF StatusOf
<1>. QED
  BY <1>2, <1>3

\* Any other status word means that nothing was done.
LEMMA CommandFailed ==
  ASSUME lost' = 0, StorageInv, NEW c, Send(c), sw' # "ok"
  PROVE  /\ UNCHANGED <<lcs, records, pin, data, dir, node, unlisted>>
         /\ sw' # "refused" => ~ Accepts(c)
         /\ "refuse" \notin Faults => ~ Accepts(c)
<1>1. CASE Answered(c)
  <2>1. PICK x \in Answers(c) : Execute(c, x) /\ sw' = StatusOf(c)
    BY <1>1 DEF Answered
  <2>2. ~ Accepts(c)
    BY <2>1 DEF StatusOf
  <2>. QED
    BY <2>1, <2>2 DEF Execute, fileVars
<1>2. CASE Refused
  BY <1>2 DEF Refused, cardVars, fileVars, selectVars
<1>. QED
  BY <1>1, <1>2, NothingLost

\* SELECT and SELECT FCP.
LEMMA SelectDone ==
  ASSUME NEW ins \in {"SELECT", "SELECT FCP"}, NEW u, NEW n, NEW x,
         Accepts(Apdu(ins, u, n, None)), Execute(Apdu(ins, u, n, None), x)
  PROVE  /\ UNCHANGED <<lcs, records, pin, data, unlisted>>
         /\ dir' = Home(u, n) /\ node' = n
         /\ Exists(Home(u, n), n)
BY DEF Apdu, Accepts, Execute, SelectAid, Select, Create, AppendRecord,
       ChangeReferenceData, Activate, DeleteDf, DeleteFile, Verify, UpdateBinary, List,
       fileVars

\* CREATE.
LEMMA CreateDone ==
  ASSUME NEW u, NEW n, NEW x,
         Accepts(Apdu("CREATE", u, n, None)), Execute(Apdu("CREATE", u, n, None), x)
  PROVE  /\ UNCHANGED <<records, pin, data, unlisted>>
         /\ dir' = Home(u, n) /\ node' = n
         /\ lcs' = SetNode(Home(u, n), n, "init")
         /\ ~ Exists(Home(u, n), n)
         /\ n # "df" => Home(u, n) = dir /\ Exists(dir, "df")
BY DEF Apdu, Accepts, Execute, SelectAid, Select, Create, AppendRecord,
       ChangeReferenceData, Activate, DeleteDf, DeleteFile, Verify, UpdateBinary, List,
       fileVars

\* APPEND RECORD.
LEMMA AppendDone ==
  ASSUME NEW x, Accepts(Current("APPEND RECORD")), Execute(Current("APPEND RECORD"), x)
  PROVE  /\ UNCHANGED <<lcs, pin, data, dir, node, unlisted>>
         /\ dir \in Users /\ records' = [records EXCEPT ![dir] = @ + 1]
         /\ CurrentIs("arr") /\ records[dir] < NRecords
BY DEF Current, Apdu, Accepts, Execute, SelectAid, Select, Create, AppendRecord,
       ChangeReferenceData, Activate, DeleteDf, DeleteFile, Verify, UpdateBinary, List,
       fileVars, selectVars, CurrentIs

\* CHANGE REFERENCE DATA.
LEMMA ChangeDone ==
  ASSUME NEW x, NEW u, NEW p, Accepts(Apdu("CHANGE REFERENCE DATA", u, "kf", p)),
         Execute(Apdu("CHANGE REFERENCE DATA", u, "kf", p), x)
  PROVE  /\ UNCHANGED <<lcs, records, data, dir, node, unlisted>>
         /\ dir \in Users /\ pin' = [pin EXCEPT ![dir] = p] /\ CurrentIs("kf")
BY DEF Apdu, Accepts, Execute, SelectAid, Select, Create, AppendRecord,
       ChangeReferenceData, Activate, DeleteDf, DeleteFile, Verify, UpdateBinary, List,
       fileVars, selectVars, CurrentIs

\* ACTIVATE.
LEMMA ActivateDone ==
  ASSUME NEW x, Accepts(Current("ACTIVATE")), Execute(Current("ACTIVATE"), x)
  PROVE  /\ UNCHANGED <<records, pin, data, dir, node, unlisted>>
         /\ lcs' = SetNode(dir, node, "use") /\ CurrentIs(node)
BY DEF Current, Apdu, Accepts, Execute, SelectAid, Select, Create, AppendRecord,
       ChangeReferenceData, Activate, DeleteDf, DeleteFile, Verify, UpdateBinary, List,
       fileVars, selectVars

\* DELETE.
LEMMA DeleteDone ==
  ASSUME NEW x, Accepts(Current("DELETE")), Execute(Current("DELETE"), x)
  PROVE  /\ CurrentIs(node)
         /\ IF node = "df" THEN DeleteDf(Current("DELETE")) ELSE DeleteFile(Current("DELETE"))
BY DEF Current, Apdu, Accepts, Execute, SelectAid, Select, Create, AppendRecord,
       ChangeReferenceData, Activate, DeleteDf, DeleteFile, Verify, UpdateBinary, List,
       fileVars, selectVars

\* VERIFY.
LEMMA VerifyDone ==
  ASSUME NEW x, NEW u, NEW p, Accepts(Apdu("VERIFY", u, "kf", p)),
         Execute(Apdu("VERIFY", u, "kf", p), x)
  PROVE  /\ UNCHANGED <<lcs, records, pin, data, dir, node, unlisted>>
         /\ dir = u /\ u \in Users /\ lcs[u]["kf"] = "use" /\ pin[u] = p
BY DEF Apdu, Accepts, Execute, SelectAid, Select, Create, AppendRecord,
       ChangeReferenceData, Activate, DeleteDf, DeleteFile, Verify, UpdateBinary, List,
       fileVars

\* UPDATE BINARY.
LEMMA UpdateDone ==
  ASSUME NEW x, NEW u, NEW n, NEW a, Accepts(Apdu("UPDATE BINARY", u, n, a)),
         Execute(Apdu("UPDATE BINARY", u, n, a), x)
  PROVE  /\ UNCHANGED <<lcs, records, pin, dir, node, unlisted>>
         /\ data' = [data EXCEPT ![dir][node][a[1]] = a[2]]
         /\ node \in Files /\ CurrentIs(node)
BY DEF Apdu, Accepts, Execute, SelectAid, Select, Create, AppendRecord,
       ChangeReferenceData, Activate, DeleteDf, DeleteFile, Verify, UpdateBinary, List,
       fileVars, selectVars

\* READ BINARY.
LEMMA ReadDone ==
  ASSUME NEW u, NEW n, NEW k, NEW x \in Answers(Apdu("READ BINARY", u, n, k)),
         Accepts(Apdu("READ BINARY", u, n, k)), Execute(Apdu("READ BINARY", u, n, k), x)
  PROVE  /\ UNCHANGED <<lcs, records, pin, data, dir, node, unlisted>>
         /\ node \in Files /\ CurrentIs(node) /\ x = data[dir][node][k]
BY DEF Apdu, Accepts, Execute, SelectAid, Select, Create, AppendRecord,
       ChangeReferenceData, Activate, DeleteDf, DeleteFile, Verify, UpdateBinary, List,
       cardVars, fileVars, selectVars, Answers

\* SELECT first and SELECT next.
LEMMA ListDone ==
  ASSUME NEW ins \in {"SELECT FIRST", "SELECT NEXT"}, NEW x \in Answers(Current(ins)),
         Accepts(Current(ins)), Execute(Current(ins), x)
  PROVE  LET rest == IF ins = "SELECT FIRST" THEN Children(dir) ELSE unlisted IN
           /\ UNCHANGED <<lcs, records, pin, data, dir, node>>
           /\ x \in rest /\ unlisted' = rest \ {x}
BY DEF Current, Apdu, Accepts, Execute, SelectAid, Select, Create, AppendRecord,
       ChangeReferenceData, Activate, DeleteDf, DeleteFile, Verify, UpdateBinary, List,
       fileVars, selectVars, Answers

\* SELECT of the applet.
LEMMA AidDone ==
  ASSUME NEW x, Execute(Current("SELECT AID"), x)
  PROVE  /\ UNCHANGED <<lcs, records, pin, data>>
         /\ dir' = Root /\ unlisted' = {}
BY DEF Current, Apdu, Accepts, Execute, SelectAid, Select, Create, AppendRecord,
       ChangeReferenceData, Activate, DeleteDf, DeleteFile, Verify, UpdateBinary, List,
       fileVars

-----------------------------------------------------------------------------
(* What holds at each exchange.                                             *)

VerifiedSteps == {"select df delete", "delete df", "create bf", "select bf read",
                  "read binary", "select bf delete", "delete bf"} \cup CreateSteps

\* The call that makes the exchange.
Calling ==
  /\ pc \in {"select df delete", "delete df"} => op = "unregister"
  /\ pc \in {"select bf read", "read binary"} => op = "read_bf"
  /\ pc \in {"select bf delete", "delete bf"} => op = "delete_bf"

\* The current DF is the user's, and the current file the one the next command
\* is meant for.
Located ==
  /\ pc \in RegisterSteps \cup VerifiedSteps \cup {"check bf"} => dir = user
  /\ pc = "verify" /\ op \in FileOps => dir = user
  /\ pc \in {"append record", "activate arr"} => node = "arr"
  /\ pc \in {"change ref data", "activate kf"} => node = "kf"
  /\ pc \in {"activate df", "delete df"} => node = "df"
  /\ pc \in {"update binary", "activate bf", "read binary", "select bf delete",
             "delete bf"} => node = file
  /\ pc = "verify" /\ op \in FileOps /\ exists => node = file

\* A registration works on a DF that is its own and not in use.
HalfMade ==
  /\ pc = "create df" => lcs[user]["df"] = "none"
  /\ pc \in RegisterSteps => lcs[user]["df"] = "init"

\* After VERIFY the password of the call is the user's.
Verified == pc \in VerifiedSteps => lcs[user]["kf"] = "use" /\ pin[user] = pwd

\* The file that is being written is not in use, and its first chunks are there.
Written ==
  /\ pc \in CreateSteps => lcs[user][file] = "init"
  /\ pc = "update binary" => \A k \in 1..i : data[user][file][k] = val
  /\ pc \in {"select bf use", "activate bf"} =>
       \A k \in 1..NChunks : data[user][file][k] = val

\* The caller's buffer is empty until the password has been verified.
Copied ==
  /\ op = "read_bf" /\ buf # Blank => pc \in {"read binary", "returned"} /\ pwd = pin[user]
  /\ pc \notin {"read binary", "returned"} => buf = Blank

ReliableInv ==
  Calling /\ Located /\ HalfMade /\ Verified /\ Written /\ Copied /\ UsedFileIsWhole

\* The steps of OnlyOwnerChanges and DeleteHitsTarget.
OwnerStep ==
  \A u \in Users :
    FilesOf(u)' # FilesOf(u) =>
      /\ user = u
      /\ \/ op = "register" /\ lcs[u]["df"] # "use"
         \/ op \in PasswordOps \ {"register"} /\ pwd = pin[u]

TargetStep ==
  op = "delete_bf" =>
    \A u \in Users, n \in Nodes : lcs'[u][n] # lcs[u][n] => u = user /\ n = file

Safe == ReliableInv' /\ OwnerStep /\ TargetStep

\* With the files unchanged only the place in the call matters.
LEMMA QuietFiles ==
  ASSUME ReliableInv, UNCHANGED <<lcs, records, pin, data>>
  PROVE  OwnerStep /\ TargetStep /\ UsedFileIsWhole'
BY DEF ReliableInv, OwnerStep, TargetStep, UsedFileIsWhole, FilesOf

Resting == {"idle", "select aid", "check df", "open df", "list first", "list next"}

\* Places that ask for nothing but an empty buffer.
LEMMA RestingKept ==
  ASSUME ReliableInv, UNCHANGED <<lcs, records, pin, data>>, pc' \in Resting, buf' = Blank
  PROVE  Safe
<1>1. Calling' /\ Located' /\ HalfMade' /\ Verified' /\ Written'
  BY DEF Resting, Calling, Located, HalfMade, Verified, Written, VerifiedSteps,
         RegisterSteps, CreateSteps
<1>2. Copied'
  BY DEF Copied
<1>. QED
  BY <1>1, <1>2, QuietFiles DEF Safe, ReliableInv

\* A call that returns with the files as they were.
LEMMA ReturnKept ==
  ASSUME ReliableInv, UNCHANGED <<lcs, records, pin, data>>, UNCHANGED <<callVars, buf>>,
         pc' = "returned"
  PROVE  Safe
<1>1. Calling' /\ Located' /\ HalfMade' /\ Verified' /\ Written'
  BY DEF Calling, Located, HalfMade, Verified, Written, VerifiedSteps,
         RegisterSteps, CreateSteps
<1>2. Copied'
  BY DEF Copied, ReliableInv, callVars
<1>. QED
  BY <1>1, <1>2, QuietFiles DEF Safe, ReliableInv

\* Where the FIDs of the user's files are found.
LEMMA UserHome ==
  /\ \A n \in {"df", "arr", "kf"} : Home(user, n) = user
  /\ dir = user => \A n \in Nodes : Home(user, n) = user
BY ElementAssumption DEF Home

\* SELECT of one of the user's files.
LEMMA SelectExchange ==
  ASSUME lost' = 0, StorageInv, user \in Users, NEW n \in Nodes, Send(UserFile(n)),
         Home(user, n) = user, n = "df" \/ dir = user
  PROVE  /\ UNCHANGED <<lcs, records, pin, data>>
         /\ sw' = "ok" => dir' = user /\ node' = n /\ lcs[user][n] # "none"
         /\ sw' # "ok" => UNCHANGED <<dir, node>>
         /\ sw' = "not found" => lcs[user][n] = "none"
         /\ "refuse" \notin Faults /\ sw' # "ok" => lcs[user][n] = "none"
<1>1. Home(user, n) = user
  OBVIOUS
<1>2. CASE sw' = "ok"
  <2>1. PICK x : Accepts(UserFile(n)) /\ Execute(UserFile(n), x)
    BY <1>2, CommandDone
  <2>2. /\ UNCHANGED <<lcs, records, pin, data>>
        /\ dir' = Home(user, n) /\ node' = n /\ Exists(Home(user, n), n)
    <3>1. UserFile(n) = Apdu("SELECT", user, n, None)
      BY DEF UserFile
    <3>2. Accepts(Apdu("SELECT", user, n, None)) /\ Execute(Apdu("SELECT", user, n, None), x)
      BY <2>1, <3>1
    <3>3. UNCHANGED <<lcs, records, pin, data>>
      BY <3>2, SelectDone
    <3>4. dir' = Home(user, n)
      BY <3>2, SelectDone
    <3>5. node' = n
      BY <3>2, SelectDone
    <3>6. Exists(Home(user, n), n)
      BY <3>2, SelectDone
    <3>. QED
      BY <3>3, <3>4, <3>5, <3>6
  <2>. QED
    BY <1>1, <1>2, <2>2 DEF Exists
<1>3. CASE sw' # "ok"
  <2>1. ASSUME ~ Accepts(UserFile(n)) PROVE lcs[user][n] = "none"
    <3>1. Home(UserFile(n).user, UserFile(n).node) = user
          /\ UserFile(n).ins = "SELECT" /\ UserFile(n).node = n
      BY <1>1 DEF UserFile, Apdu
    <3>. QED
      BY <1>1, <2>1, <3>1, UserHome DEF Accepts, Exists
  <2>2. UNCHANGED <<lcs, records, pin, data, dir, node>>
    BY <1>3, CommandFailed
  <2>3. sw' = "not found" => ~ Accepts(UserFile(n))
    BY <1>3, CommandFailed
  <2>4. "refuse" \notin Faults => ~ Accepts(UserFile(n))
    BY <1>3, CommandFailed
  <2>. QED
    BY <1>3, <2>1, <2>2, <2>3, <2>4
<1>. QED
  BY <1>2, <1>3

-----------------------------------------------------------------------------
(* The steps of the client.                                                 *)

Trusted == StorageInv /\ ReliableInv

\* Between calls, and when the process dies.
LEMMA SafeBetween ==
  ASSUME Trusted, Call \/ CallerResumes \/ OpenChannel \/ CloseChannel
                  \/ Crash \/ ReadNullSize \/ FreeUninitialised
  PROVE  Safe
<1>1. CASE Call
  BY <1>1, RestingKept
     DEF Call, Resting, cardVars, fileVars, workVars, Trusted, ReliableInv, Copied
<1>2. CASE CallerResumes
  BY <1>2, RestingKept DEF CallerResumes, Idle, Resting, cardVars, fileVars, Trusted
<1>3. CASE OpenChannel \/ CloseChannel
  BY <1>3, RestingKept
     DEF OpenChannel, CloseChannel, Resting, cardVars, fileVars, workVars, Trusted,
         ReliableInv, Copied
<1>4. CASE Crash \/ ReadNullSize \/ FreeUninitialised
  BY <1>4, RestingKept
     DEF Crash, ReadNullSize, FreeUninitialised, Restart, Idle, Resting, cardVars,
         fileVars, Trusted
<1>. QED
  BY <1>1, <1>2, <1>3, <1>4

\* SELECT of the applet, carried out or not.
LEMMA SafeAid == ASSUME lost' = 0, Trusted, SelectCryptoAid PROVE Safe
<1>1. UNCHANGED <<lcs, records, pin, data>>
  BY AidDone DEF SelectCryptoAid, cardVars, fileVars
<1>2. UNCHANGED <<callVars, buf>> /\ buf = Blank
  BY DEF SelectCryptoAid, workVars, Trusted, ReliableInv, Copied
<1>3. pc' \in {"returned", "list first", "check df"}
  BY DEF SelectCryptoAid, AfterAid, Return, Goto
<1>. QED
  BY <1>1, <1>2, <1>3, RestingKept, ReturnKept DEF Resting, Trusted

\* The existence check of the user.
LEMMA SafeCheckUser == ASSUME lost' = 0, Trusted, CheckUserDf PROVE Safe
<1>1. /\ pc = "check df" /\ Send(UserFile("df"))
      /\ UNCHANGED <<callVars, buf>> /\ buf = Blank
  BY DEF CheckUserDf, Trusted, ReliableInv, Copied
<1>2. user \in Users /\ op \in Ops
  BY <1>1 DEF Trusted, StorageInv, Fits, Steps
<1>3. /\ UNCHANGED <<lcs, records, pin, data>>
      /\ sw' = "not found" => lcs[user]["df"] = "none"
  BY <1>1, <1>2, SelectExchange, UserHome, NodeNames DEF Trusted
<1>4. sw' \in Status
  BY <1>1, <1>2, Exchange, Commands, NodeNames DEF Trusted, StorageInv, RspTypeOK
<1>5. \/ pc' \in {"returned", "open df"}
      \/ pc' = "verify" /\ op = "unregister"
      \/ pc' = "create df" /\ sw' = "not found"
  BY <1>4 DEF CheckUserDf, Return, Goto, Status
<1>6. CASE pc' \in {"returned", "open df"}
  BY <1>1, <1>3, <1>6, RestingKept, ReturnKept DEF Resting, Trusted
<1>7. CASE pc' = "verify" /\ op = "unregister"
  <2>1. Calling' /\ Located' /\ HalfMade' /\ Verified' /\ Written' /\ Copied'
    BY <1>1, <1>7
       DEF Calling, Located, HalfMade, Verified, Written, Copied, VerifiedSteps,
           RegisterSteps, CreateSteps, FileOps, callVars
  <2>. QED
    BY <1>3, <2>1, QuietFiles DEF Safe, ReliableInv, Trusted
<1>8. CASE pc' = "create df" /\ sw' = "not found"
  <2>1. Calling' /\ Located' /\ HalfMade' /\ Verified' /\ Written' /\ Copied'
    BY <1>1, <1>3, <1>8
       DEF Calling, Located, HalfMade, Verified, Written, Copied, VerifiedSteps,
           RegisterSteps, CreateSteps, FileOps, callVars
  <2>. QED
    BY <1>3, <2>1, QuietFiles DEF Safe, ReliableInv, Trusted
<1>. QED
  BY <1>5, <1>6, <1>7, <1>8

\* open_user_df.
LEMMA SafeOpenUser == ASSUME lost' = 0, Trusted, OpenUserDf PROVE Safe
<1>1. /\ pc = "open df" /\ Send(UserFile("df"))
      /\ UNCHANGED <<callVars, buf>> /\ buf = Blank
  BY DEF OpenUserDf, workVars, Trusted, ReliableInv, Copied
<1>2. user \in Users /\ op \in FileOps \cup {"select_user", "list_files"}
  BY <1>1 DEF Trusted, StorageInv, Fits, Steps
<1>3. UNCHANGED <<lcs, records, pin, data>> /\ (sw' = "ok" => dir' = user)
  BY <1>1, <1>2, SelectExchange, UserHome, NodeNames DEF Trusted
<1>4. pc' \in {"returned", "list first"} \/ (pc' = "check bf" /\ sw' = "ok")
  BY <1>2 DEF OpenUserDf, Return, Goto, FileOps
<1>5. CASE pc' \in {"returned", "list first"}
  BY <1>1, <1>3, <1>5, RestingKept, ReturnKept DEF Resting, Trusted
<1>6. CASE pc' = "check bf" /\ sw' = "ok"
  <2>1. Calling' /\ Located' /\ HalfMade' /\ Verified' /\ Written' /\ Copied'
    BY <1>1, <1>3, <1>6
       DEF Calling, Located, HalfMade, Verified, Written, Copied, VerifiedSteps,
           RegisterSteps, CreateSteps, FileOps, callVars
  <2>. QED
    BY <1>3, <2>1, QuietFiles DEF Safe, ReliableInv, Trusted
<1>. QED
  BY <1>4, <1>5, <1>6

\* The existence check of the file.
LEMMA SafeCheckBf == ASSUME lost' = 0, Trusted, CheckBf PROVE Safe
<1>1. /\ pc = "check bf" /\ Send(UserFile(file)) /\ exists' = (sw' = "ok")
      /\ UNCHANGED <<callVars, buf>> /\ buf = Blank /\ dir = user
  BY DEF CheckBf, Trusted, ReliableInv, Copied, Located
<1>2. user \in Users /\ file \in Nodes
  BY <1>1, NodeNames DEF Trusted, StorageInv, Fits, Steps, BfSteps
<1>3. /\ UNCHANGED <<lcs, records, pin, data>> /\ dir' = user
      /\ exists' => node' = file
  BY <1>1, <1>2, SelectExchange, UserHome DEF Trusted
<1>4. pc' \in {"returned", "verify"}
  BY DEF CheckBf, Return, Goto
<1>5. CASE pc' = "verify"
  <2>1. Calling' /\ Located' /\ HalfMade' /\ Verified' /\ Written' /\ Copied'
    BY <1>1, <1>3, <1>5
       DEF Calling, Located, HalfMade, Verified, Written, Copied, VerifiedSteps,
           RegisterSteps, CreateSteps, FileOps, callVars
  <2>. QED
    BY <1>3, <2>1, QuietFiles DEF Safe, ReliableInv, Trusted
<1>. QED
  BY <1>1, <1>3, <1>4, <1>5, ReturnKept DEF Trusted

\* do_verify_pin.
LEMMA SafeVerify == ASSUME lost' = 0, Trusted, VerifyPin PROVE Safe
<1>. DEFINE c == Apdu("VERIFY", user, "kf", pwd)
<1>1. /\ pc = "verify" /\ Send(c)
      /\ UNCHANGED <<callVars, exists, buf>> /\ buf = Blank
  BY DEF VerifyPin, workVars, Trusted, ReliableInv, Copied
<1>2. op = "unregister" \/ op \in FileOps
  BY <1>1 DEF Trusted, StorageInv, Fits, Steps
<1>3. CASE sw' = "ok"
  <2>1. PICK x \in Answers(c) : Accepts(c) /\ Execute(c, x)
    BY <1>1, <1>3, CommandDone DEF Trusted
  <2>2. /\ UNCHANGED <<lcs, records, pin, data, dir, node>>
        /\ dir = user /\ lcs[user]["kf"] = "use" /\ pin[user] = pwd
    BY <2>1, VerifyDone
  <2>3. \/ pc' = "returned"
        \/ pc' = "select df delete" /\ op = "unregister"
        \/ pc' = "create bf"
        \/ pc' = "select bf read" /\ op = "read_bf"
        \/ pc' = "select bf delete" /\ op = "delete_bf" /\ exists
    BY <1>2, <1>3 DEF VerifyPin, AfterVerify, Return, Goto, FileOps
  <2>4. CASE pc' # "returned"
    <3>1. Calling' /\ HalfMade' /\ Verified' /\ Written' /\ Copied'
      BY <1>1, <2>2, <2>3, <2>4
         DEF Calling, HalfMade, Verified, Written, Copied, VerifiedSteps,
             RegisterSteps, CreateSteps, FileOps, callVars
    <3>2. Located'
      BY <1>1, <2>2, <2>3, <2>4
         DEF Trusted, ReliableInv, Located, VerifiedSteps, RegisterSteps, CreateSteps,
             FileOps, callVars
    <3>. QED
      BY <2>2, <3>1, <3>2, QuietFiles DEF Safe, ReliableInv, Trusted
  <2>. QED
    BY <1>1, <2>2, <2>4, ReturnKept DEF Trusted
<1>4. CASE sw' # "ok"
  <2>1. pc' = "returned"
    BY <1>4 DEF VerifyPin, Return
  <2>2. UNCHANGED <<lcs, records, pin, data>>
    BY <1>1, <1>4, CommandFailed DEF Trusted
  <2>. QED
    BY <1>1, <2>1, <2>2, ReturnKept DEF Trusted
<1>. QED
  BY <1>3, <1>4

\* An exchange that ends the call because its status word is not 9000.
LEMMA SafeFailure ==
  ASSUME lost' = 0, Trusted, NEW step, NEW c, NEW next, Checked(step, c, next), sw' # "ok"
  PROVE  Safe
<1>1. UNCHANGED <<callVars, buf>> /\ pc' = "returned" /\ Send(c)
  BY DEF Checked, Return, workVars
<1>2. UNCHANGED <<lcs, records, pin, data>>
  BY <1>1, CommandFailed DEF Trusted
<1>. QED
  BY <1>1, <1>2, ReturnKept DEF Trusted

\* One file of the user gets a new life cycle state.
LEMMA SetMine ==
  ASSUME StorageInv, user \in Users, NEW n \in Nodes, NEW s \in Lcs,
         lcs' = SetNode(user, n, s)
  PROVE  /\ \A u \in Users : u # user => lcs'[u] = lcs[u]
         /\ \A k \in Nodes : lcs'[user][k] = IF k = n THEN s ELSE lcs[user][k]
<1>1. lcs \in [Users -> [Nodes -> Lcs]]
  BY DEF StorageInv, TypeOK, CardTypeOK
<1>. QED
  BY <1>1 DEF SetNode

\* What a step of a registration may do.
LEMMA RegisterMoves ==
  ASSUME Trusted, pc \in RegSteps, UNCHANGED <<callVars, buf>>, UNCHANGED data,
         \A u \in Users : u # user =>
           lcs'[u] = lcs[u] /\ records'[u] = records[u] /\ pin'[u] = pin[u],
         \A f \in Files : lcs'[user][f] = lcs[user][f],
         pc' \in RegisterSteps \cup {"returned"},
         pc' \in RegisterSteps => dir' = user /\ lcs'[user]["df"] = "init",
         pc' \in {"append record", "activate arr"} => node' = "arr",
         pc' \in {"change ref data", "activate kf"} => node' = "kf",
         pc' = "activate df" => node' = "df"
  PROVE  Safe
<1>1. op = "register" /\ user \in Users /\ lcs[user]["df"] # "use" /\ buf = Blank
  BY DEF Trusted, StorageInv, ReliableInv, HalfMade, Copied, Fits, RegSteps,
         RegisterSteps, Steps
<1>2. Calling' /\ Located' /\ HalfMade' /\ Verified' /\ Written' /\ Copied'
  BY <1>1 DEF Calling, Located, HalfMade, Verified, Written, Copied, VerifiedSteps,
              RegisterSteps, CreateSteps, callVars
<1>3. UsedFileIsWhole'
  <2>1. SUFFICES ASSUME NEW u \in Users, NEW f \in Files, lcs'[u][f] = "use"
                 PROVE  \E v \in Values : data'[u][f] = [k \in 1..NChunks |-> v]
    BY DEF UsedFileIsWhole
  <2>2. lcs[u][f] = "use" /\ data'[u][f] = data[u][f]
    BY <2>1
  <2>. QED
    BY <2>2 DEF UsedFileIsWhole, Trusted, ReliableInv
<1>4. OwnerStep
  BY <1>1 DEF OwnerStep, FilesOf
<1>5. TargetStep
  BY <1>1 DEF TargetStep
<1>. QED
  BY <1>2, <1>3, <1>4, <1>5 DEF Safe, ReliableInv

\* Facts about the user at the exchanges of a registration.
LEMMA Registers ==
  ASSUME Trusted, pc \in RegSteps
  PROVE  /\ user \in Users /\ op = "register" /\ pwd \in Passwords
         /\ pc # "create df" => dir = user /\ lcs[user]["df"] = "init"
BY RegisterFits DEF Trusted, StorageInv, ReliableInv, Located, HalfMade, RegSteps

\* What CREATE does in a registration.
LEMMA FileMade ==
  ASSUME lost' = 0, Trusted, NEW n \in {"df", "arr", "kf"}, Send(CreateFile(n)), sw' = "ok",
         pc \in RegSteps, n # "df" => pc # "create df"
  PROVE  /\ UNCHANGED <<records, pin, data>> /\ dir' = user
         /\ \A u \in Users : u # user => lcs'[u] = lcs[u]
         /\ \A k \in Nodes : lcs'[user][k] = IF k = n THEN "init" ELSE lcs[user][k]
<1>1. user \in Users
  BY Registers
<1>2. Home(user, n) = user /\ n \in Nodes
  BY UserHome, NodeNames
<1>3. PICK x : Accepts(CreateFile(n)) /\ Execute(CreateFile(n), x)
  BY CommandDone DEF Trusted
<1>4. Accepts(Apdu("CREATE", user, n, None)) /\ Execute(Apdu("CREATE", user, n, None), x)
  BY <1>3 DEF CreateFile
<1>5. dir' = user
  BY <1>2, <1>4, CreateDone
<1>6. lcs' = SetNode(user, n, "init")
  BY <1>2, <1>4, CreateDone
<1>7. UNCHANGED <<records, pin, data>>
  BY <1>4, CreateDone
<1>8. /\ \A u \in Users : u # user => lcs'[u] = lcs[u]
      /\ \A k \in Nodes : lcs'[user][k] = IF k = n THEN "init" ELSE lcs[user][k]
  BY <1>1, <1>2, <1>6, SetMine DEF Trusted, Lcs
<1>. QED
  BY <1>5, <1>7, <1>8

\* A registration creates the DF, EF.ARR and the key file.
LEMMA SafeRegisterCreate ==
  ASSUME lost' = 0, Trusted, NEW n \in {"df", "arr", "kf"}, Send(CreateFile(n)), sw' = "ok",
         pc \in RegSteps, n # "df" => pc # "create df",
         UNCHANGED <<callVars, buf>>, pc' \in {"create arr", "select arr", "select kf"}
  PROVE  Safe
<1>1. user \in Users /\ (n # "df" => lcs[user]["df"] = "init")
  BY Registers
<1>2. n \in Nodes /\ n \notin Files
  BY NodeNames, StepNames
<1>3. UNCHANGED <<records, pin, data>>
  BY FileMade
<1>4. dir' = user
  BY FileMade
<1>5. \A u \in Users : u # user => lcs'[u] = lcs[u]
  BY FileMade
<1>6. \A k \in Nodes : lcs'[user][k] = IF k = n THEN "init" ELSE lcs[user][k]
  BY FileMade
<1>7. lcs'[user]["df"] = "init"
  BY <1>1, <1>6, NodeNames
<1>8. \A f \in Files : lcs'[user][f] = lcs[user][f]
  BY <1>2, <1>6, NodeNames
<1>9. pc' \in RegisterSteps
  BY DEF RegisterSteps
<1>. QED
  BY <1>3, <1>4, <1>5, <1>7, <1>8, <1>9, RegisterMoves

\* It selects them.
LEMMA SafeRegisterSelect ==
  ASSUME lost' = 0, Trusted, NEW n \in {"df", "arr", "kf"}, Send(UserFile(n)),
         pc \in RegisterSteps, UNCHANGED <<callVars, buf>>,
         pc' \in RegisterSteps \cup {"returned"},
         pc' \in {"append record", "activate arr"} => n = "arr" /\ sw' = "ok",
         pc' \in {"change ref data", "activate kf"} => n = "kf" /\ sw' = "ok",
         pc' = "activate df" => n = "df" /\ sw' = "ok"
  PROVE  Safe
<1>1. pc \in RegSteps /\ user \in Users /\ dir = user /\ lcs[user]["df"] = "init"
  BY Registers DEF RegSteps, RegisterSteps
<1>2. Home(user, n) = user /\ n \in Nodes
  BY UserHome, NodeNames
<1>3. /\ UNCHANGED <<lcs, records, pin, data>>
      /\ sw' = "ok" => dir' = user /\ node' = n
      /\ sw' # "ok" => UNCHANGED <<dir, node>>
  BY <1>1, <1>2, SelectExchange DEF Trusted
<1>. QED
  BY <1>1, <1>3, RegisterMoves

\* What ACTIVATE does where the current DF is the user's.
LEMMA FileActivated ==
  ASSUME lost' = 0, Trusted, Send(Current("ACTIVATE")), sw' = "ok",
         user \in Users, dir = user
  PROVE  /\ UNCHANGED <<records, pin, data, dir, node>>
         /\ \A u \in Users : u # user => lcs'[u] = lcs[u]
         /\ \A k \in Nodes : lcs'[user][k] = IF k = node THEN "use" ELSE lcs[user][k]
<1>1. PICK x : Accepts(Current("ACTIVATE")) /\ Execute(Current("ACTIVATE"), x)
  BY CommandDone DEF Trusted
<1>2. UNCHANGED <<records, pin, data, dir, node>>
  BY <1>1, ActivateDone
<1>3. lcs' = SetNode(user, node, "use")
  BY <1>1, ActivateDone
<1>4. node \in Nodes
  BY DEF Trusted, StorageInv, TypeOK, CardTypeOK
<1>5. /\ \A u \in Users : u # user => lcs'[u] = lcs[u]
      /\ \A k \in Nodes : lcs'[user][k] = IF k = node THEN "use" ELSE lcs[user][k]
  BY <1>3, <1>4, SetMine DEF Trusted, Lcs
<1>. QED
  BY <1>2, <1>5

\* It activates them.
LEMMA SafeRegisterActivate ==
  ASSUME lost' = 0, Trusted, Send(Current("ACTIVATE")), sw' = "ok",
         pc \in RegisterSteps, node \in {"df", "arr", "kf"},
         UNCHANGED <<callVars, buf>>,
         pc' = IF node = "arr" THEN "create kf"
               ELSE IF node = "kf" THEN "select df use" ELSE "returned"
  PROVE  Safe
<1>1. pc \in RegSteps /\ user \in Users /\ dir = user /\ lcs[user]["df"] = "init"
  BY Registers DEF RegSteps, RegisterSteps
<1>2. node \in Nodes /\ node \notin Files
  BY NodeNames, StepNames
<1>3. UNCHANGED <<records, pin, data, dir, node>>
  BY <1>1, FileActivated
<1>4. \A u \in Users : u # user => lcs'[u] = lcs[u]
  BY <1>1, FileActivated
<1>5. \A k \in Nodes : lcs'[user][k] = IF k = node THEN "use" ELSE lcs[user][k]
  BY <1>1, FileActivated
<1>6. \A f \in Files : lcs'[user][f] = lcs[user][f]
  BY <1>2, <1>5, NodeNames
<1>7. node # "df" => lcs'[user]["df"] = "init"
  BY <1>1, <1>5, NodeNames
<1>8. pc' \in {"create kf", "select df use", "returned"} /\ (pc' # "returned" => node # "df")
  OBVIOUS
<1>9. pc' \in RegisterSteps \cup {"returned"}
      /\ pc' \notin {"append record", "activate arr", "change ref data", "activate kf",
                     "activate df"}
      /\ "returned" \notin RegisterSteps
  BY <1>8 DEF RegisterSteps
<1>. QED
  BY <1>1, <1>3, <1>4, <1>6, <1>7, <1>8, <1>9, RegisterMoves

\* A failure that create_kf_pin_file ignores.
LEMMA SafeRegisterIgnored ==
  ASSUME lost' = 0, Trusted, NEW c, Send(c), sw' # "ok", pc \in RegisterSteps,
         UNCHANGED <<callVars, buf>>, pc' \in {"select kf use", "select df use"}
  PROVE  Safe
<1>1. pc \in RegSteps /\ user \in Users /\ dir = user /\ lcs[user]["df"] = "init"
  BY Registers DEF RegSteps, RegisterSteps
<1>2. UNCHANGED <<lcs, records, pin, data, dir, node>>
  BY CommandFailed DEF Trusted
<1>3. pc' \in RegisterSteps
  BY DEF RegisterSteps
<1>. QED
  BY <1>1, <1>2, <1>3, RegisterMoves

\* What APPEND RECORD does.
LEMMA RecordAdded ==
  ASSUME lost' = 0, Trusted, AddRecordEfArr, sw' = "ok"
  PROVE  /\ UNCHANGED <<lcs, pin, data, dir, node>>
         /\ records' = [records EXCEPT ![user] = @ + 1]
         /\ records[user] < NRecords
<1>1. dir = user
  BY Registers DEF AddRecordEfArr, RegSteps, RegisterSteps
<1>2. PICK x : Accepts(Current("APPEND RECORD")) /\ Execute(Current("APPEND RECORD"), x)
  BY CommandDone DEF AddRecordEfArr, Trusted
<1>3. UNCHANGED <<lcs, pin, data, dir, node>>
  BY <1>2, AppendDone
<1>4. records' = [records EXCEPT ![user] = @ + 1]
  BY <1>1, <1>2, AppendDone
<1>5. records[user] < NRecords
  BY <1>1, <1>2, AppendDone
<1>. QED
  BY <1>3, <1>4, <1>5

\* APPEND RECORD.
LEMMA SafeAddRecord == ASSUME lost' = 0, Trusted, AddRecordEfArr PROVE Safe
<1>1. /\ pc = "append record" /\ Send(Current("APPEND RECORD"))
      /\ UNCHANGED <<callVars, buf>>
  BY DEF AddRecordEfArr
<1>2. pc \in RegSteps /\ user \in Users /\ dir = user /\ lcs[user]["df"] = "init"
  BY <1>1, Registers DEF RegSteps, RegisterSteps
<1>3. node = "arr"
  BY <1>1 DEF Trusted, ReliableInv, Located
<1>4. CASE sw' = "ok"
  <2>1. UNCHANGED <<lcs, pin, data, dir, node>>
    BY <1>4, RecordAdded
  <2>2. records' = [records EXCEPT ![user] = @ + 1]
    BY <1>4, RecordAdded
  <2>3. \A u \in Users : u # user => records'[u] = records[u]
    BY <2>2
  <2>4. pc' \in {"append record", "select arr use"}
    BY <1>4 DEF AddRecordEfArr, Goto
  <2>5. pc' \in RegisterSteps
    BY <2>4 DEF RegisterSteps
  <2>. QED
    BY <1>1, <1>2, <1>3, <2>1, <2>3, <2>4, <2>5, RegisterMoves
<1>5. CASE sw' # "ok"
  <2>1. pc' = "returned"
    BY <1>5 DEF AddRecordEfArr, Return
  <2>2. UNCHANGED <<lcs, records, pin, data>>
    BY <1>1, <1>5, CommandFailed DEF Trusted
  <2>. QED
    BY <1>1, <2>1, <2>2, ReturnKept DEF Trusted
<1>. QED
  BY <1>4, <1>5

\* What CHANGE REFERENCE DATA does.
LEMMA PasswordSet ==
  ASSUME lost' = 0, Trusted, ChangeRefData, sw' = "ok"
  PROVE  /\ UNCHANGED <<lcs, records, data, dir, node>>
         /\ pin' = [pin EXCEPT ![user] = pwd]
<1>. DEFINE c == Apdu("CHANGE REFERENCE DATA", user, "kf", pwd)
<1>1. pc = "change ref data" /\ Send(c)
  BY DEF ChangeRefData, Ignored
<1>2. dir = user
  BY <1>1, Registers DEF RegSteps, RegisterSteps
<1>3. PICK x : Accepts(c) /\ Execute(c, x)
  BY <1>1, CommandDone DEF Trusted
<1>4. UNCHANGED <<lcs, records, data, dir, node>>
  BY <1>3, ChangeDone
<1>5. pin' = [pin EXCEPT ![user] = pwd]
  BY <1>2, <1>3, ChangeDone
<1>. QED
  BY <1>4, <1>5

\* CHANGE REFERENCE DATA.
LEMMA SafeChangeRefData == ASSUME lost' = 0, Trusted, ChangeRefData PROVE Safe
<1>. DEFINE c == Apdu("CHANGE REFERENCE DATA", user, "kf", pwd)
<1>1. /\ pc = "change ref data" /\ Send(c)
      /\ UNCHANGED <<callVars, buf>> /\ pc' = "select kf use"
  BY DEF ChangeRefData, Ignored, Goto, workVars
<1>2. pc \in RegSteps /\ user \in Users /\ dir = user /\ lcs[user]["df"] = "init"
  BY <1>1, Registers DEF RegSteps, RegisterSteps
<1>3. pc \in RegisterSteps /\ pc' \in RegisterSteps
  BY <1>1 DEF RegisterSteps
<1>4. CASE sw' = "ok"
  <2>1. UNCHANGED <<lcs, records, data, dir, node>>
    BY <1>4, PasswordSet
  <2>2. pin' = [pin EXCEPT ![user] = pwd]
    BY <1>4, PasswordSet
  <2>3. \A u \in Users : u # user => pin'[u] = pin[u]
    BY <2>2
  <2>. QED
    BY <1>1, <1>2, <1>3, <2>1, <2>3, RegisterMoves
<1>5. CASE sw' # "ok"
  BY <1>1, <1>3, <1>5, SafeRegisterIgnored
<1>. QED
  BY <1>4, <1>5

\* register_new_user_impl.
LEMMA SafeRegister == ASSUME lost' = 0, Trusted, RegisterStep PROVE Safe
<1>1. CASE CreateUserDf
  <2>1. CASE sw' = "ok"
    <3>1. /\ pc \in RegSteps /\ Send(CreateFile("df")) /\ pc' = "create arr"
          /\ UNCHANGED <<callVars, buf>>
      BY <1>1, <2>1 DEF CreateUserDf, Checked, Proceed, Goto, workVars, RegSteps
    <3>. QED
      BY <2>1, <3>1, SafeRegisterCreate
  <2>. QED
    BY <1>1, <2>1, SafeFailure DEF CreateUserDf
<1>2. CASE CreateUserEfArr
  <2>1. CASE sw' = "ok"
    <3>1. /\ pc = "create arr" /\ Send(CreateFile("arr")) /\ pc' = "select arr"
          /\ UNCHANGED <<callVars, buf>>
      BY <1>2, <2>1 DEF CreateUserEfArr, Checked, Proceed, Goto, workVars
    <3>2. pc \in RegSteps /\ pc # "create df"
      BY <3>1 DEF RegSteps, RegisterSteps
    <3>. QED
      BY <2>1, <3>1, <3>2, SafeRegisterCreate
  <2>. QED
    BY <1>2, <2>1, SafeFailure DEF CreateUserEfArr
<1>3. CASE SelectUserEfArr \/ SelectArrUse
  <2>1. /\ pc \in {"select arr", "select arr use"} /\ Send(UserFile("arr"))
        /\ UNCHANGED <<callVars, buf>>
    BY <1>3 DEF SelectUserEfArr, SelectArrUse, Checked, workVars
  <2>2. \/ pc' \in {"append record", "activate arr"} /\ sw' = "ok"
        \/ pc' = "returned"
    BY <1>3 DEF SelectUserEfArr, SelectArrUse, Checked, Proceed, Goto, Return
  <2>3. pc \in RegisterSteps /\ pc' \in RegisterSteps \cup {"returned"}
    BY <2>1, <2>2 DEF RegisterSteps
  <2>. QED
    BY <2>1, <2>2, <2>3, SafeRegisterSelect
<1>4. CASE ActivateArr
  <2>1. CASE sw' = "ok"
    <3>1. /\ pc = "activate arr" /\ Send(Current("ACTIVATE")) /\ pc' = "create kf"
          /\ UNCHANGED <<callVars, buf>>
      BY <1>4, <2>1 DEF ActivateArr, Checked, Proceed, Goto, workVars
    <3>2. pc \in RegisterSteps /\ node = "arr"
      BY <3>1 DEF RegisterSteps, Trusted, ReliableInv, Located
    <3>. QED
      BY <2>1, <3>1, <3>2, SafeRegisterActivate
  <2>. QED
    BY <1>4, <2>1, SafeFailure DEF ActivateArr
<1>5. CASE CreateKf
  <2>1. /\ pc = "create kf" /\ Send(CreateFile("kf"))
        /\ pc' = IF sw' = "ok" THEN "select kf" ELSE "select kf use"
        /\ UNCHANGED <<callVars, buf>>
    BY <1>5 DEF CreateKf, Ignored, Goto, workVars
  <2>2. pc \in RegisterSteps /\ pc \in RegSteps /\ pc # "create df"
    BY <2>1 DEF RegSteps, RegisterSteps
  <2>3. CASE sw' = "ok"
    BY <2>1, <2>2, <2>3, SafeRegisterCreate
  <2>4. CASE sw' # "ok"
    BY <2>1, <2>2, <2>4, SafeRegisterIgnored
  <2>. QED
    BY <2>3, <2>4
<1>6. CASE SelectKf
  <2>1. /\ pc = "select kf" /\ Send(UserFile("kf"))
        /\ pc' = IF sw' = "ok" THEN "change ref data" ELSE "select kf use"
        /\ UNCHANGED <<callVars, buf>>
    BY <1>6 DEF SelectKf, Ignored, Goto, workVars
  <2>2. pc \in RegisterSteps /\ pc' \in RegisterSteps
    BY <2>1 DEF RegisterSteps
  <2>. QED
    BY <2>1, <2>2, SafeRegisterSelect
<1>7. CASE ChangeRefData
  BY <1>7, SafeChangeRefData
<1>8. CASE SelectKfUse
  <2>1. /\ pc = "select kf use" /\ Send(UserFile("kf"))
        /\ pc' = IF sw' = "ok" THEN "activate kf" ELSE "select df use"
        /\ UNCHANGED <<callVars, buf>>
    BY <1>8 DEF SelectKfUse, Ignored, Goto, workVars
  <2>2. pc \in RegisterSteps /\ pc' \in RegisterSteps
    BY <2>1 DEF RegisterSteps
  <2>. QED
    BY <2>1, <2>2, SafeRegisterSelect
<1>9. CASE ActivateKf
  <2>1. /\ pc = "activate kf" /\ Send(Current("ACTIVATE")) /\ pc' = "select df use"
        /\ UNCHANGED <<callVars, buf>>
    BY <1>9 DEF ActivateKf, Ignored, Goto, workVars
  <2>2. pc \in RegisterSteps /\ node = "kf"
    BY <2>1 DEF RegisterSteps, Trusted, ReliableInv, Located
  <2>3. CASE sw' = "ok"
    BY <2>1, <2>2, <2>3, SafeRegisterActivate
  <2>4. CASE sw' # "ok"
    BY <2>1, <2>2, <2>4, SafeRegisterIgnored
  <2>. QED
    BY <2>3, <2>4
<1>10. CASE SelectDfUse
  <2>1. /\ pc = "select df use" /\ Send(UserFile("df"))
        /\ pc' = IF sw' = "ok" THEN "activate df" ELSE "returned"
        /\ UNCHANGED <<callVars, buf>>
    BY <1>10 DEF SelectDfUse, Checked, Proceed, Goto, Return, workVars
  <2>2. pc \in RegisterSteps /\ pc' \in RegisterSteps \cup {"returned"}
    BY <2>1 DEF RegisterSteps
  <2>. QED
    BY <2>1, <2>2, SafeRegisterSelect
<1>11. CASE ActivateDf
  <2>1. CASE sw' = "ok"
    <3>1. /\ pc = "activate df" /\ Send(Current("ACTIVATE")) /\ pc' = "returned"
          /\ UNCHANGED <<callVars, buf>>
      BY <1>11, <2>1 DEF ActivateDf, Checked, Proceed, Return, workVars
    <3>2. pc \in RegisterSteps /\ node = "df"
      BY <3>1 DEF RegisterSteps, Trusted, ReliableInv, Located
    <3>. QED
      BY <2>1, <3>1, <3>2, SafeRegisterActivate
  <2>. QED
    BY <1>11, <2>1, SafeFailure DEF ActivateDf
<1>12. CASE AddRecordEfArr
  BY <1>12, SafeAddRecord
<1>. QED
  BY <1>1, <1>2, <1>3, <1>4, <1>5, <1>6, <1>7, <1>8, <1>9, <1>10, <1>11, <1>12
     DEF RegisterStep

\* What a call that has been let in by VERIFY knows.
LEMMA LetIn ==
  ASSUME Trusted, pc \in VerifiedSteps
  PROVE  /\ user \in Users /\ dir = user
         /\ op \in PasswordOps \ {"register"} /\ pwd = pin[user] /\ lcs[user]["kf"] = "use"
         /\ pc \notin {"select df delete", "delete df"} => file \in Files
<1>1. user \in Users /\ dir = user /\ pwd = pin[user] /\ lcs[user]["kf"] = "use"
  BY DEF Trusted, StorageInv, ReliableInv, Located, Verified, Fits, VerifiedSteps,
         CreateSteps, Steps
<1>2. pc \in {"create bf"} \cup CreateSteps => op = "create_bf" /\ file \in Files
  BY CreateFits DEF Trusted, StorageInv, CreateSteps
<1>3. pc \notin {"create bf"} \cup CreateSteps =>
        op \in {"unregister", "read_bf", "delete_bf"}
  BY DEF Trusted, ReliableInv, Calling, VerifiedSteps
<1>4. pc \notin {"select df delete", "delete df"} => file \in Files
  BY DEF Trusted, StorageInv, Fits, BfSteps, VerifiedSteps
<1>. QED
  BY <1>1, <1>2, <1>3, <1>4 DEF PasswordOps, FileOps

\* Such a call changes files of its user only.
LEMMA OwnerMoves ==
  ASSUME Trusted, pc \in VerifiedSteps,
         \A u \in Users : u # user =>
           lcs'[u] = lcs[u] /\ records'[u] = records[u] /\ pin'[u] = pin[u]
           /\ data'[u] = data[u]
  PROVE  OwnerStep
BY LetIn DEF OwnerStep, FilesOf

\* A call that returns after it may have changed files.
LEMMA Returning ==
  ASSUME Trusted, UNCHANGED <<callVars, buf>>, pc' = "returned",
         op = "read_bf" => UNCHANGED pin
  PROVE  Calling' /\ Located' /\ HalfMade' /\ Verified' /\ Written' /\ Copied'
BY DEF Calling, Located, HalfMade, Verified, Written, Copied, VerifiedSteps,
       RegisterSteps, CreateSteps, callVars, Trusted, ReliableInv

\* SELECT of a file by a call that has been let in.
LEMMA LetInSelect ==
  ASSUME lost' = 0, Trusted, pc \in VerifiedSteps, NEW n \in Nodes, Send(UserFile(n))
  PROVE  /\ UNCHANGED <<lcs, records, pin, data>>
         /\ sw' = "ok" => dir' = user /\ node' = n
         /\ sw' # "ok" => UNCHANGED <<dir, node>>
<1>1. user \in Users /\ dir = user
  BY LetIn
<1>2. Home(user, n) = user
  BY <1>1, UserHome
<1>. QED
  BY <1>1, <1>2, SelectExchange DEF Trusted

(* unregister_user_impl *)

\* SELECT of the DF.
LEMMA SafeSelectDfDelete == ASSUME lost' = 0, Trusted, SelectDfDelete PROVE Safe
<1>1. CASE sw' = "ok"
  <2>1. /\ pc = "select df delete" /\ Send(UserFile("df")) /\ pc' = "delete df"
        /\ UNCHANGED <<callVars, buf>>
    BY <1>1 DEF SelectDfDelete, Checked, Proceed, Goto, workVars
  <2>2. pc \in VerifiedSteps /\ op = "unregister"
    BY <2>1 DEF VerifiedSteps, Trusted, ReliableInv, Calling
  <2>3. UNCHANGED <<lcs, records, pin, data>> /\ dir' = user /\ node' = "df"
    BY <1>1, <2>1, <2>2, LetInSelect, NodeNames
  <2>4. lcs[user]["kf"] = "use" /\ pin[user] = pwd /\ buf = Blank
    BY <2>1, <2>2, LetIn DEF Trusted, ReliableInv, Copied
  <2>5. Calling' /\ Located' /\ HalfMade' /\ Verified' /\ Written' /\ Copied'
    BY <2>1, <2>2, <2>3, <2>4
       DEF Calling, Located, HalfMade, Verified, Written, Copied, VerifiedSteps,
           RegisterSteps, CreateSteps, FileOps, callVars
  <2>. QED
    BY <2>3, <2>5, QuietFiles DEF Safe, ReliableInv, Trusted
<1>. QED
  BY <1>1, SafeFailure DEF SelectDfDelete

\* What DELETE of the DF does.
LEMMA DfDeleted ==
  ASSUME lost' = 0, Trusted, DeleteUserDf, sw' = "ok"
  PROVE  /\ user \in Users /\ op = "unregister" /\ pc \in VerifiedSteps
         /\ \A u \in Users : u # user =>
              lcs'[u] = lcs[u] /\ records'[u] = records[u] /\ pin'[u] = pin[u]
              /\ data'[u] = data[u]
         /\ lcs'[user] = NoFiles /\ records'[user] = 0 /\ pin'[user] = None
<1>1. pc = "delete df" /\ Send(Current("DELETE"))
  BY DEF DeleteUserDf, Checked
<1>2. pc \in VerifiedSteps /\ op = "unregister" /\ node = "df"
  BY <1>1 DEF VerifiedSteps, Trusted, ReliableInv, Calling, Located
<1>3. user \in Users /\ dir = user
  BY <1>2, LetIn
<1>4. PICK x : Accepts(Current("DELETE")) /\ Execute(Current("DELETE"), x)
  BY <1>1, CommandDone DEF Trusted
<1>5. DeleteDf(Current("DELETE"))
  BY <1>2, <1>4, DeleteDone
<1>6. /\ lcs' = [lcs EXCEPT ![user] = NoFiles]
      /\ records' = [records EXCEPT ![user] = 0]
      /\ pin' = [pin EXCEPT ![user] = None]
      /\ data' = [data EXCEPT ![user] = [f \in Files |-> Blank]]
  BY <1>3, <1>5 DEF DeleteDf
<1>7. /\ lcs \in [Users -> [Nodes -> Lcs]] /\ records \in [Users -> 0..NRecords]
      /\ pin \in [Users -> Passwords \cup {None}]
  BY DEF Trusted, StorageInv, TypeOK, CardTypeOK
<1>8. \A u \in Users : u # user =>
        lcs'[u] = lcs[u] /\ records'[u] = records[u] /\ pin'[u] = pin[u]
        /\ data'[u] = data[u]
  BY <1>6
<1>9. lcs'[user] = NoFiles
  BY <1>3, <1>6, <1>7
<1>10. records'[user] = 0 /\ pin'[user] = None
  BY <1>3, <1>6, <1>7
<1>. QED
  BY <1>2, <1>3, <1>8, <1>9, <1>10

\* DELETE of the DF.
LEMMA SafeDeleteUserDf == ASSUME lost' = 0, Trusted, DeleteUserDf PROVE Safe
<1>1. CASE sw' = "ok"
  <2>1. pc' = "returned" /\ UNCHANGED <<callVars, buf>>
    BY <1>1 DEF DeleteUserDf, Checked, Proceed, Return, workVars
  <2>2. pc \in VerifiedSteps /\ op = "unregister" /\ lcs'[user] = NoFiles
    BY <1>1, DfDeleted
  <2>3. \A u \in Users : u # user =>
          lcs'[u] = lcs[u] /\ records'[u] = records[u] /\ pin'[u] = pin[u]
          /\ data'[u] = data[u]
    BY <1>1, DfDeleted
  <2>4. OwnerStep
    BY <2>2, <2>3, OwnerMoves
  <2>5. Calling' /\ Located' /\ HalfMade' /\ Verified' /\ Written' /\ Copied'
    BY <2>1, <2>2, Returning
  <2>6. UsedFileIsWhole'
    <3>1. SUFFICES ASSUME NEW u \in Users, NEW f \in Files, lcs'[u][f] = "use"
                   PROVE  \E v \in Values : data'[u][f] = [k \in 1..NChunks |-> v]
      BY DEF UsedFileIsWhole
    <3>2. u # user
      BY <2>2, <3>1, NodeNames DEF NoFiles
    <3>3. lcs[u][f] = "use" /\ data'[u][f] = data[u][f]
      BY <2>3, <3>1, <3>2
    <3>. QED
      BY <3>3 DEF UsedFileIsWhole, Trusted, ReliableInv
  <2>7. TargetStep
    BY <2>2 DEF TargetStep
  <2>. QED
    BY <2>4, <2>5, <2>6, <2>7 DEF Safe, ReliableInv
<1>. QED
  BY <1>1, SafeFailure DEF DeleteUserDf

(* create_bf_file_impl *)

\* At the steps of a creation: what is being written.
LEMMA Creating ==
  ASSUME Trusted, pc \in {"create bf"} \cup CreateSteps
  PROVE  /\ pc \in VerifiedSteps /\ user \in Users /\ file \in Files /\ file \in Nodes
         /\ file \notin {"df", "arr", "kf"} /\ val \in Values
         /\ dir = user /\ op = "create_bf" /\ buf = Blank
         /\ lcs[user]["kf"] = "use" /\ pin[user] = pwd
<1>1. user \in Users /\ file \in Files /\ op = "create_bf" /\ val \in Values
  BY CreateFits DEF Trusted, StorageInv, CreateSteps
<1>2. pc \in VerifiedSteps
  BY DEF VerifiedSteps
<1>3. buf = Blank
  BY DEF Trusted, ReliableInv, Copied, CreateSteps
<1>4. lcs[user]["kf"] = "use" /\ pin[user] = pwd /\ dir = user
  BY <1>2, LetIn
<1>. QED
  BY <1>1, <1>2, <1>3, <1>4, NodeNames, StepNames

\* A creation that goes on: the parts that concern the place in the call.
LEMMA CreateGoesOn ==
  ASSUME Trusted, pc \in {"create bf"} \cup CreateSteps, pc' \in CreateSteps,
         UNCHANGED <<callVars, buf, pin>>, dir' = user,
         pc' \in {"update binary", "activate bf"} => node' = file,
         lcs'[user]["kf"] = "use"
  PROVE  Calling' /\ Located' /\ HalfMade' /\ Verified' /\ Copied'
<1>1. op = "create_bf" /\ buf = Blank /\ pin[user] = pwd
  BY Creating
<1>. QED
  BY <1>1 DEF Calling, Located, HalfMade, Verified, Copied, VerifiedSteps,
              RegisterSteps, CreateSteps, FileOps, callVars

\* What CREATE of the file does.
LEMMA BfCreated ==
  ASSUME lost' = 0, Trusted, CreateBf, sw' = "ok"
  PROVE  /\ UNCHANGED <<records, pin, data>> /\ dir' = user /\ Exists(user, "df")
         /\ \A u \in Users : u # user => lcs'[u] = lcs[u]
         /\ \A k \in Nodes : lcs'[user][k] = IF k = file THEN "init" ELSE lcs[user][k]
         /\ lcs[user][file] = "none"
<1>1. pc = "create bf" /\ Send(CreateFile(file))
  BY DEF CreateBf, Checked
<1>2. user \in Users /\ file \in Nodes /\ dir = user /\ file # "df"
  BY <1>1, Creating
<1>3. Home(user, file) = user
  BY <1>2, UserHome
<1>4. PICK x : Accepts(CreateFile(file)) /\ Execute(CreateFile(file), x)
  BY <1>1, CommandDone DEF Trusted
<1>5. Accepts(Apdu("CREATE", user, file, None)) /\ Execute(Apdu("CREATE", user, file, None), x)
  BY <1>4 DEF CreateFile
<1>6. dir' = user
  BY <1>3, <1>5, CreateDone
<1>7. lcs' = SetNode(user, file, "init")
  BY <1>3, <1>5, CreateDone
<1>8. UNCHANGED <<records, pin, data>>
  BY <1>5, CreateDone
<1>9. Exists(user, "df")
  BY <1>2, <1>5, CreateDone
<1>10. lcs[user][file] = "none"
  <2>1. ~ Exists(user, file)
    BY <1>3, <1>5, CreateDone
  <2>. QED
    BY <1>2, <2>1 DEF Exists
<1>11. /\ \A u \in Users : u # user => lcs'[u] = lcs[u]
       /\ \A k \in Nodes : lcs'[user][k] = IF k = file THEN "init" ELSE lcs[user][k]
  BY <1>2, <1>7, SetMine DEF Trusted, Lcs
<1>. QED
  BY <1>6, <1>8, <1>9, <1>10, <1>11

\* CREATE of the file.
LEMMA SafeCreateBf == ASSUME lost' = 0, Trusted, CreateBf PROVE Safe
<1>1. CASE sw' = "ok"
  <2>1. /\ pc = "create bf" /\ pc' = "select bf write" /\ UNCHANGED <<callVars, buf>>
    BY <1>1 DEF CreateBf, Checked, Proceed, Goto, workVars
  <2>2. /\ pc \in VerifiedSteps /\ user \in Users /\ file \in Files /\ file \in Nodes
        /\ file \notin {"df", "arr", "kf"} /\ op = "create_bf" /\ lcs[user]["kf"] = "use"
    BY <2>1, Creating
  <2>3. UNCHANGED <<records, pin, data>> /\ dir' = user
    BY <1>1, BfCreated
  <2>4. \A u \in Users : u # user => lcs'[u] = lcs[u]
    BY <1>1, BfCreated
  <2>5. \A k \in Nodes : lcs'[user][k] = IF k = file THEN "init" ELSE lcs[user][k]
    BY <1>1, BfCreated
  <2>6. lcs'[user]["kf"] = "use" /\ lcs'[user][file] = "init"
    BY <2>2, <2>5, NodeNames
  <2>7. pc' \in CreateSteps
    BY <2>1 DEF CreateSteps
  <2>8. Calling' /\ Located' /\ HalfMade' /\ Verified' /\ Copied'
    BY <2>1, <2>3, <2>6, <2>7, CreateGoesOn
  <2>9. Written'
    BY <2>1, <2>6 DEF Written, callVars
  <2>10. UsedFileIsWhole'
    <3>1. SUFFICES ASSUME NEW u \in Users, NEW f \in Files, lcs'[u][f] = "use"
                   PROVE  \E v \in Values : data'[u][f] = [k \in 1..NChunks |-> v]
      BY DEF UsedFileIsWhole
    <3>2. f \in Nodes
      BY NodeNames
    <3>3. lcs[u][f] = "use" /\ data'[u][f] = data[u][f]
      BY <2>3, <2>4, <2>5, <3>1, <3>2
    <3>. QED
      BY <3>3 DEF UsedFileIsWhole, Trusted, ReliableInv
  <2>11. OwnerStep
    BY <2>2, <2>3, <2>4, OwnerMoves
  <2>12. TargetStep
    BY <2>2 DEF TargetStep
  <2>. QED
    BY <2>8, <2>9, <2>10, <2>11, <2>12 DEF Safe, ReliableInv
<1>. QED
  BY <1>1, SafeFailure DEF CreateBf

\* SELECT of the file, to write it and to activate it.
LEMMA SafeSelectNewBf ==
  ASSUME lost' = 0, Trusted, SelectBfWrite \/ SelectBfUse
  PROVE  Safe
<1>1. /\ pc \in {"select bf write", "select bf use"} /\ Send(UserFile(file))
      /\ UNCHANGED <<callVars, buf, i>>
  BY DEF SelectBfWrite, SelectBfUse, Checked, workVars
<1>2. CASE sw' = "ok"
  <2>1. \/ pc = "select bf write" /\ pc' = "update binary"
        \/ pc = "select bf use" /\ pc' = "activate bf"
    BY <1>2 DEF SelectBfWrite, SelectBfUse, Checked, Proceed, Goto
  <2>2. pc \in CreateSteps /\ pc' \in CreateSteps
    BY <2>1 DEF CreateSteps
  <2>3. /\ pc \in VerifiedSteps /\ user \in Users /\ file \in Nodes
        /\ lcs[user]["kf"] = "use"
    BY <2>2, Creating
  <2>4. UNCHANGED <<lcs, records, pin, data>> /\ dir' = user /\ node' = file
    BY <1>1, <1>2, <2>3, LetInSelect
  <2>5. Calling' /\ Located' /\ HalfMade' /\ Verified' /\ Copied'
    BY <1>1, <2>2, <2>3, <2>4, CreateGoesOn
  <2>6. Written'
    <3>1. lcs[user][file] = "init"
      BY <2>2 DEF Trusted, ReliableInv, Written
    <3>2. CASE pc = "select bf write"
      <4>1. i = 0
        BY <3>2 DEF Trusted, StorageInv, LoopOK
      <4>2. i' = 0
        BY <1>1, <4>1
      <4>3. \A k \in 1..0 : data'[user'][file'][k] = val'
        OBVIOUS
      <4>. QED
        BY <1>1, <2>1, <2>4, <3>1, <3>2, <4>2, <4>3 DEF Written, callVars
    <3>3. CASE pc = "select bf use"
      <4>1. \A k \in 1..NChunks : data[user][file][k] = val
        BY <3>3 DEF Trusted, ReliableInv, Written
      <4>. QED
        BY <1>1, <2>1, <2>4, <3>1, <3>3, <4>1 DEF Written, callVars
    <3>. QED
      BY <2>1, <3>2, <3>3
  <2>. QED
    BY <2>4, <2>5, <2>6, QuietFiles DEF Safe, ReliableInv, Trusted
<1>. QED
  BY <1>2, SafeFailure DEF SelectBfWrite, SelectBfUse

\* What UPDATE BINARY does.
LEMMA ChunkWritten ==
  ASSUME lost' = 0, Trusted, WriteBf, sw' = "ok"
  PROVE  /\ UNCHANGED <<lcs, records, pin, dir, node>>
         /\ \A u \in Users, f \in Files :
              u # user \/ f # file => data'[u][f] = data[u][f]
         /\ \A k \in 1..NChunks :
              data'[user][file][k] = IF k = i + 1 THEN val ELSE data[user][file][k]
         /\ \A u \in Users : u # user => data'[u] = data[u]
<1>. DEFINE c == Apdu("UPDATE BINARY", user, file, <<i + 1, val>>)
<1>1. pc = "update binary" /\ Send(c)
  BY DEF WriteBf
<1>2. user \in Users /\ file \in Files /\ dir = user /\ node = file
  BY <1>1, Creating DEF CreateSteps, Trusted, ReliableInv, Located
<1>3. PICK x : Accepts(c) /\ Execute(c, x)
  BY <1>1, CommandDone DEF Trusted
<1>4. UNCHANGED <<lcs, records, pin, dir, node>>
  BY <1>3, UpdateDone
<1>5. data' = [data EXCEPT ![dir][node][<<i + 1, val>>[1]] = <<i + 1, val>>[2]]
  BY <1>3, UpdateDone
<1>6. data' = [data EXCEPT ![user][file][i + 1] = val]
  BY <1>2, <1>5
<1>7. data \in [Users -> [Files -> [1..NChunks -> Values \cup {None}]]]
  BY DEF Trusted, StorageInv, TypeOK, CardTypeOK
<1>8. \A u \in Users, f \in Files :
        u # user \/ f # file => data'[u][f] = data[u][f]
  BY <1>2, <1>6, <1>7
<1>9. \A k \in 1..NChunks :
        data'[user][file][k] = IF k = i + 1 THEN val ELSE data[user][file][k]
  BY <1>2, <1>6, <1>7
<1>10. \A u \in Users : u # user => data'[u] = data[u]
  BY <1>6, <1>7
<1>. QED
  BY <1>4, <1>8, <1>9, <1>10

\* UPDATE BINARY: one more chunk of a file that is not in use yet.
LEMMA SafeWriteBf == ASSUME lost' = 0, Trusted, WriteBf PROVE Safe
<1>. DEFINE c == Apdu("UPDATE BINARY", user, file, <<i + 1, val>>)
<1>1. pc = "update binary" /\ Send(c) /\ UNCHANGED <<callVars, buf>>
  BY DEF WriteBf
<1>2. CASE sw' = "ok"
  <2>1. /\ pc \in CreateSteps /\ pc \in VerifiedSteps /\ user \in Users /\ file \in Files
        /\ dir = user /\ lcs[user]["kf"] = "use" /\ op = "create_bf" /\ node = file
        /\ file \in Nodes
    BY <1>1, Creating DEF CreateSteps, Trusted, ReliableInv, Located
  <2>2. i \in Nat /\ i < NChunks /\ NChunks \in Nat
    <3>1. i \in 0..NRecords + NChunks
      BY DEF Trusted, StorageInv, TypeOK
    <3>2. i < NChunks
      BY <1>1 DEF Trusted, StorageInv, LoopOK
    <3>. QED
      BY <3>1, <3>2, ElementAssumption
  <2>3. UNCHANGED <<lcs, records, pin, dir, node>>
    BY <1>2, ChunkWritten
  <2>4. \A u \in Users, f \in Files :
          u # user \/ f # file => data'[u][f] = data[u][f]
    BY <1>2, ChunkWritten
  <2>5. \A k \in 1..NChunks :
          data'[user][file][k] = IF k = i + 1 THEN val ELSE data[user][file][k]
    BY <1>2, ChunkWritten
  <2>6. \A u \in Users : u # user => data'[u] = data[u]
    BY <1>2, ChunkWritten
  <2>7. /\ lcs[user][file] = "init"
        /\ \A k \in 1..i : data[user][file][k] = val
    BY <1>1, <2>1 DEF Trusted, ReliableInv, Written
  <2>8. \A k \in 1..i + 1 : data'[user][file][k] = val
    BY <2>2, <2>5, <2>7
  <2>9. \/ pc' = "update binary" /\ i' = i + 1
        \/ pc' = "select bf use" /\ i + 1 = NChunks
    <3>1. CASE i + 1 < NChunks
      BY <1>2, <3>1 DEF WriteBf, Goto
    <3>2. CASE ~ (i + 1 < NChunks)
      <4>1. i + 1 = NChunks
        BY <2>2, <3>2
      <4>2. pc' = "select bf use"
        BY <1>2, <3>2 DEF WriteBf, Goto
      <4>. QED
        BY <4>1, <4>2
    <3>. QED
      BY <3>1, <3>2
  <2>10. pc' \in CreateSteps
    BY <2>9 DEF CreateSteps
  <2>11. Calling' /\ Located' /\ HalfMade' /\ Verified' /\ Copied'
    BY <1>1, <2>1, <2>3, <2>10, CreateGoesOn
  <2>12. Written'
    BY <1>1, <2>3, <2>7, <2>8, <2>9 DEF Written, callVars
  <2>13. UsedFileIsWhole'
    <3>1. SUFFICES ASSUME NEW u \in Users, NEW f \in Files, lcs'[u][f] = "use"
                   PROVE  \E v \in Values : data'[u][f] = [k \in 1..NChunks |-> v]
      BY DEF UsedFileIsWhole
    <3>2. u # user \/ f # file
      BY <2>3, <2>7, <3>1
    <3>3. lcs[u][f] = "use" /\ data'[u][f] = data[u][f]
      BY <2>3, <2>4, <3>1, <3>2
    <3>. QED
      BY <3>3 DEF UsedFileIsWhole, Trusted, ReliableInv
  <2>14. OwnerStep
    BY <2>1, <2>3, <2>6, OwnerMoves
  <2>15. TargetStep
    BY <2>1 DEF TargetStep
  <2>. QED
    BY <2>11, <2>12, <2>13, <2>14, <2>15 DEF Safe, ReliableInv
<1>3. CASE sw' # "ok"
  <2>1. pc' = "returned"
    BY <1>3 DEF WriteBf, Return
  <2>2. UNCHANGED <<lcs, records, pin, data>>
    BY <1>1, <1>3, CommandFailed DEF Trusted
  <2>. QED
    BY <1>1, <2>1, <2>2, ReturnKept DEF Trusted
<1>. QED
  BY <1>2, <1>3

\* What ACTIVATE finds and does.
LEMMA BfActivated ==
  ASSUME lost' = 0, Trusted, ActivateBf, sw' = "ok"
  PROVE  /\ UNCHANGED <<records, pin, data>>
         /\ \A u \in Users : u # user => lcs'[u] = lcs[u]
         /\ \A k \in Nodes : lcs'[user][k] = IF k = file THEN "use" ELSE lcs[user][k]
         /\ data[user][file] = [k \in 1..NChunks |-> val]
<1>1. pc = "activate bf" /\ Send(Current("ACTIVATE"))
  BY DEF ActivateBf, Checked
<1>2. /\ pc \in CreateSteps /\ user \in Users /\ file \in Files /\ dir = user
      /\ node = file
  BY <1>1, Creating DEF CreateSteps, Trusted, ReliableInv, Located
<1>3. UNCHANGED <<records, pin, data>>
  BY <1>1, <1>2, FileActivated
<1>4. \A u \in Users : u # user => lcs'[u] = lcs[u]
  BY <1>1, <1>2, FileActivated
<1>5. \A k \in Nodes : lcs'[user][k] = IF k = node THEN "use" ELSE lcs[user][k]
  BY <1>1, <1>2, FileActivated
<1>6. data[user][file] = [k \in 1..NChunks |-> val]
  <2>1. data[user][file] \in [1..NChunks -> Values \cup {None}]
    BY <1>2 DEF Trusted, StorageInv, TypeOK, CardTypeOK
  <2>2. \A k \in 1..NChunks : data[user][file][k] = val
    BY <1>1 DEF Trusted, ReliableInv, Written
  <2>. QED
    BY <2>1, <2>2
<1>. QED
  BY <1>2, <1>3, <1>4, <1>5, <1>6

\* ACTIVATE of the file, which is whole by then.
LEMMA SafeActivateBf == ASSUME lost' = 0, Trusted, ActivateBf PROVE Safe
<1>1. CASE sw' = "ok"
  <2>1. pc = "activate bf" /\ pc' = "returned" /\ UNCHANGED <<callVars, buf>>
    BY <1>1 DEF ActivateBf, Checked, Proceed, Return, workVars
  <2>2. /\ pc \in VerifiedSteps /\ user \in Users /\ file \in Files
        /\ op = "create_bf" /\ file \in Nodes /\ val \in Values
    BY <2>1, Creating DEF CreateSteps
  <2>3. UNCHANGED <<records, pin, data>>
    BY <1>1, BfActivated
  <2>4. \A u \in Users : u # user => lcs'[u] = lcs[u]
    BY <1>1, BfActivated
  <2>5. \A k \in Nodes : lcs'[user][k] = IF k = file THEN "use" ELSE lcs[user][k]
    BY <1>1, BfActivated
  <2>6. data[user][file] = [k \in 1..NChunks |-> val]
    BY <1>1, BfActivated
  <2>7. Calling' /\ Located' /\ HalfMade' /\ Verified' /\ Written' /\ Copied'
    BY <2>1, <2>3, Returning
  <2>8. UsedFileIsWhole'
    <3>1. SUFFICES ASSUME NEW u \in Users, NEW f \in Files, lcs'[u][f] = "use"
                   PROVE  \E v \in Values : data'[u][f] = [k \in 1..NChunks |-> v]
      BY DEF UsedFileIsWhole
    <3>2. data'[u][f] = data[u][f] /\ f \in Nodes
      BY <2>3, NodeNames
    <3>3. CASE u = user /\ f = file
      BY <2>2, <2>6, <3>2, <3>3
    <3>4. CASE ~ (u = user /\ f = file)
      <4>1. lcs[u][f] = "use"
        BY <2>4, <2>5, <3>1, <3>2, <3>4
      <4>. QED
        BY <3>2, <4>1 DEF UsedFileIsWhole, Trusted, ReliableInv
    <3>. QED
      BY <3>3, <3>4
  <2>9. OwnerStep
    BY <2>2, <2>3, <2>4, OwnerMoves
  <2>10. TargetStep
    BY <2>2 DEF TargetStep
  <2>. QED
    BY <2>7, <2>8, <2>9, <2>10 DEF Safe, ReliableInv
<1>. QED
  BY <1>1, SafeFailure DEF ActivateBf

(* do_read_data_from_bf_file *)

\* The answer with the size.
LEMMA SafeSelectBfRead == ASSUME lost' = 0, Trusted, SelectBfRead PROVE Safe
<1>. DEFINE c == Apdu("SELECT FCP", user, file, None)
<1>1. pc = "select bf read" /\ Send(c) /\ UNCHANGED <<callVars, buf>>
  BY DEF SelectBfRead
<1>2. /\ pc \in VerifiedSteps /\ user \in Users /\ file \in Files /\ dir = user
      /\ op = "read_bf" /\ lcs[user]["kf"] = "use" /\ pin[user] = pwd /\ buf = Blank
  BY <1>1, LetIn DEF VerifiedSteps, Trusted, ReliableInv, Calling, Copied
<1>3. CASE sw' = "ok"
  <2>1. PICK x : Accepts(c) /\ Execute(c, x)
    BY <1>1, <1>3, CommandDone DEF Trusted
  <2>2. Home(user, file) = user
    BY <1>2, UserHome, NodeNames
  <2>3. UNCHANGED <<lcs, records, pin, data>>
    BY <2>1, SelectDone
  <2>4. dir' = user
    BY <2>1, <2>2, SelectDone
  <2>5. node' = file
    BY <2>1, SelectDone
  <2>6. pc' \in {"read binary", "returned"}
    BY <1>3 DEF SelectBfRead, Proceed, Goto, Return
  <2>7. Calling' /\ Located' /\ HalfMade' /\ Verified' /\ Written' /\ Copied'
    BY <1>1, <1>2, <2>3, <2>4, <2>5, <2>6
       DEF Calling, Located, HalfMade, Verified, Written, Copied, VerifiedSteps,
           RegisterSteps, CreateSteps, FileOps, callVars
  <2>. QED
    BY <2>3, <2>7, QuietFiles DEF Safe, ReliableInv, Trusted
<1>4. CASE sw' # "ok"
  <2>1. pc' = "returned"
    BY <1>4 DEF SelectBfRead, Return
  <2>2. UNCHANGED <<lcs, records, pin, data>>
    BY <1>1, <1>4, CommandFailed DEF Trusted
  <2>. QED
    BY <1>1, <2>1, <2>2, ReturnKept DEF Trusted
<1>. QED
  BY <1>3, <1>4

\* READ BINARY: the caller's buffer fills.
LEMMA SafeReadBf == ASSUME lost' = 0, Trusted, ReadBf PROVE Safe
<1>. DEFINE c == Apdu("READ BINARY", user, file, i + 1)
<1>1. pc = "read binary" /\ Send(c) /\ UNCHANGED callVars
  BY DEF ReadBf
<1>2. /\ pc \in VerifiedSteps /\ user \in Users /\ file \in Files /\ dir = user
      /\ op = "read_bf" /\ lcs[user]["kf"] = "use" /\ pin[user] = pwd /\ node = file
  BY <1>1, LetIn DEF VerifiedSteps, Trusted, ReliableInv, Calling, Located
<1>3. CASE sw' = "ok"
  <2>1. PICK x \in Answers(c) : Accepts(c) /\ Execute(c, x)
    BY <1>1, <1>3, CommandDone DEF Trusted
  <2>2. UNCHANGED <<lcs, records, pin, data, dir, node>>
    BY <2>1, ReadDone
  <2>3. pc' \in {"read binary", "returned"}
    BY <1>3 DEF ReadBf, Proceed, Goto, Return
  <2>4. Calling' /\ Located' /\ HalfMade' /\ Verified' /\ Written' /\ Copied'
    BY <1>1, <1>2, <2>2, <2>3
       DEF Calling, Located, HalfMade, Verified, Written, Copied, VerifiedSteps,
           RegisterSteps, CreateSteps, FileOps, callVars
  <2>. QED
    BY <2>2, <2>4, QuietFiles DEF Safe, ReliableInv, Trusted
<1>4. CASE sw' # "ok"
  <2>1. pc' = "returned" /\ UNCHANGED buf
    BY <1>4 DEF ReadBf, Return
  <2>2. UNCHANGED <<lcs, records, pin, data>>
    BY <1>1, <1>4, CommandFailed DEF Trusted
  <2>. QED
    BY <1>1, <2>1, <2>2, ReturnKept DEF Trusted
<1>. QED
  BY <1>3, <1>4

(* delete_bf_file_impl *)

\* SELECT of the file: when it fails the file is still the one the existence
\* check has selected.
LEMMA SafeSelectBfDelete == ASSUME lost' = 0, Trusted, SelectBfDelete PROVE Safe
<1>1. /\ pc = "select bf delete" /\ Send(UserFile(file)) /\ pc' = "delete bf"
      /\ UNCHANGED <<callVars, buf>>
  BY DEF SelectBfDelete, Ignored, Goto, workVars
<1>2. /\ pc \in VerifiedSteps /\ user \in Users /\ file \in Nodes /\ dir = user
      /\ op = "delete_bf" /\ lcs[user]["kf"] = "use" /\ pin[user] = pwd /\ node = file
      /\ buf = Blank
  BY <1>1, LetIn, NodeNames
     DEF VerifiedSteps, Trusted, ReliableInv, Calling, Located, Copied
<1>3. UNCHANGED <<lcs, records, pin, data>> /\ dir' = user /\ node' = file
  BY <1>1, <1>2, LetInSelect
<1>4. Calling' /\ Located' /\ HalfMade' /\ Verified' /\ Written' /\ Copied'
  BY <1>1, <1>2, <1>3
     DEF Calling, Located, HalfMade, Verified, Written, Copied, VerifiedSteps,
         RegisterSteps, CreateSteps, FileOps, callVars
<1>. QED
  BY <1>3, <1>4, QuietFiles DEF Safe, ReliableInv, Trusted

\* What DELETE of the file does.
LEMMA BfDeleted ==
  ASSUME lost' = 0, Trusted, DeleteBf, sw' = "ok"
  PROVE  /\ user \in Users /\ file \in Files /\ op = "delete_bf" /\ pc \in VerifiedSteps
         /\ \A u \in Users :
              records'[u] = records[u] /\ pin'[u] = pin[u]
              /\ (u # user => lcs'[u] = lcs[u] /\ data'[u] = data[u])
         /\ \A k \in Nodes : lcs'[user][k] = IF k = file THEN "none" ELSE lcs[user][k]
         /\ \A f \in Files : f # file => data'[user][f] = data[user][f]
<1>1. pc = "delete bf" /\ Send(Current("DELETE"))
  BY DEF DeleteBf, Checked
<1>2. /\ pc \in VerifiedSteps /\ user \in Users /\ file \in Files /\ dir = user
      /\ op = "delete_bf" /\ node = file /\ file \in Nodes
      /\ file \notin {"df", "arr", "kf"}
  BY <1>1, LetIn, NodeNames, StepNames
     DEF VerifiedSteps, Trusted, ReliableInv, Calling, Located
<1>3. PICK x : Accepts(Current("DELETE")) /\ Execute(Current("DELETE"), x)
  BY <1>1, CommandDone DEF Trusted
<1>4. DeleteFile(Current("DELETE"))
  BY <1>2, <1>3, DeleteDone
<1>5. /\ lcs' = SetNode(user, file, "none")
      /\ records' = [records EXCEPT ![user] = @]
      /\ pin' = [pin EXCEPT ![user] = @]
      /\ data' = [data EXCEPT ![user] =
                    [f \in Files |-> IF f = file THEN Blank ELSE data[user][f]]]
  BY <1>2, <1>4 DEF DeleteFile
<1>6. /\ \A u \in Users : u # user => lcs'[u] = lcs[u]
      /\ \A k \in Nodes : lcs'[user][k] = IF k = file THEN "none" ELSE lcs[user][k]
  BY <1>2, <1>5, SetMine DEF Trusted, Lcs
<1>7. data \in [Users -> [Files -> [1..NChunks -> Values \cup {None}]]]
  BY DEF Trusted, StorageInv, TypeOK, CardTypeOK
<1>8. \A u \in Users : u # user => data'[u] = data[u]
  BY <1>5, <1>7
<1>9. data'[user] = [f \in Files |-> IF f = file THEN Blank ELSE data[user][f]]
  BY <1>2, <1>5, <1>7
<1>10. \A u \in Users : records'[u] = records[u] /\ pin'[u] = pin[u]
  BY <1>5
<1>. QED
  BY <1>2, <1>6, <1>8, <1>9, <1>10

\* DELETE of the file.
LEMMA SafeDeleteBf == ASSUME lost' = 0, Trusted, DeleteBf PROVE Safe
<1>1. CASE sw' = "ok"
  <2>1. pc' = "returned" /\ UNCHANGED <<callVars, buf>>
    BY <1>1 DEF DeleteBf, Checked, Proceed, Return, workVars
  <2>2. user \in Users /\ file \in Files /\ op = "delete_bf" /\ pc \in VerifiedSteps
    BY <1>1, BfDeleted
  <2>3. \A u \in Users :
          records'[u] = records[u] /\ pin'[u] = pin[u]
          /\ (u # user => lcs'[u] = lcs[u] /\ data'[u] = data[u])
    BY <1>1, BfDeleted
  <2>4. \A k \in Nodes : lcs'[user][k] = IF k = file THEN "none" ELSE lcs[user][k]
    BY <1>1, BfDeleted
  <2>5. \A f \in Files : f # file => data'[user][f] = data[user][f]
    BY <1>1, BfDeleted
  <2>6. Calling' /\ Located' /\ HalfMade' /\ Verified' /\ Written' /\ Copied'
    BY <2>1, <2>2, Returning
  <2>7. UsedFileIsWhole'
    <3>1. SUFFICES ASSUME NEW u \in Users, NEW f \in Files, lcs'[u][f] = "use"
                   PROVE  \E v \in Values : data'[u][f] = [k \in 1..NChunks |-> v]
      BY DEF UsedFileIsWhole
    <3>2. f \in Nodes
      BY NodeNames
    <3>3. lcs[u][f] = "use" /\ data'[u][f] = data[u][f]
      BY <2>3, <2>4, <2>5, <3>1, <3>2
    <3>. QED
      BY <3>3 DEF UsedFileIsWhole, Trusted, ReliableInv
  <2>8. OwnerStep
    BY <2>2, <2>3, OwnerMoves
  <2>9. TargetStep
    BY <2>3, <2>4 DEF TargetStep
  <2>. QED
    BY <2>6, <2>7, <2>8, <2>9 DEF Safe, ReliableInv
<1>. QED
  BY <1>1, SafeFailure DEF DeleteBf

\* SELECT first and next.
LEMMA SafeListFiles == ASSUME lost' = 0, Trusted, ListFiles PROVE Safe
<1>. DEFINE ins == IF pc = "list first" THEN "SELECT FIRST" ELSE "SELECT NEXT"
<1>1. /\ pc \in {"list first", "list next"} /\ Send(Current(ins))
      /\ UNCHANGED <<callVars, buf>> /\ buf = Blank
  BY DEF ListFiles, Trusted, ReliableInv, Copied
<1>2. pc' \in {"returned", "list next"}
  BY DEF ListFiles, Return, Goto
<1>3. UNCHANGED <<lcs, records, pin, data>>
  <2>1. CASE sw' = "ok"
    <3>1. PICK x \in Answers(Current(ins)) : Accepts(Current(ins)) /\ Execute(Current(ins), x)
      BY <1>1, <2>1, CommandDone DEF Trusted
    <3>2. ins \in {"SELECT FIRST", "SELECT NEXT"}
      OBVIOUS
    <3>. HIDE DEF ins
    <3>. QED
      BY <3>1, <3>2, ListDone
  <2>2. CASE sw' # "ok"
    BY <1>1, <2>2, CommandFailed DEF Trusted
  <2>. QED
    BY <2>1, <2>2
<1>. QED
  BY <1>1, <1>2, <1>3, RestingKept, ReturnKept DEF Resting, Trusted

-----------------------------------------------------------------------------
(* The theorems.                                                            *)

\* Every step keeps the invariant and does what it may.
LEMMA SafeNext == ASSUME lost' = 0, Trusted, Next PROVE Safe
<1>1. CASE Call \/ CallerResumes \/ OpenChannel \/ CloseChannel \/ Crash
  BY <1>1, SafeBetween
<1>2. CASE ClientStep
  <2>1. CASE SelectCryptoAid \/ CheckUserDf \/ OpenUserDf \/ CheckBf \/ VerifyPin
    BY <2>1, SafeAid, SafeCheckUser, SafeOpenUser, SafeCheckBf, SafeVerify
  <2>2. CASE RegisterStep
    BY <2>2, SafeRegister
  <2>3. CASE FileStep
    BY <2>3, SafeCreateBf, SafeSelectNewBf, SafeWriteBf, SafeActivateBf,
       SafeSelectBfRead, SafeBetween, SafeReadBf, SafeSelectBfDelete, SafeDeleteBf
       DEF FileStep
  <2>4. CASE SelectDfDelete \/ DeleteUserDf
    BY <2>4, SafeSelectDfDelete, SafeDeleteUserDf
  <2>5. CASE ListFiles \/ FreeUninitialised
    BY <2>5, SafeListFiles, SafeBetween
  <2>. QED
    BY <1>2, <2>1, <2>2, <2>3, <2>4, <2>5 DEF ClientStep
<1>. QED
  BY <1>1, <1>2 DEF Next

\* A step that changes nothing keeps the invariant.
LEMMA ReliableStutter == ASSUME ReliableInv, UNCHANGED vars PROVE ReliableInv'
<1>1. UNCHANGED <<lcs, records, pin, data, dir, node, pc, op, user, file, pwd, val,
                  exists, i, buf>>
  BY DEF vars, cardVars, fileVars, selectVars, clientVars, callVars, workVars
<1>2. Calling' /\ Located' /\ HalfMade'
  BY <1>1 DEF ReliableInv, Calling, Located, HalfMade
<1>3. Verified' /\ Written' /\ Copied'
  BY <1>1 DEF ReliableInv, Verified, Written, Copied
<1>4. UsedFileIsWhole'
  BY <1>1, QuietFiles
<1>. QED
  BY <1>2, <1>3, <1>4 DEF ReliableInv

\* A step loses at most one answer.
LEMMA LostGrows == ASSUME [Next]_vars PROVE lost' = lost \/ lost' = lost + 1
<1>1. \A c : Send(c) => lost' = lost \/ lost' = lost + 1
  BY DEF Send, Answered, Refused, Lost, Lose
<1>2. CASE \/ Call \/ CallerResumes \/ OpenChannel \/ CloseChannel \/ Crash
           \/ ReadNullSize \/ FreeUninitialised \/ SelectCryptoAid
  BY <1>2 DEF Call, CallerResumes, OpenChannel, CloseChannel, Crash, ReadNullSize,
              FreeUninitialised, SelectCryptoAid, Lose
<1>3. CASE RegisterStep \/ SelectDfDelete \/ DeleteUserDf
  BY <1>1, <1>3 DEF RegisterStep, CreateUserDf, CreateUserEfArr, SelectUserEfArr,
     AddRecordEfArr, SelectArrUse, ActivateArr, CreateKf, SelectKf, ChangeRefData,
     SelectKfUse, ActivateKf, SelectDfUse, ActivateDf, SelectDfDelete, DeleteUserDf,
     Checked, Ignored
<1>4. CASE \/ CheckUserDf \/ OpenUserDf \/ CheckBf \/ VerifyPin \/ CreateBf
           \/ SelectBfWrite \/ WriteBf \/ SelectBfUse \/ ActivateBf \/ SelectBfRead
           \/ ReadBf \/ SelectBfDelete \/ DeleteBf \/ ListFiles
  BY <1>1, <1>4 DEF CheckUserDf, OpenUserDf, CheckBf, VerifyPin, CreateBf,
     SelectBfWrite, WriteBf, SelectBfUse, ActivateBf, SelectBfRead, ReadBf,
     SelectBfDelete, DeleteBf, ListFiles, Checked, Ignored
<1>5. CASE UNCHANGED vars
  BY <1>5 DEF vars
<1>. QED
  BY <1>2, <1>3, <1>4, <1>5 DEF Next, ClientStep, FileStep

\* The count of lost answers never falls.
LEMMA LostStays == ASSUME StorageInv, [Next]_vars, lost' = 0 PROVE lost = 0
<1>1. lost \in Nat
  BY StorageAssumption DEF StorageInv, TypeOK
<1>. QED
  BY <1>1, LostGrows

\* On a line that loses nothing the count stays 0.
LEMMA NoneLost == ASSUME MaxLost = 0, StorageInv PROVE lost = 0
BY DEF StorageInv, TypeOK

\* Nor does a step lose one.
LEMMA NoneLostNext == ASSUME MaxLost = 0, StorageInv' PROVE lost' = 0
BY DEF StorageInv, TypeOK

\* The arguments and the session stay what they are in a call.
LEMMA CallKeeps ==
  ASSUME ClientStep, pc' # "idle"
  PROVE  UNCHANGED <<callVars, session>> /\ pc \in Steps
<1>1. CASE RegisterStep
  BY <1>1 DEF RegisterStep, CreateUserDf, CreateUserEfArr, SelectUserEfArr, AddRecordEfArr,
     SelectArrUse, ActivateArr, CreateKf, SelectKf, ChangeRefData, SelectKfUse, ActivateKf,
     SelectDfUse, ActivateDf, Checked, Ignored, Steps
<1>2. CASE FileStep
  BY <1>2 DEF FileStep, CreateBf, SelectBfWrite, WriteBf, SelectBfUse, ActivateBf,
     SelectBfRead, ReadNullSize, ReadBf, SelectBfDelete, DeleteBf, Checked, Ignored, Steps,
     Restart, Idle
<1>3. CASE \/ SelectCryptoAid \/ CheckUserDf \/ OpenUserDf \/ CheckBf \/ VerifyPin
           \/ SelectDfDelete \/ DeleteUserDf \/ ListFiles \/ FreeUninitialised
  BY <1>3 DEF SelectCryptoAid, CheckUserDf, OpenUserDf, CheckBf, VerifyPin, SelectDfDelete,
     DeleteUserDf, ListFiles, FreeUninitialised, Checked, Restart, Idle, Steps
<1>. QED
  BY <1>1, <1>2, <1>3 DEF ClientStep

\* The three exchanges that are common to several calls.
LEMMA Forks ==
  ASSUME StorageInv
  PROVE  /\ CheckUserDf =>
              /\ pc' \in {"returned", "verify", "open df", "create df"}
              /\ pc' = "returned" /\ ret' = "OK" => op = "is_registered"
         /\ OpenUserDf =>
              /\ pc' \in {"returned", "check bf"} \/ (pc' = "list first" /\ op = "list_files")
              /\ pc' = "returned" /\ ret' = "OK" => op = "select_user"
         /\ VerifyPin =>
              /\ pc' \in {"returned", "select df delete", "create bf", "select bf read",
                          "select bf delete"}
              /\ pc' = "returned" => ret' # "OK"
<1>. USE DEF Goto, Return
<1>1. ASSUME CheckUserDf
      PROVE  /\ pc' \in {"returned", "verify", "open df", "create df"}
             /\ pc' = "returned" /\ ret' = "OK" => op = "is_registered"
  <2>1. user \in Users
    BY <1>1 DEF CheckUserDf, StorageInv, Fits, Steps
  <2>2. sw' \in Status
    BY <1>1, <2>1, Exchange, Commands, NodeNames DEF CheckUserDf, StorageInv, RspTypeOK
  <2>. QED
    BY <1>1, <2>2 DEF CheckUserDf, Status
<1>2. ASSUME OpenUserDf
      PROVE  /\ pc' \in {"returned", "check bf"} \/ (pc' = "list first" /\ op = "list_files")
             /\ pc' = "returned" /\ ret' = "OK" => op = "select_user"
  <2>1. op \in FileOps \cup {"select_user", "list_files"}
    BY <1>2 DEF OpenUserDf, StorageInv, Fits, Steps
  <2>. QED
    BY <1>2, <2>1 DEF OpenUserDf
<1>3. ASSUME VerifyPin
      PROVE  /\ pc' \in {"returned", "select df delete", "create bf", "select bf read",
                         "select bf delete"}
             /\ pc' = "returned" => ret' # "OK"
  <2>1. op \in {"unregister", "create_bf", "read_bf", "delete_bf"}
    BY <1>3 DEF VerifyPin, StorageInv, Fits, Steps, FileOps
  <2>. QED
    BY <1>3, <2>1 DEF VerifyPin, AfterVerify
<1>. QED
  BY <1>1, <1>2, <1>3

\* Where a call dies, begins to list or goes on with it, or reads a chunk.
LEMMA Ways ==
  ASSUME StorageInv, ClientStep
  PROVE  /\ pc' = "idle" => ReadNullSize \/ FreeUninitialised
         /\ pc' = "list first" =>
              (SelectCryptoAid /\ op = "list_users") \/ (OpenUserDf /\ op = "list_files")
         /\ pc' = "list next" => ListFiles
         /\ pc' = "read binary" => SelectBfRead \/ ReadBf
<1>. USE DEF Goto, Return, Proceed
<1>. DEFINE Ends == {"idle", "list first", "list next", "read binary"}
<1>1. ASSUME NEW step, NEW c, NEW next, Checked(step, c, next), next \notin Ends
      PROVE  pc' \notin Ends
  BY <1>1 DEF Checked
<1>2. ASSUME NEW step, NEW c, NEW next, NEW skip, Ignored(step, c, next, skip),
             next \notin Ends, skip \notin Ends
      PROVE  pc' \notin Ends
  BY <1>2 DEF Ignored
<1>3. CASE \/ CreateUserDf \/ CreateUserEfArr \/ SelectUserEfArr \/ SelectArrUse
           \/ ActivateArr \/ SelectDfUse \/ ActivateDf \/ SelectDfDelete \/ DeleteUserDf
           \/ CreateBf \/ SelectBfWrite \/ SelectBfUse \/ ActivateBf \/ DeleteBf
  <2>1. pc' \notin Ends
    <3>. HIDE DEF Goto, Return, Proceed
    <3>. QED
      BY <1>1, <1>3 DEF CreateUserDf, CreateUserEfArr, SelectUserEfArr, SelectArrUse,
         ActivateArr, SelectDfUse, ActivateDf, SelectDfDelete, DeleteUserDf, CreateBf,
         SelectBfWrite, SelectBfUse, ActivateBf, DeleteBf
  <2>. QED
    BY <2>1
<1>4. CASE CreateKf \/ SelectKf \/ ChangeRefData \/ SelectKfUse \/ ActivateKf \/ SelectBfDelete
  <2>1. pc' \notin Ends
    BY <1>2, <1>4 DEF CreateKf, SelectKf, ChangeRefData, SelectKfUse, ActivateKf, SelectBfDelete
  <2>. QED
    BY <2>1
<1>5. CASE WriteBf \/ AddRecordEfArr \/ CheckBf
  BY <1>5 DEF WriteBf, AddRecordEfArr, CheckBf
<1>6. CASE SelectBfRead \/ ReadBf \/ ListFiles
  BY <1>6 DEF SelectBfRead, ReadBf, ListFiles
<1>7. CASE ReadNullSize \/ FreeUninitialised
  BY <1>7 DEF ReadNullSize, FreeUninitialised, Restart, Idle
<1>8. CASE SelectCryptoAid
  BY <1>8 DEF SelectCryptoAid, AfterAid
<1>9. CASE CheckUserDf \/ OpenUserDf \/ VerifyPin
  BY <1>9, Forks
<1>. QED
  BY <1>3, <1>4, <1>5, <1>6, <1>7, <1>8, <1>9 DEF ClientStep, FileStep, RegisterStep

\* Nothing else goes on where the applet is to be selected.
LEMMA AidStep ==
  ASSUME ClientStep, pc = "select aid"
  PROVE  SelectCryptoAid
BY DEF ClientStep, FileStep, RegisterStep, CheckUserDf, OpenUserDf, CheckBf,
   VerifyPin, CreateUserDf, CreateUserEfArr, SelectUserEfArr, AddRecordEfArr,
   SelectArrUse, ActivateArr, CreateKf, SelectKf, ChangeRefData, SelectKfUse, ActivateKf,
   SelectDfUse, ActivateDf, SelectDfDelete, DeleteUserDf, ListFiles, FreeUninitialised,
   CreateBf, SelectBfWrite, WriteBf, SelectBfUse, ActivateBf, SelectBfRead, ReadNullSize,
   ReadBf, SelectBfDelete, DeleteBf, Checked, Ignored

\* At first there is no call and no file.
LEMMA ReliableInit == Init => ReliableInv
<1>1. SUFFICES ASSUME Init PROVE ReliableInv
  OBVIOUS
<1>2. pc = "idle" /\ buf = Blank
  BY <1>1 DEF Init, ClientInit
<1>3. Calling /\ Located /\ HalfMade /\ Verified /\ Written /\ Copied
  BY <1>2 DEF Calling, Located, HalfMade, Verified, Written, Copied, VerifiedSteps,
              RegisterSteps, CreateSteps
<1>4. \A u \in Users, f \in Files : lcs[u][f] = "none"
  BY <1>1, NodeNames DEF Init, CardInit, NoFiles
<1>. QED
  BY <1>3, <1>4 DEF ReliableInv, UsedFileIsWhole

\* What holds at each exchange as long as no answer has been lost.
THEOREM ReliableInvariant == Spec => [](lost = 0 => ReliableInv)
<1>1. ASSUME StorageInv, lost = 0 => ReliableInv, [Next]_vars
      PROVE  (lost = 0 => ReliableInv)'
  BY <1>1, LostStays, SafeNext, ReliableStutter DEF Trusted, Safe
<1>. QED
  BY <1>1, ReliableInit, StorageInvariant, PTL DEF Spec

\* On a line that loses nothing a binary file in the "use" state holds in every
\* chunk what one create call wrote, whatever is refused and wherever the
\* process dies: create_bf_file_impl activates it last.
THEOREM UsedFilesAreWhole == ASSUME MaxLost = 0 PROVE Spec => []UsedFileIsWhole
<1>1. StorageInv /\ (lost = 0 => ReliableInv) => UsedFileIsWhole
  BY NoneLost DEF ReliableInv
<1>. QED
  BY <1>1, ReliableInvariant, StorageInvariant, PTL

\* On such a line nothing of a user's changes but by a registration of a user
\* who is not registered, or with the user's password.
THEOREM OnlyOwnersChange == ASSUME MaxLost = 0 PROVE Spec => OnlyOwnerChanges
<1>1. StorageInv /\ StorageInv' /\ (lost = 0 => ReliableInv) /\ [Next]_vars =>
        [\A u \in Users :
           lost' <= 1 /\ FilesOf(u)' # FilesOf(u) =>
             /\ user = u
             /\ \/ op = "register" /\ lcs[u]["df"] # "use"
                \/ op \in PasswordOps \ {"register"} /\ pwd = pin[u]]_vars
  BY NoneLost, NoneLostNext, SafeNext DEF Trusted, Safe, OwnerStep
<1>. QED
  BY <1>1, ReliableInvariant, StorageInvariant, PTL DEF Spec, OnlyOwnerChanges

\* On such a line delete_bf_file deletes the file asked for and nothing else,
\* although it deletes whatever file is current: a SELECT that is refused
\* leaves current what the existence check has selected.
THEOREM DeletionsHitTheirTarget == ASSUME MaxLost = 0 PROVE Spec => DeleteHitsTarget
<1>1. StorageInv /\ StorageInv' /\ (lost = 0 => ReliableInv) /\ [Next]_vars =>
        [op = "delete_bf" =>
           \A u \in Users, n \in Nodes :
             lcs'[u][n] # lcs[u][n] => u = user /\ n = file]_vars
  BY NoneLost, NoneLostNext, SafeNext DEF Trusted, Safe, TargetStep
<1>. QED
  BY <1>1, ReliableInvariant, StorageInvariant, PTL DEF Spec, DeleteHitsTarget

\* On such a line chunks of a file reach the caller's buffer only with the
\* user's password, even when the call then fails.
THEOREM ReadsNeedPasswords == ASSUME MaxLost = 0 PROVE Spec => []ReadNeedsPassword
<1>1. StorageInv /\ (lost = 0 => ReliableInv) => ReadNeedsPassword
  BY NoneLost DEF ReliableInv, Copied, ReadNeedsPassword
<1>. QED
  BY <1>1, ReliableInvariant, StorageInvariant, PTL
=============================================================================
