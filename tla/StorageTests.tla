---------------------------- MODULE StorageTests ----------------------------
(***************************************************************************)
(* The tests of src/src/test/sec_storage_test.c, run by the main of        *)
(* src/src/test/main.c on the client and element of SecStorage.  Nothing   *)
(* fails here: the question is what the tests themselves presume of the    *)
(* element they find, and in what state they leave it.                     *)
(*                                                                         *)
(* A test is a list of what it has still to do, each item a call and what  *)
(* is asserted of its outcome.  A failed assertion jumps out of the test:  *)
(* the channel stays open and the users the test registered stay.          *)
(***************************************************************************)
EXTENDS SecStorage, SequencesExt

CONSTANTS Password,  \* the password of the tests
          Value      \* the data they write

\* In the order of main.
Tests == <<"check_user_id_test", "check_password_size_test", "get_user_list_test",
           "add_delete_user_test_1", "add_delete_user_test_2",
           "create_delete_file_test_1", "create_delete_file_test_2",
           "create_delete_file_test_3", "check_file_id_test">>

ASSUME TestAssumption ==
  /\ Password \in Passwords /\ Value \in Values
  /\ Users # {} /\ Files # {} /\ IsFiniteSet(Passwords)
  /\ Faults = {} /\ MaxLost = 0

VARIABLES queue,     \* tests to run
          test,      \* the test that runs
          todo,      \* what it has still to do
          before,    \* num_users
          mine,      \* user_ids: the users it has registered
          failed,    \* tests with a failed assertion
          dead,      \* the process has died
          others     \* users registered before the program started

testVars == <<queue, test, todo, before, mine, failed, dead, others>>
allVars == <<vars, testVars>>

UserIds == SetToSeq(Users)    \* 1..15, in the order of the loops
FileIds == SetToSeq(Files)

\* What a loop does in its turns, n items in each.
InTurn(turns, n) ==
  [k \in 1..n * Len(turns) |-> turns[((k - 1) \div n) + 1][((k - 1) % n) + 1]]

-----------------------------------------------------------------------------
(* What the tests do.  An item is a call and what is asserted of its        *)
(* outcome; "loop" ends the search for users that are not registered.       *)

Item(o, u, f, p, want, n) ==
  [op |-> o, user |-> u, file |-> f, pwd |-> p, want |-> want, count |-> n]
Local(o) == Item(o, BadUser, BadFile, BadPassword, "ok", 0)

Count(want, n) == Item("list_users", BadUser, BadFile, BadPassword, want, n)
IsRegistered(u, want) == Item("is_registered", u, BadFile, BadPassword, want, 0)
Register(u, p, want) == Item("register", u, BadFile, p, want, 0)
Unregister(u, p) == Item("unregister", u, BadFile, p, "ok", 0)
OnFile(o, u, f, want) == Item(o, u, f, Password, want, 0)
ListOf(u, want) == Item("list_files", u, BadFile, BadPassword, want, 0)

OnFiles(o, u, want) == [k \in DOMAIN FileIds |-> OnFile(o, u, FileIds[k], want)]
FillFiles(u) == OnFiles("create_bf", u, "ok") \o <<ListOf(u, "all files")>>
                  \o OnFiles("read_bf", u, "data")
EmptyFiles(u) == OnFiles("delete_bf", u, "ok") \o <<ListOf(u, "no files")>>

PasswordRound(u, p) ==
  <<Register(u, p, "ok"), IsRegistered(u, "registered"),
    Unregister(u, p), IsRegistered(u, "not registered")>>

\* The loop over the user ids, which looks for users that are not registered.
Search == [k \in DOMAIN UserIds |-> IsRegistered(UserIds[k], "search")] \o <<Local("loop")>>

check_user_id_test ==
  <<IsRegistered(BadUser, "error"), IsRegistered(Head(UserIds), "ok"),
    IsRegistered(Last(UserIds), "ok"), IsRegistered(BadUser, "error"), Local("close")>>

Begin(t) ==
  <<Local("open")>> \o
  CASE t = "check_user_id_test" -> check_user_id_test
    [] t = "get_user_list_test" -> <<Count("each", 0), Local("close")>>
    [] t \in {"check_password_size_test", "check_file_id_test"} -> Search
    [] OTHER -> <<Count("first", 0)>> \o Search

\* Tests that leave the loop at the first user that is not registered.
Breaks(t) ==
  t \in {"check_password_size_test", "create_delete_file_test_2", "check_file_id_test"}

\* What a test does with a user u it has found not registered.
check_password_size_test(u) ==
  <<Register(u, BadPassword, "error"), Register(u, BadPassword, "error")>>
    \o InTurn([k \in 1..Cardinality(Passwords) |-> PasswordRound(u, SetToSeq(Passwords)[k])], 4)
    \o <<Local("close")>>

add_delete_user_test_1(u) ==
  <<Register(u, Password, "ok"), IsRegistered(u, "registered"), Count("count", before + 1),
    Unregister(u, Password), IsRegistered(u, "not registered")>>

\* Mutant: the user is left registered.
KeepsUser(u) == <<Register(u, Password, "ok")>> \o FillFiles(u) \o EmptyFiles(u)

create_delete_file_test_1(u) ==
  <<Register(u, Password, "ok")>> \o FillFiles(u) \o EmptyFiles(u) \o <<Unregister(u, Password)>>

\* The loop goes to file id 16, which two lines before is asserted to be refused.
check_file_id_test(u) ==
  <<Register(u, Password, "ok")>>
    \o [k \in 1..2 |-> OnFile("create_bf", u, BadFile, "error")]
    \o InTurn([k \in 1..Len(FileIds) + 1 |->
         LET f == Append(FileIds, BadFile)[k] IN
           <<OnFile("create_bf", u, f, "ok"), OnFile("delete_bf", u, f, "ok")>>], 2)
    \o <<Unregister(u, Password), Local("close")>>

Found(t, u) ==
  CASE t = "check_password_size_test" -> check_password_size_test(u)
    [] t = "add_delete_user_test_1" -> add_delete_user_test_1(u)
    [] t = "add_delete_user_test_2" -> <<Register(u, Password, "ok")>>
    [] t = "create_delete_file_test_1" -> create_delete_file_test_1(u)
    [] t = "create_delete_file_test_2" -> create_delete_file_test_1(u) \o <<Local("close")>>
    [] t = "create_delete_file_test_3" -> <<Register(u, Password, "ok")>> \o FillFiles(u)
    [] t = "check_file_id_test" -> check_file_id_test(u)

UnregisterMine == LET ids == SetToSeq(mine) IN
  [k \in DOMAIN ids |-> Unregister(ids[k], Password)]

\* What follows the loop, when it has not been left.
AfterLoop(t) ==
  CASE t = "add_delete_user_test_1" -> <<Count("count", before)>>
    [] t = "add_delete_user_test_2" ->
         <<Count("count", Cardinality(mine))>> \o UnregisterMine \o <<Count("count", before)>>
    [] t = "create_delete_file_test_1" -> << >>
    [] t = "create_delete_file_test_3" ->
         <<Count("count", before + Cardinality(mine))>> \o UnregisterMine
           \o <<Count("count", before)>>

-----------------------------------------------------------------------------
\* The element as an earlier use has left it: some users, each with files.
TestInit ==
  /\ ClientInit
  /\ others \in SUBSET Users
  /\ lcs = [u \in Users |-> IF u \in others THEN [n \in Nodes |-> "use"] ELSE NoFiles]
  /\ records = [u \in Users |-> IF u \in others THEN NRecords ELSE 0]
  /\ pin \in [Users -> Passwords \cup {None}]
  /\ \A u \in Users : (pin[u] = None) = (u \notin others)
  /\ data = [u \in Users |-> [f \in Files |->
               IF u \in others THEN [k \in 1..NChunks |-> Value] ELSE Blank]]
  /\ SelectInit
  /\ queue = Tests
  /\ test = "none" /\ todo = << >> /\ before = 0 /\ mine = {}
  /\ failed = {} /\ dead = FALSE

\* The line of a test is there, or commented out.
RunTest ==
  /\ pc = "idle" /\ todo = << >> /\ queue # << >>
  /\ queue' = Tail(queue) /\ before' = 0 /\ mine' = {}
  /\ \/ test' = Head(queue) /\ todo' = Begin(Head(queue))
     \/ UNCHANGED <<test, todo>>
  /\ UNCHANGED <<vars, failed, dead, others>>

AtLocal(o) == pc = "idle" /\ todo # << >> /\ Head(todo).op = o

\* open_crypto_lchannel returns 0 at once when a failed test has left its
\* channel open.
Open ==
  /\ AtLocal("open")
  /\ OpenChannel \/ (session /\ UNCHANGED vars)
  /\ todo' = Tail(todo)
  /\ UNCHANGED <<queue, test, before, mine, failed, dead, others>>

Close ==
  /\ AtLocal("close")
  /\ CloseChannel \/ (~ session /\ UNCHANGED vars)
  /\ todo' = Tail(todo)
  /\ UNCHANGED <<queue, test, before, mine, failed, dead, others>>

\* No user was left to find: new_user_id is -1 in create_delete_file_test_2,
\* which asserts that it is not, and uninitialised in the two others.
EndLoop ==
  /\ AtLocal("loop")
  /\ CASE test = "create_delete_file_test_2" -> todo' = << >> /\ failed' = failed \cup {test}
       [] test \in {"check_password_size_test", "check_file_id_test"} ->
            \E u \in Users \cup {BadUser} : todo' = Found(test, u) /\ UNCHANGED failed
       [] OTHER -> todo' = AfterLoop(test) \o <<Local("close")>> /\ UNCHANGED failed
  /\ UNCHANGED <<vars, queue, test, before, mine, dead, others>>

TestCall ==
  /\ todo # << >> /\ Call
  /\ LET item == Head(todo) IN
       /\ op' = item.op /\ user' = item.user /\ file' = item.file /\ pwd' = item.pwd
       /\ val' = IF item.op = "create_bf" THEN Value ELSE None
  /\ UNCHANGED testVars

ClientRuns ==
  /\ ClientStep
  /\ IF pc' = "idle" THEN dead' = TRUE /\ todo' = << >> /\ queue' = << >>
     ELSE UNCHANGED <<dead, todo, queue>>
  /\ UNCHANGED <<test, before, mine, failed, others>>

Holds(item) ==
  CASE item.want = "first" -> TRUE
    [] item.want = "count" -> Cardinality(found) = item.count
    [] item.want \in {"ok", "search", "each"} -> ret = "OK"
    [] item.want = "error" -> ret # "OK"
    [] item.want = "registered" -> ret = "OK" /\ exists
    [] item.want = "not registered" -> ret = "OK" /\ ~ exists
    [] item.want = "all files" -> ret = "OK" /\ found = Files /\ ~ repeated
    [] item.want = "no files" -> ret = "OK" /\ found = {}
    [] item.want = "data" -> ret = "OK" /\ buf = [k \in 1..NChunks |-> Value]

Remaining(item) ==
  CASE item.want = "search" /\ ~ exists ->
         Found(test, item.user) \o (IF Breaks(test) THEN << >> ELSE Tail(todo))
    [] item.want = "each" ->
         [k \in 1..Cardinality(found) |-> IsRegistered(SetToSeq(found)[k], "registered")]
           \o Tail(todo)
    [] OTHER -> Tail(todo)

\* Mutant: a failed assertion is counted and the test goes on.
AssertGoesOn ==
  /\ pc = "returned"
  /\ LET item == Head(todo) IN
       /\ todo' = Remaining(item)
       /\ failed' = failed \cup {t \in {test} : ~ Holds(item)}
       /\ before' = IF item.want = "first" THEN Cardinality(found) ELSE before
       /\ mine' = IF item.op = "register" /\ ret = "OK" THEN mine \cup {user} ELSE mine
  /\ CallerResumes
  /\ UNCHANGED <<queue, test, dead, others>>

\* The call has returned: the assertions on its outcome.
CheckResult ==
  /\ pc = "returned"
  /\ LET item == Head(todo) IN
       /\ todo' = IF Holds(item) THEN Remaining(item) ELSE << >>
       /\ failed' = failed \cup {t \in {test} : ~ Holds(item)}
       /\ before' = IF item.want = "first" THEN Cardinality(found) ELSE before
       /\ mine' = IF item.op = "register" /\ ret = "OK" THEN mine \cup {user} ELSE mine
  /\ CallerResumes
  /\ UNCHANGED <<queue, test, dead, others>>

\* main closes the channel that is left.
Finish ==
  /\ todo = << >> /\ queue = << >>
  /\ CloseChannel
  /\ UNCHANGED testVars

TestNext == RunTest \/ Open \/ Close \/ EndLoop \/ TestCall \/ ClientRuns \/ CheckResult \/ Finish

\* One thread, which runs the tests to the end.
TestSpec == TestInit /\ [][TestNext]_allVars /\ WF_allVars(TestNext)

-----------------------------------------------------------------------------
Ended == todo = << >> /\ queue = << >> /\ pc = "idle" /\ ~ session

\* Whoever is registered when the tests are started, and whichever assertions
\* fail, they leave every file and password of the users that were registered
\* before as it was.
TestsSpareOthers == [][\A u \in others : FilesOf(u)' = FilesOf(u)]_allVars

\* As long as one user id is free, the first assertion to fail is that file id
\* 16 can be created, or, on an element that had users already, that there are
\* as many users as add_delete_user_test_2 has registered.
FirstFailureIsKnown ==
  others # Users /\ Cardinality(failed) = 1 =>
    \/ failed = {"check_file_id_test"}
    \/ failed = {"add_delete_user_test_2"} /\ others # {}

\* When no assertion has failed the element holds at the end what it held at
\* the start.
TestsLeaveNoTrace ==
  Ended /\ failed = {} /\ ~ dead =>
    \A u \in Users \ others : lcs[u] = NoFiles /\ pin[u] = None

\* The tests can bring the process down, where the first SELECT of a listing
\* fails, only on an element without users.
DiesOnlyWhenEmpty == dead => others = {}

\* The tests come to an end.
TestsEnd == <>Ended
=============================================================================
