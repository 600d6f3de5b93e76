------------------------- MODULE StorageTests_proofs -------------------------
(***************************************************************************)
(* Proofs about StorageTests: whichever users are registered when the      *)
(* tests are started, each with all files, for every set of users, files,  *)
(* passwords and values and every number of records and chunks, the tests  *)
(* leave those users alone, leave nothing behind when no assertion fails,  *)
(* can bring the process down only on an element without users, and their  *)
(* first assertion to fail is one of two.                                  *)
(*                                                                         *)
(* The tests make steps of SecStorage on a line that loses nothing, with   *)
(* an element that refuses nothing, so that its invariants hold here; what *)
(* is added is what a test has still to do, and, for the last of the four, *)
(* that this leads from what the element holds to the users of before.     *)
(***************************************************************************)
EXTENDS StorageTests, Complete_proofs, FiniteSetTheorems, SequenceTheorems

(* What a test has still to do.                                             *)

KeepingTests == {"add_delete_user_test_2", "create_delete_file_test_3"}
SearchTests == KeepingTests \cup
  {"check_password_size_test", "add_delete_user_test_1", "create_delete_file_test_1",
   "create_delete_file_test_2", "check_file_id_test"}
TestNames == SearchTests \cup {"check_user_id_test", "get_user_list_test"}

Wants == {"ok", "error", "search", "first", "each", "count", "registered", "not registered",
          "all files", "no files", "data"}

\* The items of the tests: what is asserted goes with the call.
Items ==
  {x \in [op : Ops \cup {"open", "close", "loop"}, user : Users \cup {BadUser},
          file : Files \cup {BadFile}, pwd : Passwords \cup {BadPassword},
          want : Wants, count : Nat] :
     /\ x.op = "register" => x.want = "ok" \/ (x.want = "error" /\ x.pwd = BadPassword)
     /\ x.op = "unregister" => x.want = "ok"
     /\ x.want = "search" => x.op = "is_registered"
     /\ x.want = "each" => x.op = "list_users"}

Registration(x) == x.op = "register" /\ x.want = "ok"

\* The calls that change the files of a user who is registered.
Changing == {"unregister", "create_bf", "delete_bf"}

\* In each list of items a registration stands before the changes to a user in
\* the set held, which is the set of users registered before.
RegisterFirst(s, held) ==
  \A k \in 1..Len(s) : s[k].op \in Changing /\ s[k].user \in held =>
    \E j \in 1..k - 1 : Registration(s[j]) /\ s[j].user = s[k].user

\* After a registration stands the unregistration, unless it is kept for the
\* end of the loop.
UnregisterAfter(s, kept) ==
  \A k \in 1..Len(s) : Registration(s[k]) =>
    kept \/ \E j \in k + 1..Len(s) : s[j].op = "unregister" /\ s[j].user = s[k].user

\* A search goes on to the end of the loop, which comes last.
Searching(x) == x.want = "search" \/ x.op = "loop"
LoopLast(s) == \A k \in 1..Len(s) : s[k].op = "loop" => k = Len(s)
SearchLast(s) ==
  \A k \in 1..Len(s) : s[k].want = "search" =>
    /\ s[Len(s)].op = "loop"
    /\ \A j \in k..Len(s) : Searching(s[j])

HasLoop(s) == \E k \in 1..Len(s) : s[k].op = "loop"

WellMade(s, held) ==
  s \in Seq(Items) /\ RegisterFirst(s, held) /\ LoopLast(s) /\ SearchLast(s)

Keeps == test \in KeepingTests /\ HasLoop(todo)

(* The invariant.                                                           *)

TestTypeOK ==
  /\ queue \in Seq(TestNames) /\ others \subseteq Users
  /\ mine \subseteq (Users \cup {BadUser}) \ others /\ before \in Nat
  /\ HasLoop(todo) => test \in SearchTests

\* The call under way is the first item's.
Asked ==
  pc # "idle" =>
    todo # << >> /\ op = Head(todo).op /\ user = Head(todo).user /\ pwd = Head(todo).pwd

\* The users registered before stay registered, and are not registered again.
Stand == \A u \in others : lcs[u]["df"] = "use"
NotAgain ==
  pc # "idle" /\ op = "register" /\ user \in others =>
    pc \in {"select aid", "check df"} \/ (pc = "returned" /\ ret # "OK")

\* A list operation has found the user whose files it lists.
ListsKnown == pc = "list first" /\ op = "list_files" => lcs[user]["df"] # "none"

\* A user a test has registered, or begun to, will be unregistered.
Dirty(u) == u \in Users \ others /\ (lcs[u] # NoFiles \/ pin[u] # None)
Drops(s, u) == \E k \in 1..Len(s) : s[k].op = "unregister" /\ s[k].user = u
WillGo(u) ==
  \/ Drops(todo, u)
  \/ Keeps /\ u \in mine
  \/ Keeps /\ pc # "idle" /\ Registration(Head(todo)) /\ user = u
TracesGo == failed = {} /\ ~ dead => \A u \in Users : Dirty(u) => WillGo(u)

TestInv ==
  /\ TestTypeOK /\ WellMade(todo, others) /\ UnregisterAfter(todo, Keeps)
  /\ Asked /\ Stand /\ NotAgain /\ ListsKnown /\ TracesGo /\ DiesOnlyWhenEmpty

-----------------------------------------------------------------------------
(* Lists of items.                                                          *)

\* Items that are neither of a search nor its end, those of them that concern
\* no user's files but u's, and those that change nothing.
PlainItems == {x \in Items : x.op # "loop" /\ x.want # "search"}
Acts(u) == {x \in PlainItems : x.op \in Changing \cup {"register"} => x.user = u}
Asks == {x \in PlainItems : x.op \notin Changing \cup {"register"}}

\* A set in the order of a loop has every element in it.
LEMMA SetToSeqIs ==
  ASSUME NEW S, IsFiniteSet(S)
  PROVE  /\ SetToSeq(S) \in Seq(S) /\ Len(SetToSeq(S)) = Cardinality(S)
         /\ DOMAIN SetToSeq(S) = 1..Cardinality(S) /\ Cardinality(S) \in Nat
         /\ \A k \in 1..Cardinality(S) : SetToSeq(S)[k] \in S
         /\ \A x \in S : \E k \in 1..Cardinality(S) : SetToSeq(S)[k] = x
<1>. DEFINE n == Cardinality(S)
            s == SetToSeq(S)
<1>1. n \in Nat /\ ExistsBijection(1..n, S)
  BY FS_CardinalityType
<1>2. \E f \in [1..n -> S] : IsInjective(f)
  BY <1>1 DEF ExistsBijection, Bijection, Injection
<1>3. s \in [1..n -> S] /\ IsInjective(s)
  BY <1>2 DEF SetToSeq
<1>4. IsFiniteSet(1..n) /\ Cardinality(1..n) = n
  <2>1. 1 \in Int /\ n \in Int
    BY <1>1
  <2>2. IsFiniteSet(1..n) /\ Cardinality(1..n) = IF 1 > n THEN 0 ELSE n - 1 + 1
    BY <2>1, FS_Interval
  <2>. QED
    BY <1>1, <2>2
<1>5. s \in Injection(1..n, S)
  BY <1>3 DEF Injection
<1>6. s \in Surjection(1..n, S)
  BY <1>4, <1>5, FS_Injection
<1>7. \A x \in S : \E k \in 1..n : s[k] = x
  BY <1>6 DEF Surjection
<1>. HIDE DEF s
<1>8. s \in Seq(S) /\ Len(s) = n /\ DOMAIN s = 1..n
  BY <1>1, <1>3
<1>. QED
  BY <1>1, <1>3, <1>7, <1>8 DEF s

\* One list after the other.
LEMMA ConcatIs ==
  ASSUME NEW S, NEW a \in Seq(S), NEW b \in Seq(S)
  PROVE  /\ a \o b \in Seq(S) /\ Len(a \o b) = Len(a) + Len(b)
         /\ Len(a) \in Nat /\ Len(b) \in Nat
         /\ \A k \in 1..Len(a) : k \in 1..Len(a \o b) /\ (a \o b)[k] = a[k]
         /\ \A k \in 1..Len(b) :
              Len(a) + k \in 1..Len(a \o b) /\ (a \o b)[Len(a) + k] = b[k]
         /\ \A k \in 1..Len(a \o b) :
              k \in 1..Len(a) \/ (k > Len(a) /\ k - Len(a) \in 1..Len(b))
<1>1. a \o b \in Seq(S) /\ Len(a \o b) = Len(a) + Len(b)
  BY ConcatProperties
<1>2. \A k \in 1..Len(a) + Len(b) :
        (a \o b)[k] = IF k <= Len(a) THEN a[k] ELSE b[k - Len(a)]
  BY ConcatProperties
<1>3. Len(a) \in Nat /\ Len(b) \in Nat
  OBVIOUS
<1>4. ASSUME NEW k \in 1..Len(a) PROVE k \in 1..Len(a \o b) /\ (a \o b)[k] = a[k]
  <2>1. k \in 1..Len(a) + Len(b) /\ k <= Len(a)
    BY <1>3
  <2>. QED
    BY <1>1, <1>2, <2>1
<1>5. ASSUME NEW k \in 1..Len(b)
      PROVE  Len(a) + k \in 1..Len(a \o b) /\ (a \o b)[Len(a) + k] = b[k]
  <2>1. Len(a) + k \in 1..Len(a) + Len(b) /\ ~ Len(a) + k <= Len(a) /\ Len(a) + k - Len(a) = k
    BY <1>3
  <2>. QED
    BY <1>1, <1>2, <2>1
<1>6. ASSUME NEW k \in 1..Len(a \o b)
      PROVE  k \in 1..Len(a) \/ (k > Len(a) /\ k - Len(a) \in 1..Len(b))
  BY <1>1, <1>3
<1>. QED
  BY <1>1, <1>3, <1>4, <1>5, <1>6

\* Two lists with each registration before the changes make a list that has.
LEMMA RegisterConcat ==
  ASSUME NEW held, NEW a \in Seq(Items), NEW b \in Seq(Items),
         RegisterFirst(a, held), RegisterFirst(b, held)
  PROVE  RegisterFirst(a \o b, held)
<1>. DEFINE c == a \o b
            n == Len(a)
<1>0. n \in Nat /\ Len(b) \in Nat
  OBVIOUS
<1>1. \A k \in 1..n : k \in 1..Len(c) /\ c[k] = a[k]
  BY ConcatIs
<1>2. \A k \in 1..Len(b) : n + k \in 1..Len(c) /\ c[n + k] = b[k]
  BY ConcatIs
<1>3. \A k \in 1..Len(c) : k \in 1..n \/ (k > n /\ k - n \in 1..Len(b))
  BY ConcatIs
<1>. HIDE DEF c, n
<1>4. SUFFICES ASSUME NEW k \in 1..Len(c), c[k].op \in Changing, c[k].user \in held
               PROVE  \E j \in 1..k - 1 : Registration(c[j]) /\ c[j].user = c[k].user
  BY DEF RegisterFirst, c
<1>5. CASE k \in 1..n
  <2>1. c[k] = a[k]
    BY <1>1, <1>5
  <2>2. PICK j \in 1..k - 1 : Registration(a[j]) /\ a[j].user = a[k].user
    BY <1>4, <1>5, <2>1 DEF RegisterFirst, n
  <2>3. j \in 1..n
    BY <1>0, <1>5
  <2>. QED
    BY <1>1, <2>1, <2>2, <2>3
<1>6. CASE k > n /\ k - n \in 1..Len(b)
  <2>. DEFINE m == k - n
  <2>0. k = n + m /\ m \in 1..Len(b)
    BY <1>0, <1>6
  <2>. HIDE DEF m
  <2>1. c[k] = b[m]
    BY <1>2, <2>0
  <2>2. PICK j \in 1..m - 1 : Registration(b[j]) /\ b[j].user = b[m].user
    BY <1>4, <2>0, <2>1 DEF RegisterFirst
  <2>3. j \in 1..Len(b) /\ n + j \in 1..k - 1
    BY <1>0, <2>0
  <2>4. c[n + j] = b[j]
    BY <1>2, <2>3
  <2>. QED
    BY <2>1, <2>2, <2>3, <2>4
<1>. QED
  BY <1>3, <1>5, <1>6

\* Two lists with each registration undone make a list that has.
LEMMA UnregisterConcat ==
  ASSUME NEW kept \in BOOLEAN, NEW a \in Seq(Items), NEW b \in Seq(Items),
         UnregisterAfter(a, kept), UnregisterAfter(b, kept)
  PROVE  UnregisterAfter(a \o b, kept)
<1>. DEFINE c == a \o b
            n == Len(a)
<1>0. n \in Nat /\ Len(b) \in Nat /\ Len(c) = n + Len(b)
  BY ConcatIs
<1>1. \A k \in 1..n : k \in 1..Len(c) /\ c[k] = a[k]
  BY ConcatIs
<1>2. \A k \in 1..Len(b) : n + k \in 1..Len(c) /\ c[n + k] = b[k]
  BY ConcatIs
<1>3. \A k \in 1..Len(c) : k \in 1..n \/ (k > n /\ k - n \in 1..Len(b))
  BY ConcatIs
<1>. HIDE DEF c, n
<1>4. SUFFICES ASSUME NEW k \in 1..Len(c), Registration(c[k]), ~ kept
               PROVE  \E j \in k + 1..Len(c) : c[j].op = "unregister" /\ c[j].user = c[k].user
  BY DEF UnregisterAfter, c
<1>5. CASE k \in 1..n
  <2>1. c[k] = a[k]
    BY <1>1, <1>5
  <2>2. PICK j \in k + 1..n : a[j].op = "unregister" /\ a[j].user = a[k].user
    BY <1>4, <1>5, <2>1 DEF UnregisterAfter, n
  <2>3. j \in 1..n /\ j \in k + 1..Len(c)
    BY <1>0, <1>5
  <2>. QED
    BY <1>1, <2>1, <2>2, <2>3
<1>6. CASE k > n /\ k - n \in 1..Len(b)
  <2>. DEFINE m == k - n
  <2>0. k = n + m /\ m \in 1..Len(b)
    BY <1>0, <1>6
  <2>. HIDE DEF m
  <2>1. c[k] = b[m]
    BY <1>2, <2>0
  <2>2. PICK j \in m + 1..Len(b) : b[j].op = "unregister" /\ b[j].user = b[m].user
    BY <1>4, <2>0, <2>1 DEF UnregisterAfter
  <2>3. j \in 1..Len(b) /\ n + j \in k + 1..Len(c)
    BY <1>0, <2>0
  <2>4. c[n + j] = b[j]
    BY <1>2, <2>3
  <2>. QED
    BY <2>1, <2>2, <2>3, <2>4
<1>. QED
  BY <1>3, <1>5, <1>6

\* A search after items that are not of one is still a search.
LEMMA SearchConcat ==
  ASSUME NEW a \in Seq(PlainItems), NEW b \in Seq(Items), LoopLast(b), SearchLast(b)
  PROVE  /\ LoopLast(a \o b) /\ SearchLast(a \o b)
         /\ HasLoop(a \o b) <=> HasLoop(b)
<1>. DEFINE c == a \o b
            n == Len(a)
<1>a. a \in Seq(Items)
  BY SeqMonotonic DEF PlainItems
<1>0. n \in Nat /\ Len(b) \in Nat /\ Len(c) = n + Len(b)
  BY <1>a, ConcatIs
<1>1. \A k \in 1..n : c[k].op # "loop" /\ c[k].want # "search"
  <2>1. \A k \in 1..n : a[k] \in PlainItems
    BY ElementOfSeq
  <2>2. \A k \in 1..n : c[k] = a[k]
    BY <1>a, ConcatIs
  <2>. QED
    BY <2>1, <2>2 DEF PlainItems
<1>2. \A k \in 1..Len(b) : n + k \in 1..Len(c) /\ c[n + k] = b[k]
  BY <1>a, ConcatIs
<1>3. \A k \in 1..Len(c) : k \in 1..n \/ \E m \in 1..Len(b) : k = n + m
  BY <1>0
<1>. HIDE DEF c, n
<1>4. ASSUME NEW k \in 1..Len(c), c[k].op = "loop" PROVE k = Len(c)
  <2>1. PICK m \in 1..Len(b) : k = n + m
    BY <1>1, <1>3, <1>4
  <2>2. m = Len(b)
    BY <1>2, <1>4, <2>1 DEF LoopLast
  <2>. QED
    BY <1>0, <2>1, <2>2
<1>5. ASSUME NEW k \in 1..Len(c), c[k].want = "search"
      PROVE  /\ c[Len(c)].op = "loop"
             /\ \A j \in k..Len(c) : Searching(c[j])
  <2>1. PICK m \in 1..Len(b) : k = n + m
    BY <1>1, <1>3, <1>5
  <2>2. /\ b[Len(b)].op = "loop"
        /\ \A j \in m..Len(b) : Searching(b[j])
    BY <1>2, <1>5, <2>1 DEF SearchLast
  <2>3. Len(b) \in 1..Len(b) /\ c[Len(c)] = b[Len(b)]
    <3>1. Len(b) \in 1..Len(b)
      BY <1>0
    <3>. QED
      BY <1>0, <1>2, <3>1
  <2>4. ASSUME NEW j \in k..Len(c) PROVE Searching(c[j])
    <3>1. j - n \in m..Len(b) /\ j - n \in 1..Len(b) /\ j = n + (j - n)
      BY <1>0, <2>1
    <3>. QED
      BY <1>2, <2>2, <3>1
  <2>. QED
    BY <2>2, <2>3, <2>4
<1>6. HasLoop(c) <=> HasLoop(b)
  <2>1. ASSUME HasLoop(c) PROVE HasLoop(b)
    <3>1. PICK k \in 1..Len(c) : c[k].op = "loop"
      BY <2>1 DEF HasLoop
    <3>2. PICK m \in 1..Len(b) : k = n + m
      BY <1>1, <1>3, <3>1
    <3>. QED
      BY <1>2, <3>1, <3>2 DEF HasLoop
  <2>2. ASSUME HasLoop(b) PROVE HasLoop(c)
    <3>1. PICK m \in 1..Len(b) : b[m].op = "loop"
      BY <2>2 DEF HasLoop
    <3>. QED
      BY <1>2, <3>1 DEF HasLoop
  <2>. QED
    BY <2>1, <2>2
<1>7. LoopLast(c)
  BY <1>4 DEF LoopLast
<1>8. SearchLast(c)
  BY <1>5 DEF SearchLast
<1>. QED
  BY <1>6, <1>7, <1>8 DEF c

\* A list without its first item.
LEMMA TailIs ==
  ASSUME NEW s \in Seq(Items), s # << >>
  PROVE  /\ Tail(s) \in Seq(Items) /\ Len(s) \in Nat \ {0} /\ Len(Tail(s)) = Len(s) - 1
         /\ Head(s) = s[1] /\ Head(s) \in Items
         /\ \A k \in 1..Len(Tail(s)) : k + 1 \in 1..Len(s) /\ Tail(s)[k] = s[k + 1]
         /\ \A k \in 2..Len(s) : k - 1 \in 1..Len(Tail(s)) /\ s[k] = Tail(s)[k - 1]
<1>1. Tail(s) \in Seq(Items) /\ Len(Tail(s)) = Len(s) - 1 /\ Head(s) \in Items
  BY HeadTailProperties
<1>2. \A k \in 1..Len(Tail(s)) : Tail(s)[k] = s[k + 1]
  BY HeadTailProperties
<1>3. Len(s) \in Nat \ {0} /\ Head(s) = s[1]
  BY EmptySeq
<1>4. ASSUME NEW k \in 1..Len(Tail(s)) PROVE k + 1 \in 1..Len(s)
  BY <1>1, <1>3
<1>5. ASSUME NEW k \in 2..Len(s) PROVE k - 1 \in 1..Len(Tail(s)) /\ s[k] = Tail(s)[k - 1]
  <2>1. k - 1 \in 1..Len(Tail(s)) /\ k - 1 + 1 = k
    BY <1>1, <1>3
  <2>. QED
    BY <1>2, <2>1
<1>. QED
  BY <1>1, <1>2, <1>3, <1>4, <1>5

\* What follows an item is as well made, unless the item has registered a user
\* who had been registered before.
LEMMA TailWellMade ==
  ASSUME NEW held, NEW s, s # << >>, WellMade(s, held),
         ~ (Registration(Head(s)) /\ Head(s).user \in held)
  PROVE  WellMade(Tail(s), held)
<1>. DEFINE t == Tail(s)
<1>0. s \in Seq(Items)
  BY DEF WellMade
<1>1. t \in Seq(Items) /\ Len(s) \in Nat \ {0} /\ Len(t) = Len(s) - 1 /\ Head(s) = s[1]
  BY <1>0, TailIs
<1>2. \A k \in 1..Len(t) : k + 1 \in 1..Len(s) /\ t[k] = s[k + 1]
  BY <1>0, TailIs
<1>. HIDE DEF t
<1>3. ASSUME NEW k \in 1..Len(t), t[k].op \in Changing, t[k].user \in held
      PROVE  \E j \in 1..k - 1 : Registration(t[j]) /\ t[j].user = t[k].user
  <2>1. PICK j \in 1..k : Registration(s[j]) /\ s[j].user = t[k].user
    <3>1. k + 1 \in 1..Len(s) /\ t[k] = s[k + 1] /\ k + 1 - 1 = k
      BY <1>1, <1>2
    <3>. QED
      BY <1>3, <3>1 DEF WellMade, RegisterFirst
  <2>2. j # 1
    BY <1>1, <1>3, <2>1
  <2>3. j - 1 \in 1..k - 1 /\ j - 1 \in 1..Len(t) /\ j - 1 + 1 = j
    BY <1>1, <2>2
  <2>. QED
    BY <1>2, <2>1, <2>3
<1>4. ASSUME NEW k \in 1..Len(t), t[k].op = "loop" PROVE k = Len(t)
  <2>1. k + 1 = Len(s)
    BY <1>2, <1>4 DEF WellMade, LoopLast
  <2>. QED
    BY <1>1, <2>1
<1>5. ASSUME NEW k \in 1..Len(t), t[k].want = "search"
      PROVE  /\ t[Len(t)].op = "loop"
             /\ \A j \in k..Len(t) : Searching(t[j])
  <2>1. k + 1 \in 1..Len(s) /\ s[k + 1].want = "search"
    BY <1>2, <1>5
  <2>2. s[Len(s)].op = "loop"
    BY <2>1 DEF WellMade, SearchLast
  <2>3. \A j \in k + 1..Len(s) : Searching(s[j])
    BY <2>1 DEF WellMade, SearchLast
  <2>4. Len(t) \in 1..Len(t) /\ Len(t) + 1 = Len(s)
    BY <1>1
  <2>5. ASSUME NEW j \in k..Len(t) PROVE Searching(t[j])
    <3>1. j \in 1..Len(t) /\ j + 1 \in k + 1..Len(s)
      BY <1>1
    <3>. QED
      BY <1>2, <2>3, <3>1
  <2>. QED
    BY <1>2, <2>2, <2>4, <2>5
<1>6. RegisterFirst(t, held)
  BY <1>3 DEF RegisterFirst
<1>7. LoopLast(t)
  BY <1>4 DEF LoopLast
<1>8. SearchLast(t)
  BY <1>5 DEF SearchLast
<1>. QED
  BY <1>1, <1>6, <1>7, <1>8 DEF WellMade, t

\* What follows an item other than the end of a search.
LEMMA TailKeeps ==
  ASSUME NEW s \in Seq(Items), s # << >>, NEW kept \in BOOLEAN
  PROVE  /\ UnregisterAfter(s, kept) => UnregisterAfter(Tail(s), kept)
         /\ HasLoop(Tail(s)) => HasLoop(s)
         /\ Head(s).op # "loop" /\ HasLoop(s) => HasLoop(Tail(s))
<1>. DEFINE t == Tail(s)
<1>1. t \in Seq(Items) /\ Len(s) \in Nat \ {0} /\ Len(t) = Len(s) - 1 /\ Head(s) = s[1]
  BY TailIs
<1>2. \A k \in 1..Len(t) : k + 1 \in 1..Len(s) /\ t[k] = s[k + 1]
  BY TailIs
<1>3. \A k \in 2..Len(s) : k - 1 \in 1..Len(t) /\ s[k] = t[k - 1]
  BY TailIs
<1>. HIDE DEF t
<1>4. ASSUME UnregisterAfter(s, kept), NEW k \in 1..Len(t), Registration(t[k]), ~ kept
      PROVE  \E j \in k + 1..Len(t) : t[j].op = "unregister" /\ t[j].user = t[k].user
  <2>1. k + 1 \in 1..Len(s) /\ Registration(s[k + 1]) /\ s[k + 1] = t[k]
    BY <1>2, <1>4
  <2>2. PICK j \in k + 1 + 1..Len(s) : s[j].op = "unregister" /\ s[j].user = s[k + 1].user
    BY <1>4, <2>1 DEF UnregisterAfter
  <2>3. j \in 2..Len(s) /\ j - 1 \in k + 1..Len(t)
    BY <1>1, <2>1
  <2>4. s[j] = t[j - 1]
    BY <1>3, <2>3
  <2>. QED
    BY <2>1, <2>2, <2>3, <2>4
<1>5. ASSUME HasLoop(t) PROVE HasLoop(s)
  <2>1. PICK k \in 1..Len(t) : t[k].op = "loop"
    BY <1>5 DEF HasLoop
  <2>. QED
    BY <1>2, <2>1 DEF HasLoop
<1>6. ASSUME Head(s).op # "loop", HasLoop(s) PROVE HasLoop(t)
  <2>1. PICK k \in 1..Len(s) : s[k].op = "loop"
    BY <1>6 DEF HasLoop
  <2>2. k \in 2..Len(s)
    <3>1. k # 1
      BY <1>1, <1>6, <2>1
    <3>. QED
      BY <1>1, <3>1
  <2>. QED
    BY <1>3, <2>1, <2>2 DEF HasLoop
<1>7. UnregisterAfter(s, kept) => UnregisterAfter(t, kept)
  BY <1>4 DEF UnregisterAfter
<1>. QED
  BY <1>5, <1>6, <1>7 DEF t

\* Items that only ask keep every promise.
LEMMA AsksOnly ==
  ASSUME NEW held, NEW kept \in BOOLEAN, NEW s \in Seq(Asks)
  PROVE  s \in Seq(PlainItems) /\ s \in Seq(Items) /\ RegisterFirst(s, held) /\ UnregisterAfter(s, kept)
<1>1. \A k \in 1..Len(s) : s[k] \in Asks
  BY ElementOfSeq
<1>2. \A k \in 1..Len(s) : s[k].op \notin Changing /\ ~ Registration(s[k])
  BY <1>1 DEF Asks, Registration
<1>3. RegisterFirst(s, held)
  BY <1>2 DEF RegisterFirst
<1>4. UnregisterAfter(s, kept)
  BY <1>2 DEF UnregisterAfter
<1>5. Asks \subseteq PlainItems /\ Asks \subseteq Items
  BY DEF Asks, PlainItems
<1>. QED
  BY <1>3, <1>4, <1>5, SeqMonotonic

\* Items of one user, the first that matters a registration.
LEMMA Opens ==
  ASSUME NEW held, NEW u, NEW s \in Seq(Acts(u)), NEW m \in 1..Len(s),
         Registration(s[m]), \A k \in 1..m : s[k].op \notin Changing
  PROVE  RegisterFirst(s, held)
<1>0. Len(s) \in Nat
  OBVIOUS
<1>1. \A k \in 1..Len(s) : s[k] \in Acts(u)
  BY ElementOfSeq
<1>2. s[m].user = u
  BY <1>1 DEF Acts, Registration
<1>3. ASSUME NEW k \in 1..Len(s), s[k].op \in Changing
      PROVE  s[k].user = u /\ m \in 1..k - 1
  <2>1. s[k].user = u
    BY <1>1, <1>3 DEF Acts
  <2>2. ~ k \in 1..m
    BY <1>3
  <2>. QED
    BY <1>0, <2>1, <2>2
<1>. QED
  BY <1>2, <1>3 DEF RegisterFirst

\* Items of one user, the last that matters the unregistration.
LEMMA Closes ==
  ASSUME NEW kept \in BOOLEAN, NEW u, NEW s \in Seq(Acts(u)), NEW m \in 1..Len(s),
         s[m].op = "unregister", \A k \in m..Len(s) : s[k].op # "register"
  PROVE  UnregisterAfter(s, kept)
<1>0. Len(s) \in Nat
  OBVIOUS
<1>1. \A k \in 1..Len(s) : s[k] \in Acts(u)
  BY ElementOfSeq
<1>2. s[m].user = u
  BY <1>1 DEF Acts, Changing
<1>3. ASSUME NEW k \in 1..Len(s), Registration(s[k])
      PROVE  s[k].user = u /\ m \in k + 1..Len(s)
  <2>1. s[k].user = u
    BY <1>1, <1>3 DEF Acts, Registration
  <2>2. ~ k \in m..Len(s)
    BY <1>3 DEF Registration
  <2>. QED
    BY <1>0, <2>1, <2>2
<1>. QED
  BY <1>2, <1>3 DEF UnregisterAfter

-----------------------------------------------------------------------------
(* What the tests do.                                                       *)

UserArgs == Users \cup {BadUser}

\* Each item is one of a test's.
LEMMA ItemsAre ==
  ASSUME NEW u \in UserArgs
  PROVE  /\ Local("open") \in Asks /\ Local("close") \in Asks
         /\ Local("loop") \in Items /\ Local("loop").op = "loop"
         /\ Local("loop").want = "ok"
         /\ \A want \in {"first", "each", "count"}, n \in Nat : Count(want, n) \in Asks
         /\ \A want \in {"ok", "error", "registered", "not registered"} :
              IsRegistered(u, want) \in Asks
         /\ IsRegistered(u, "search") \in Items
         /\ \A p \in Passwords : Register(u, p, "ok") \in Acts(u)
         /\ Register(u, BadPassword, "error") \in Acts(u)
         /\ \A p \in Passwords : Unregister(u, p) \in Acts(u)
         /\ \A o \in FileOps, f \in Files \cup {BadFile}, want \in {"ok", "data", "error"} :
              OnFile(o, u, f, want) \in Acts(u)
         /\ \A want \in {"all files", "no files"} : ListOf(u, want) \in Asks
<1>. USE TestAssumption DEF Item, Items, PlainItems, Asks, Acts, UserArgs, Wants, Changing, Ops
<1>1. Local("open") \in Asks /\ Local("close") \in Asks
  BY DEF Local
<1>2. Local("loop") \in Items /\ Local("loop").op = "loop" /\ Local("loop").want = "ok"
  BY DEF Local
<1>3. \A want \in {"first", "each", "count"}, n \in Nat : Count(want, n) \in Asks
  BY DEF Count
<1>4. \A want \in {"ok", "error", "registered", "not registered"} :
        IsRegistered(u, want) \in Asks
  BY DEF IsRegistered
<1>5. IsRegistered(u, "search") \in Items
  BY DEF IsRegistered
<1>6. \A p \in Passwords : Register(u, p, "ok") \in Acts(u)
  BY DEF Register
<1>7. Register(u, BadPassword, "error") \in Acts(u)
  BY DEF Register
<1>8. \A p \in Passwords : Unregister(u, p) \in Acts(u)
  BY DEF Unregister
<1>9. \A o \in FileOps, f \in Files \cup {BadFile}, want \in {"ok", "data", "error"} :
        OnFile(o, u, f, want) \in Acts(u)
  BY DEF OnFile, FileOps
<1>10. \A want \in {"all files", "no files"} : ListOf(u, want) \in Asks
  BY DEF ListOf
<1>. QED
  BY <1>1, <1>2, <1>3, <1>4, <1>5, <1>6, <1>7, <1>8, <1>9, <1>10

\* Items that only ask are anybody's.
LEMMA AsksAreActs == \A u : Asks \subseteq Acts(u) /\ Acts(u) \subseteq PlainItems
BY DEF Asks, Acts

\* The arithmetic of the turns of a loop.
LEMMA TurnBounds ==
  ASSUME NEW n \in {2, 4}, NEW l \in Nat, NEW k \in 1..n * l
  PROVE  ((k - 1) \div n) + 1 \in 1..l /\ ((k - 1) % n) + 1 \in 1..n
<1>1. CASE n = 2
  BY <1>1
<1>2. CASE n = 4
  BY <1>2
<1>. QED
  BY <1>1, <1>2

\* The items of the turns of a loop are what is done in one of them.
LEMMA InTurnIs ==
  ASSUME NEW S, NEW n \in {2, 4}, NEW turns, Len(turns) \in Nat,
         \A a \in 1..Len(turns), b \in 1..n : turns[a][b] \in S
  PROVE  InTurn(turns, n) \in Seq(S) /\ Len(InTurn(turns, n)) = n * Len(turns)
<1>. DEFINE l == Len(turns)
            s == InTurn(turns, n)
            item(k) == turns[((k - 1) \div n) + 1][((k - 1) % n) + 1]
<1>1. n * l \in Nat
  <2>1. CASE n = 2
    BY <2>1
  <2>2. CASE n = 4
    BY <2>2
  <2>. QED
    BY <2>1, <2>2
<1>2. ASSUME NEW k \in 1..n * l PROVE item(k) \in S
  <2>1. ((k - 1) \div n) + 1 \in 1..l /\ ((k - 1) % n) + 1 \in 1..n
    BY TurnBounds
  <2>. QED
    BY <2>1
<1>3. s = [k \in 1..n * l |-> item(k)]
  BY DEF InTurn
<1>. HIDE DEF item, l, s
<1>4. s \in Seq(S)
  BY <1>1, <1>2, <1>3, IsASeq
<1>5. Len(s) = n * l
  BY <1>1, <1>3
<1>. QED
  BY <1>4, <1>5 DEF s, l

\* A list of one item.
LEMMA OneItem ==
  ASSUME NEW S, NEW x \in S
  PROVE  <<x>> \in Seq(S) /\ Len(<<x>>) = 1 /\ <<x>>[1] = x
OBVIOUS

\* A list of two.
LEMMA TwoItems ==
  ASSUME NEW S, NEW x \in S, NEW y \in S
  PROVE  <<x>> \o <<y>> = <<x, y>>
<1>1. <<x>> \in Seq(S) /\ Len(<<x>>) = 1 /\ <<x>>[1] = x
      /\ <<y>> \in Seq(S) /\ Len(<<y>>) = 1 /\ <<y>>[1] = y
  BY OneItem
<1>. DEFINE c == <<x>> \o <<y>>
<1>2. c \in Seq(S) /\ Len(c) = 2
  BY <1>1, ConcatProperties
<1>3. c[1] = x /\ c[2] = y
  BY <1>1, ConcatProperties
<1>4. <<x, y>> \in Seq(S) /\ Len(<<x, y>>) = 2 /\ <<x, y>>[1] = x /\ <<x, y>>[2] = y
  OBVIOUS
<1>. HIDE DEF c
<1>5. \A k \in 1..Len(c) : c[k] = <<x, y>>[k]
  BY <1>2, <1>3, <1>4
<1>6. c = <<x, y>>
  BY <1>2, <1>4, <1>5, SeqEqual
<1>. QED
  BY <1>6 DEF c

\* What is appended leaves the first item the first.
LEMMA FirstStays ==
  ASSUME NEW S, NEW a \in Seq(S), NEW b \in Seq(S), 0 < Len(a)
  PROVE  a \o b \in Seq(S) /\ 0 < Len(a \o b) /\ (a \o b)[1] = a[1]
<1>1. a \o b \in Seq(S) /\ Len(a \o b) = Len(a) + Len(b) /\ Len(a) \in Nat /\ Len(b) \in Nat
  BY ConcatIs
<1>2. 1 \in 1..Len(a) /\ 0 < Len(a) + Len(b)
  BY <1>1
<1>. QED
  BY <1>1, <1>2, ConcatIs

\* The lists over the files of a user.
LEMMA FilesOfTests ==
  ASSUME NEW u \in UserArgs
  PROVE  FillFiles(u) \in Seq(Acts(u)) /\ EmptyFiles(u) \in Seq(Acts(u))
<1>. DEFINE n == Cardinality(Files)
<1>1. /\ n \in Nat /\ DOMAIN FileIds = 1..n
      /\ \A k \in 1..n : FileIds[k] \in Files
  BY ElementAssumption, SetToSeqIs DEF FileIds
<1>. HIDE DEF n
<1>2. ASSUME NEW o \in FileOps, NEW want \in {"ok", "data"}
      PROVE  OnFiles(o, u, want) \in Seq(Acts(u))
  <2>1. \A k \in 1..n : OnFile(o, u, FileIds[k], want) \in Acts(u)
    BY <1>1, ItemsAre
  <2>2. OnFiles(o, u, want) = [k \in 1..n |-> OnFile(o, u, FileIds[k], want)]
    BY <1>1 DEF OnFiles
  <2>. QED
    BY <1>1, <2>1, <2>2
<1>3. ListOf(u, "all files") \in Acts(u) /\ ListOf(u, "no files") \in Acts(u)
  BY ItemsAre, AsksAreActs
<1>4. /\ OnFiles("create_bf", u, "ok") \in Seq(Acts(u))
      /\ OnFiles("read_bf", u, "data") \in Seq(Acts(u))
      /\ OnFiles("delete_bf", u, "ok") \in Seq(Acts(u))
  BY <1>2 DEF FileOps
<1>5. <<ListOf(u, "all files")>> \in Seq(Acts(u)) /\ <<ListOf(u, "no files")>> \in Seq(Acts(u))
  BY <1>3, OneItem
<1>. QED
  BY <1>4, <1>5, ConcatIs DEF FillFiles, EmptyFiles

\* A list for one user that begins with the registration.
LEMMA BeginsWell ==
  ASSUME NEW held, NEW u \in UserArgs, NEW s \in Seq(Acts(u)), 0 < Len(s), Registration(s[1])
  PROVE  RegisterFirst(s, held)
<1>1. 1 \in 1..Len(s) /\ \A k \in 1..1 : s[k].op \notin Changing
  BY DEF Registration, Changing
<1>. QED
  BY <1>1, Opens

\* A list for one user that ends with the unregistration, before items that
\* only ask.
LEMMA EndsWell ==
  ASSUME NEW kept \in BOOLEAN, NEW u \in UserArgs, NEW a \in Seq(Acts(u)), NEW p \in Passwords,
         NEW z \in Seq(Asks)
  PROVE  UnregisterAfter((a \o <<Unregister(u, p)>>) \o z, kept)
<1>. DEFINE x == Unregister(u, p)
            n == Len(a)
            s == a \o <<x>>
<1>1. x \in Acts(u) /\ x.op = "unregister"
  BY ItemsAre DEF Unregister, Item
<1>2. <<x>> \in Seq(Acts(u)) /\ Len(<<x>>) = 1 /\ <<x>>[1] = x
  BY <1>1, OneItem
<1>. HIDE DEF x
<1>3. s \in Seq(Acts(u)) /\ Len(s) = n + 1 /\ n \in Nat
  BY <1>2, ConcatIs
<1>4. s[n + 1] = x
  <2>1. 1 \in 1..Len(<<x>>)
    BY <1>2
  <2>. QED
    BY <1>2, <2>1, ConcatIs
<1>. HIDE DEF s, n
<1>5. n + 1 \in 1..Len(s) /\ \A k \in n + 1..Len(s) : k = n + 1
  BY <1>3
<1>6. UnregisterAfter(s, kept)
  <2>1. \A k \in n + 1..Len(s) : s[k].op # "register"
    BY <1>1, <1>4, <1>5
  <2>. QED
    BY <1>1, <1>3, <1>4, <1>5, <2>1, Closes
<1>7. UnregisterAfter(z, kept) /\ z \in Seq(Items)
  BY AsksOnly
<1>8. s \in Seq(Items)
  BY <1>3, SeqMonotonic DEF Acts, PlainItems
<1>. QED
  BY <1>6, <1>7, <1>8, UnregisterConcat DEF s, x

\* The registration of a user with the password of the tests.
LEMMA FirstItem ==
  ASSUME NEW u \in UserArgs, NEW p \in Passwords
  PROVE  LET s == <<Register(u, p, "ok")>> IN
           s \in Seq(Acts(u)) /\ 0 < Len(s) /\ Registration(s[1])
<1>1. Register(u, p, "ok") \in Acts(u)
  BY ItemsAre
<1>2. Registration(Register(u, p, "ok"))
  BY DEF Registration, Register, Item
<1>. QED
  BY <1>1, <1>2, OneItem

\* create_delete_file_test_1 and _2.
LEMMA CreateDeleteIs ==
  ASSUME NEW held, NEW kept \in BOOLEAN, NEW u \in UserArgs, NEW z \in Seq(Asks)
  PROVE  LET s == create_delete_file_test_1(u) \o z IN
           /\ create_delete_file_test_1(u) \in Seq(Acts(u))
           /\ s \in Seq(Acts(u)) /\ RegisterFirst(s, held) /\ UnregisterAfter(s, kept)
<1>. DEFINE a == <<Register(u, Password, "ok")>>
            b == (a \o FillFiles(u)) \o EmptyFiles(u)
            e == <<Unregister(u, Password)>>
<1>1. a \in Seq(Acts(u)) /\ 0 < Len(a) /\ Registration(a[1])
  BY FirstItem, TestAssumption
<1>2. FillFiles(u) \in Seq(Acts(u)) /\ EmptyFiles(u) \in Seq(Acts(u))
  BY FilesOfTests
<1>3. e \in Seq(Acts(u)) /\ z \in Seq(Acts(u))
  <2>1. Unregister(u, Password) \in Acts(u)
    BY ItemsAre, TestAssumption
  <2>. QED
    BY <2>1, OneItem, AsksAreActs, SeqMonotonic
<1>. HIDE DEF a, e
<1>4. a \o FillFiles(u) \in Seq(Acts(u)) /\ 0 < Len(a \o FillFiles(u))
      /\ (a \o FillFiles(u))[1] = a[1]
  BY <1>1, <1>2, FirstStays
<1>5. b \in Seq(Acts(u)) /\ 0 < Len(b) /\ b[1] = a[1]
  BY <1>2, <1>4, FirstStays
<1>. HIDE DEF b
<1>6. b \o e \in Seq(Acts(u)) /\ 0 < Len(b \o e) /\ (b \o e)[1] = a[1]
  BY <1>3, <1>5, FirstStays
<1>7. (b \o e) \o z \in Seq(Acts(u)) /\ 0 < Len((b \o e) \o z) /\ ((b \o e) \o z)[1] = a[1]
  BY <1>3, <1>6, FirstStays
<1>8. RegisterFirst((b \o e) \o z, held)
  BY <1>1, <1>7, BeginsWell
<1>9. UnregisterAfter((b \o e) \o z, kept)
  BY <1>5, EndsWell, TestAssumption DEF e
<1>10. create_delete_file_test_1(u) = b \o e
  BY DEF create_delete_file_test_1, a, b, e
<1>. QED
  BY <1>6, <1>7, <1>8, <1>9, <1>10

\* check_file_id_test.
LEMMA CheckFileIs ==
  ASSUME NEW held, NEW kept \in BOOLEAN, NEW u \in UserArgs
  PROVE  LET s == check_file_id_test(u) IN
           s \in Seq(Acts(u)) /\ RegisterFirst(s, held) /\ UnregisterAfter(s, kept)
<1>. DEFINE a == <<Register(u, Password, "ok")>>
            refused == [k \in 1..2 |-> OnFile("create_bf", u, BadFile, "error")]
            file_at(k) == Append(FileIds, BadFile)[k]
            turns == [k \in 1..Len(FileIds) + 1 |->
                       <<OnFile("create_bf", u, file_at(k), "ok"),
                         OnFile("delete_bf", u, file_at(k), "ok")>>]
            b == (a \o refused) \o InTurn(turns, 2)
            e == <<Unregister(u, Password)>>
            z == <<Local("close")>>
<1>1. a \in Seq(Acts(u)) /\ 0 < Len(a) /\ Registration(a[1])
  BY FirstItem, TestAssumption
<1>2. refused \in Seq(Acts(u))
  <2>1. OnFile("create_bf", u, BadFile, "error") \in Acts(u)
    BY ItemsAre DEF FileOps
  <2>. QED
    BY <2>1
<1>3. InTurn(turns, 2) \in Seq(Acts(u))
  <2>1. FileIds \in Seq(Files \cup {BadFile}) /\ Len(FileIds) \in Nat
    <3>1. FileIds \in Seq(Files)
      BY ElementAssumption, SetToSeqIs DEF FileIds
    <3>. QED
      BY <3>1, SeqMonotonic
  <2>2. \A k \in 1..Len(FileIds) + 1 : file_at(k) \in Files \cup {BadFile}
    <3>1. /\ Append(FileIds, BadFile) \in Seq(Files \cup {BadFile})
          /\ Len(Append(FileIds, BadFile)) = Len(FileIds) + 1
      BY <2>1, AppendProperties
    <3>. QED
      BY <3>1, ElementOfSeq
  <2>. HIDE DEF file_at
  <2>3. \A k \in 1..Len(FileIds) + 1 :
          /\ OnFile("create_bf", u, file_at(k), "ok") \in Acts(u)
          /\ OnFile("delete_bf", u, file_at(k), "ok") \in Acts(u)
    BY <2>2, ItemsAre DEF FileOps
  <2>4. Len(turns) = Len(FileIds) + 1 /\ Len(turns) \in Nat
    BY <2>1
  <2>5. ASSUME NEW k \in 1..Len(turns), NEW j \in 1..2 PROVE turns[k][j] \in Acts(u)
    <3>1. k \in 1..Len(FileIds) + 1
      BY <2>4
    <3>2. turns[k] = <<OnFile("create_bf", u, file_at(k), "ok"),
                       OnFile("delete_bf", u, file_at(k), "ok")>>
      BY <3>1
    <3>3. j = 1 \/ j = 2
      OBVIOUS
    <3>. QED
      BY <2>3, <3>1, <3>2, <3>3
  <2>. HIDE DEF turns
  <2>. QED
    BY <2>4, <2>5, InTurnIs
<1>4. e \in Seq(Acts(u))
  <2>1. Unregister(u, Password) \in Acts(u)
    BY ItemsAre, TestAssumption
  <2>. QED
    BY <2>1, OneItem
<1>5. z \in Seq(Asks) /\ z \in Seq(Acts(u))
  <2>1. Local("close") \in Asks /\ Local("close") \in Acts(u)
    BY ItemsAre, AsksAreActs
  <2>. QED
    BY <2>1, OneItem
<1>6. check_file_id_test(u) = b \o (e \o z)
  <2>1. e \o z = <<Unregister(u, Password), Local("close")>>
    <3>1. Unregister(u, Password) \in Acts(u) /\ Local("close") \in Acts(u)
      BY ItemsAre, AsksAreActs, TestAssumption
    <3>. QED
      BY <3>1, TwoItems
  <2>. QED
    BY <2>1 DEF check_file_id_test
<1>. HIDE DEF a, refused, turns, e, z
<1>7. a \o refused \in Seq(Acts(u)) /\ 0 < Len(a \o refused) /\ (a \o refused)[1] = a[1]
  BY <1>1, <1>2, FirstStays
<1>8. b \in Seq(Acts(u)) /\ 0 < Len(b) /\ b[1] = a[1]
  BY <1>3, <1>7, FirstStays
<1>. HIDE DEF b
<1>9. b \o (e \o z) = (b \o e) \o z
  BY <1>4, <1>5, <1>8, ConcatAssociative
<1>10. b \o e \in Seq(Acts(u)) /\ 0 < Len(b \o e) /\ (b \o e)[1] = a[1]
  BY <1>4, <1>8, FirstStays
<1>11. (b \o e) \o z \in Seq(Acts(u)) /\ 0 < Len((b \o e) \o z) /\ ((b \o e) \o z)[1] = a[1]
  BY <1>5, <1>10, FirstStays
<1>12. RegisterFirst((b \o e) \o z, held)
  BY <1>1, <1>11, BeginsWell
<1>13. UnregisterAfter((b \o e) \o z, kept)
  BY <1>5, <1>8, EndsWell, TestAssumption DEF e
<1>. QED
  BY <1>6, <1>9, <1>11, <1>12, <1>13

\* check_password_size_test.
LEMMA CheckPasswordIs ==
  ASSUME NEW held, NEW kept \in BOOLEAN, NEW u \in UserArgs
  PROVE  LET s == check_password_size_test(u) IN
           s \in Seq(Acts(u)) /\ RegisterFirst(s, held) /\ UnregisterAfter(s, kept)
<1>. DEFINE n == Cardinality(Passwords)
            bad == Register(u, BadPassword, "error")
            a == <<bad, bad>>
            turns == [k \in 1..n |-> PasswordRound(u, SetToSeq(Passwords)[k])]
            r == InTurn(turns, 4)
            z == <<Local("close")>>
            s == (a \o r) \o z
<1>0. n \in Nat /\ \A k \in 1..n : SetToSeq(Passwords)[k] \in Passwords
  BY TestAssumption, SetToSeqIs
<1>1. 0 < n
  <2>1. n # 0
    BY TestAssumption, FS_EmptySet
  <2>. QED
    BY <1>0, <2>1
<1>. HIDE DEF n
<1>2. Len(turns) = n
  BY <1>0
<1>3. ASSUME NEW k \in 1..n
      PROVE  /\ \A b \in 1..4 : turns[k][b] \in Acts(u)
             /\ Registration(turns[k][1]) /\ turns[k][3].op = "unregister"
             /\ turns[k][4].op # "register"
  <2>. DEFINE p == SetToSeq(Passwords)[k]
  <2>1. p \in Passwords
    BY <1>0
  <2>2. turns[k] = PasswordRound(u, p)
    OBVIOUS
  <2>. HIDE DEF p
  <2>3. Register(u, p, "ok") \in Acts(u) /\ Unregister(u, p) \in Acts(u)
    BY <2>1, ItemsAre
  <2>4. IsRegistered(u, "registered") \in Acts(u) /\ IsRegistered(u, "not registered") \in Acts(u)
    BY ItemsAre, AsksAreActs
  <2>5. /\ turns[k][1] = Register(u, p, "ok") /\ turns[k][2] = IsRegistered(u, "registered")
        /\ turns[k][3] = Unregister(u, p) /\ turns[k][4] = IsRegistered(u, "not registered")
    BY <2>2 DEF PasswordRound
  <2>6. \A b \in 1..4 : b = 1 \/ b = 2 \/ b = 3 \/ b = 4
    OBVIOUS
  <2>7. /\ Registration(Register(u, p, "ok")) /\ Unregister(u, p).op = "unregister"
        /\ IsRegistered(u, "not registered").op # "register"
    BY DEF Registration, Register, Unregister, IsRegistered, Item
  <2>. QED
    BY <2>3, <2>4, <2>5, <2>6, <2>7
<1>. HIDE DEF turns
<1>4. r \in Seq(Acts(u)) /\ Len(r) = 4 * n
  BY <1>0, <1>2, <1>3, InTurnIs
<1>5. Registration(r[1])
  <2>1. r[1] = turns[((1 - 1) \div 4) + 1][((1 - 1) % 4) + 1]
    BY <1>0, <1>1, <1>2 DEF InTurn
  <2>2. ((1 - 1) \div 4) + 1 = 1 /\ ((1 - 1) % 4) + 1 = 1
    OBVIOUS
  <2>. QED
    BY <1>0, <1>1, <1>3, <2>1, <2>2
<1>6. r[4 * n - 1].op = "unregister"
  <2>1. r[4 * n - 1] = turns[((4 * n - 1 - 1) \div 4) + 1][((4 * n - 1 - 1) % 4) + 1]
    BY <1>0, <1>1, <1>2 DEF InTurn
  <2>2. ((4 * n - 1 - 1) \div 4) + 1 = n /\ ((4 * n - 1 - 1) % 4) + 1 = 3
    BY <1>0, <1>1
  <2>. QED
    BY <1>0, <1>1, <1>3, <2>1, <2>2
<1>7. r[4 * n].op # "register"
  <2>1. r[4 * n] = turns[((4 * n - 1) \div 4) + 1][((4 * n - 1) % 4) + 1]
    BY <1>0, <1>1, <1>2 DEF InTurn
  <2>2. ((4 * n - 1) \div 4) + 1 = n /\ ((4 * n - 1) % 4) + 1 = 4
    BY <1>0, <1>1
  <2>. QED
    BY <1>0, <1>1, <1>3, <2>1, <2>2
<1>. HIDE DEF r
<1>8. a \in Seq(Acts(u)) /\ Len(a) = 2 /\ a[1].op = "register" /\ a[2].op = "register"
  <2>1. bad \in Acts(u) /\ bad.op = "register"
    BY ItemsAre DEF Register, Item
  <2>. HIDE DEF bad
  <2>. QED
    BY <2>1
<1>. HIDE DEF a
<1>9. z \in Seq(Acts(u)) /\ Len(z) = 1 /\ z[1].op # "register"
  <2>1. Local("close") \in Acts(u) /\ Local("close").op # "register"
    BY ItemsAre, AsksAreActs DEF Local, Item
  <2>. QED
    BY <2>1, OneItem
<1>. HIDE DEF z
<1>10. /\ a \o r \in Seq(Acts(u)) /\ Len(a \o r) = 4 * n + 2
       /\ \A k \in 1..2 : (a \o r)[k] = a[k]
       /\ \A k \in 1..4 * n : (a \o r)[2 + k] = r[k]
  <2>0. a \in Seq(Acts(u)) /\ r \in Seq(Acts(u))
    BY <1>4, <1>8
  <2>1. a \o r \in Seq(Acts(u)) /\ Len(a \o r) = Len(a) + Len(r)
    BY <2>0, ConcatIs
  <2>2. \A k \in 1..Len(a) : (a \o r)[k] = a[k]
    BY <2>0, ConcatIs
  <2>3. \A k \in 1..Len(r) : (a \o r)[Len(a) + k] = r[k]
    BY <2>0, ConcatIs
  <2>4. 2 + 4 * n = 4 * n + 2
    BY <1>0
  <2>. QED
    BY <1>4, <1>8, <2>1, <2>2, <2>3, <2>4
<1>11. /\ s \in Seq(Acts(u)) /\ Len(s) = 4 * n + 3
       /\ \A k \in 1..4 * n + 2 : s[k] = (a \o r)[k]
       /\ s[4 * n + 3] = z[1]
  <2>. DEFINE c == a \o r
  <2>0. c \in Seq(Acts(u)) /\ z \in Seq(Acts(u))
    BY <1>9, <1>10
  <2>1. Len(c) = 4 * n + 2
    BY <1>10
  <2>. HIDE DEF c
  <2>2. c \o z \in Seq(Acts(u)) /\ Len(c \o z) = Len(c) + Len(z)
    BY <2>0, ConcatIs
  <2>3. \A k \in 1..Len(c) : (c \o z)[k] = c[k]
    BY <2>0, ConcatIs
  <2>4. \A k \in 1..Len(z) : (c \o z)[Len(c) + k] = z[k]
    BY <2>0, ConcatIs
  <2>5. s = c \o z
    BY DEF c
  <2>. HIDE DEF s
  <2>6. Len(c) + Len(z) = 4 * n + 3 /\ Len(c) + 1 = 4 * n + 3 /\ 1 \in 1..Len(z)
    BY <1>0, <1>9, <2>1
  <2>7. s \in Seq(Acts(u)) /\ Len(s) = 4 * n + 3
    BY <2>2, <2>5, <2>6
  <2>8. s[4 * n + 3] = z[1]
    BY <2>4, <2>5, <2>6
  <2>9. \A k \in 1..4 * n + 2 : s[k] = c[k]
    BY <2>1, <2>3, <2>5
  <2>. QED
    BY <2>7, <2>8, <2>9 DEF c
<1>. HIDE DEF s
<1>12. s[1].op = "register" /\ s[2].op = "register" /\ Registration(s[3])
  <2>1. 1 \in 1..4 * n + 2 /\ 2 \in 1..4 * n + 2 /\ 3 \in 1..4 * n + 2 /\ 1 \in 1..4 * n
    BY <1>0, <1>1
  <2>2. (a \o r)[2 + 1] = r[1]
    BY <1>10, <2>1
  <2>. QED
    BY <1>5, <1>8, <1>10, <1>11, <2>1, <2>2
<1>13. RegisterFirst(s, held)
  <2>1. 3 \in 1..Len(s)
    BY <1>0, <1>11
  <2>2. \A k \in 1..3 : s[k].op \notin Changing
    <3>1. \A k \in 1..3 : k = 1 \/ k = 2 \/ k = 3
      OBVIOUS
    <3>. QED
      BY <1>12, <3>1 DEF Registration, Changing
  <2>. QED
    BY <1>11, <1>12, <2>1, <2>2, Opens
<1>14. s[4 * n + 1].op = "unregister" /\ s[4 * n + 2].op # "register"
       /\ s[4 * n + 3].op # "register"
  <2>1. /\ 4 * n - 1 \in 1..4 * n /\ 4 * n \in 1..4 * n
        /\ 4 * n + 1 \in 1..4 * n + 2 /\ 4 * n + 2 \in 1..4 * n + 2
        /\ 2 + (4 * n - 1) = 4 * n + 1 /\ 2 + 4 * n = 4 * n + 2
    BY <1>0, <1>1
  <2>2. (a \o r)[2 + (4 * n - 1)] = r[4 * n - 1] /\ (a \o r)[2 + 4 * n] = r[4 * n]
    BY <1>10, <2>1
  <2>3. s[4 * n + 1] = (a \o r)[4 * n + 1] /\ s[4 * n + 2] = (a \o r)[4 * n + 2]
    BY <1>11, <2>1
  <2>. QED
    BY <1>6, <1>7, <1>9, <1>11, <2>1, <2>2, <2>3
<1>15. UnregisterAfter(s, kept)
  <2>1. 4 * n + 1 \in 1..Len(s)
    BY <1>0, <1>11
  <2>2. \A k \in 4 * n + 1..Len(s) : k = 4 * n + 1 \/ k = 4 * n + 2 \/ k = 4 * n + 3
    BY <1>0, <1>11
  <2>3. \A k \in 4 * n + 1..Len(s) : s[k].op # "register"
    BY <1>14, <2>2
  <2>. QED
    BY <1>11, <1>14, <2>1, <2>3, Closes
<1>16. check_password_size_test(u) = s
  BY DEF check_password_size_test, s, a, r, z, turns, n
<1>. QED
  BY <1>11, <1>13, <1>15, <1>16

\* What a test does with a user it has found: all of it is that user's, begins
\* with the registration and ends with the unregistration, but for the tests
\* that keep their users to the end.
LEMMA FoundIs ==
  ASSUME NEW held, NEW t \in SearchTests, NEW u \in UserArgs, before \in Nat
  PROVE  /\ Found(t, u) \in Seq(Acts(u)) /\ RegisterFirst(Found(t, u), held)
         /\ UnregisterAfter(Found(t, u), t \in KeepingTests)
<1>. DEFINE reg == <<Register(u, Password, "ok")>>
            kept == t \in KeepingTests
<1>a. kept \in BOOLEAN
  OBVIOUS
<1>0. reg \in Seq(Acts(u)) /\ 0 < Len(reg) /\ Registration(reg[1])
  BY FirstItem, TestAssumption
<1>1. CASE t = "check_password_size_test"
  <2>1. Found(t, u) = check_password_size_test(u)
    BY <1>1 DEF Found
  <2>. HIDE DEF kept
  <2>2. /\ check_password_size_test(u) \in Seq(Acts(u))
        /\ RegisterFirst(check_password_size_test(u), held)
        /\ UnregisterAfter(check_password_size_test(u), kept)
    BY <1>a, CheckPasswordIs
  <2>. QED
    BY <2>1, <2>2 DEF kept
<1>2. CASE t = "add_delete_user_test_1"
  <2>. DEFINE s == add_delete_user_test_1(u)
              x == Register(u, Password, "ok")
              y == Unregister(u, Password)
              r == IsRegistered(u, "registered")
              c == Count("count", before + 1)
              n == IsRegistered(u, "not registered")
  <2>1. Found(t, u) = s
    BY <1>2 DEF Found
  <2>2. x \in Acts(u) /\ y \in Acts(u)
    BY ItemsAre, TestAssumption
  <2>3. r \in Acts(u) /\ c \in Acts(u) /\ n \in Acts(u)
    <3>1. before + 1 \in Nat
      OBVIOUS
    <3>2. r \in Asks /\ c \in Asks /\ n \in Asks
      BY <3>1, ItemsAre
    <3>. QED
      BY <3>2, AsksAreActs
  <2>4. Registration(x) /\ y.op = "unregister" /\ n.op # "register"
    BY DEF Registration, Register, Unregister, IsRegistered, Item
  <2>5. s = <<x, r, c, y, n>>
    BY DEF add_delete_user_test_1
  <2>. HIDE DEF x, y, r, c, n, s
  <2>6. s \in Seq(Acts(u)) /\ Len(s) = 5
    BY <2>2, <2>3, <2>5
  <2>7. s[1] = x /\ s[4] = y /\ s[5] = n
    BY <2>5
  <2>8. RegisterFirst(s, held)
    BY <2>4, <2>6, <2>7, BeginsWell
  <2>9. UnregisterAfter(s, t \in KeepingTests)
    <3>1. 4 \in 1..Len(s) /\ \A k \in 4..Len(s) : k = 4 \/ k = 5
      BY <2>6
    <3>2. \A k \in 4..Len(s) : s[k].op # "register"
      BY <2>4, <2>7, <3>1
    <3>. HIDE DEF kept
    <3>3. UnregisterAfter(s, kept)
      BY <1>a, <2>4, <2>6, <2>7, <3>1, <3>2, Closes
    <3>. QED
      BY <3>3 DEF kept
  <2>. QED
    BY <2>1, <2>6, <2>8, <2>9
<1>3. CASE t = "add_delete_user_test_2"
  <2>1. Found(t, u) = reg
    BY <1>3 DEF Found
  <2>2. RegisterFirst(reg, held)
    BY <1>0, BeginsWell
  <2>3. t \in KeepingTests
    BY <1>3 DEF KeepingTests
  <2>. QED
    BY <1>0, <2>1, <2>2, <2>3 DEF UnregisterAfter
<1>4. CASE t = "create_delete_file_test_1"
  <2>. DEFINE s == create_delete_file_test_1(u)
  <2>1. Found(t, u) = s
    BY <1>4 DEF Found
  <2>2. << >> \in Seq(Asks)
    OBVIOUS
  <2>. HIDE DEF s, kept
  <2>3. s \in Seq(Acts(u)) /\ RegisterFirst(s \o << >>, held)
        /\ UnregisterAfter(s \o << >>, kept)
    BY <1>a, <2>2, CreateDeleteIs DEF s
  <2>4. s \o << >> = s
    BY <2>3, ConcatEmptySeq
  <2>. QED
    BY <2>1, <2>3, <2>4 DEF kept
<1>5. CASE t = "create_delete_file_test_2"
  <2>1. Found(t, u) = create_delete_file_test_1(u) \o <<Local("close")>>
    BY <1>5 DEF Found
  <2>2. <<Local("close")>> \in Seq(Asks)
    BY ItemsAre, OneItem
  <2>. DEFINE s == create_delete_file_test_1(u) \o <<Local("close")>>
  <2>. HIDE DEF kept
  <2>3. s \in Seq(Acts(u)) /\ RegisterFirst(s, held) /\ UnregisterAfter(s, kept)
    BY <1>a, <2>2, CreateDeleteIs
  <2>. QED
    BY <2>1, <2>3 DEF kept
<1>6. CASE t = "create_delete_file_test_3"
  <2>1. Found(t, u) = reg \o FillFiles(u)
    BY <1>6 DEF Found
  <2>2. FillFiles(u) \in Seq(Acts(u))
    BY FilesOfTests
  <2>. HIDE DEF reg
  <2>3. /\ reg \o FillFiles(u) \in Seq(Acts(u)) /\ 0 < Len(reg \o FillFiles(u))
        /\ (reg \o FillFiles(u))[1] = reg[1]
    BY <1>0, <2>2, FirstStays
  <2>4. RegisterFirst(reg \o FillFiles(u), held)
    BY <1>0, <2>3, BeginsWell
  <2>5. t \in KeepingTests
    BY <1>6 DEF KeepingTests
  <2>. QED
    BY <2>1, <2>3, <2>4, <2>5 DEF UnregisterAfter
<1>7. CASE t = "check_file_id_test"
  <2>1. Found(t, u) = check_file_id_test(u)
    BY <1>7 DEF Found
  <2>. HIDE DEF kept
  <2>2. /\ check_file_id_test(u) \in Seq(Acts(u))
        /\ RegisterFirst(check_file_id_test(u), held)
        /\ UnregisterAfter(check_file_id_test(u), kept)
    BY <1>a, CheckFileIs
  <2>. QED
    BY <2>1, <2>2 DEF kept
<1>. QED
  BY <1>1, <1>2, <1>3, <1>4, <1>5, <1>6, <1>7 DEF SearchTests, KeepingTests

\* A list that only asks.
LEMMA AsksWellMade ==
  ASSUME NEW held, NEW kept \in BOOLEAN, NEW s \in Seq(Asks)
  PROVE  WellMade(s, held) /\ UnregisterAfter(s, kept) /\ ~ HasLoop(s)
<1>1. \A k \in 1..Len(s) : s[k] \in PlainItems
  BY AsksOnly, ElementOfSeq
<1>2. LoopLast(s) /\ SearchLast(s) /\ ~ HasLoop(s)
  BY <1>1 DEF LoopLast, SearchLast, HasLoop, PlainItems
<1>. QED
  BY <1>2, AsksOnly DEF WellMade

\* A list that only asks before one that is well made.
LEMMA AsksBefore ==
  ASSUME NEW held, NEW kept \in BOOLEAN, NEW a \in Seq(Asks), NEW b,
         WellMade(b, held), UnregisterAfter(b, kept)
  PROVE  /\ WellMade(a \o b, held) /\ UnregisterAfter(a \o b, kept)
         /\ HasLoop(a \o b) <=> HasLoop(b)
<1>1. b \in Seq(Items) /\ RegisterFirst(b, held) /\ LoopLast(b) /\ SearchLast(b)
  BY DEF WellMade
<1>2. a \in Seq(PlainItems) /\ a \in Seq(Items) /\ RegisterFirst(a, held) /\ UnregisterAfter(a, kept)
  BY AsksOnly
<1>3. a \o b \in Seq(Items) /\ RegisterFirst(a \o b, held)
  BY <1>1, <1>2, ConcatIs, RegisterConcat
<1>4. UnregisterAfter(a \o b, kept)
  BY <1>1, <1>2, UnregisterConcat
<1>5. LoopLast(a \o b) /\ SearchLast(a \o b) /\ (HasLoop(a \o b) <=> HasLoop(b))
  BY <1>1, <1>2, SearchConcat
<1>. QED
  BY <1>3, <1>4, <1>5 DEF WellMade

\* The search over the users.
LEMMA SearchIs ==
  ASSUME NEW held, NEW kept \in BOOLEAN
  PROVE  WellMade(Search, held) /\ UnregisterAfter(Search, kept) /\ HasLoop(Search)
<1>. DEFINE n == Cardinality(Users)
            a == [k \in 1..n |-> IsRegistered(UserIds[k], "search")]
            z == <<Local("loop")>>
            s == a \o z
<1>1. n \in Nat /\ DOMAIN UserIds = 1..n /\ \A k \in 1..n : UserIds[k] \in Users
  BY ElementAssumption, SetToSeqIs DEF UserIds
<1>. HIDE DEF n
<1>2. a \in Seq(Items) /\ Len(a) = n
  <2>1. \A k \in 1..n : IsRegistered(UserIds[k], "search") \in Items
    BY <1>1, ItemsAre DEF UserArgs
  <2>. QED
    BY <1>1, <2>1
<1>3. z \in Seq(Items) /\ Len(z) = 1 /\ z[1].op = "loop" /\ z[1].want # "search"
  <2>1. Local("loop") \in Items /\ Local("loop").op = "loop" /\ Local("loop").want = "ok"
    BY ItemsAre DEF UserArgs
  <2>. QED
    BY <2>1, OneItem
<1>4. \A k \in 1..n : a[k].op = "is_registered" /\ a[k].want = "search"
  BY DEF IsRegistered, Item
<1>. HIDE DEF a, z
<1>5. s \in Seq(Items) /\ Len(s) = n + 1
      /\ (\A k \in 1..n : s[k] = a[k]) /\ s[n + 1] = z[1]
  <2>0. a \in Seq(Items) /\ z \in Seq(Items)
    BY <1>2, <1>3
  <2>1. s \in Seq(Items) /\ Len(s) = Len(a) + Len(z)
    BY <2>0, ConcatIs
  <2>2. \A k \in 1..Len(a) : s[k] = a[k]
    BY <2>0, ConcatIs
  <2>3. \A k \in 1..Len(z) : s[Len(a) + k] = z[k]
    BY <2>0, ConcatIs
  <2>. HIDE DEF s
  <2>. QED
    BY <1>1, <1>2, <1>3, <2>1, <2>2, <2>3
<1>. HIDE DEF s
<1>6. \A k \in 1..Len(s) : (k \in 1..n /\ s[k].op = "is_registered" /\ s[k].want = "search")
                           \/ (k = n + 1 /\ s[k].op = "loop" /\ s[k].want # "search")
  BY <1>1, <1>3, <1>4, <1>5
<1>7. RegisterFirst(s, held)
  BY <1>6 DEF RegisterFirst, Changing
<1>8. UnregisterAfter(s, kept)
  BY <1>6 DEF UnregisterAfter, Registration
<1>9. LoopLast(s)
  BY <1>1, <1>5, <1>6 DEF LoopLast
<1>10. Len(s) \in 1..Len(s) /\ s[Len(s)].op = "loop"
  BY <1>1, <1>3, <1>5
<1>11. SearchLast(s)
  <2>1. ASSUME NEW k \in 1..Len(s), NEW j \in k..Len(s)
        PROVE  Searching(s[j])
    <3>1. j \in 1..Len(s)
      BY <1>1, <1>5
    <3>. QED
      BY <1>6, <3>1 DEF Searching
  <2>. QED
    BY <1>10, <2>1 DEF SearchLast
<1>12. Search = s
  BY <1>1 DEF Search, s, a, z
<1>. QED
  BY <1>5, <1>7, <1>8, <1>9, <1>10, <1>11, <1>12 DEF WellMade, HasLoop

\* How a test begins.
LEMMA BeginIs ==
  ASSUME NEW held, NEW kept \in BOOLEAN, NEW t \in TestNames
  PROVE  /\ WellMade(Begin(t), held) /\ UnregisterAfter(Begin(t), kept)
         /\ HasLoop(Begin(t)) => t \in SearchTests
<1>. DEFINE open == <<Local("open")>>
<1>0. open \in Seq(Asks)
  BY ItemsAre, OneItem DEF UserArgs
<1>1. CASE t = "check_user_id_test"
  <2>1. Head(UserIds) \in UserArgs /\ Last(UserIds) \in UserArgs
    <3>1. UserIds \in Seq(Users) /\ UserIds # << >>
      <4>1. Cardinality(Users) # 0
        BY TestAssumption, ElementAssumption, FS_EmptySet
      <4>2. UserIds \in Seq(Users) /\ Len(UserIds) = Cardinality(Users)
        BY ElementAssumption, SetToSeqIs DEF UserIds
      <4>. QED
        BY <4>1, <4>2
    <3>2. Len(UserIds) \in 1..Len(UserIds)
      BY <3>1
    <3>. QED
      BY <3>1, <3>2, HeadTailProperties, ElementOfSeq DEF Last, UserArgs
  <2>2. BadUser \in UserArgs
    BY DEF UserArgs
  <2>3. check_user_id_test \in Seq(Asks)
    <3>. DEFINE x == IsRegistered(BadUser, "error")
                y == IsRegistered(Head(UserIds), "ok")
                z == IsRegistered(Last(UserIds), "ok")
                c == Local("close")
    <3>1. x \in Asks /\ y \in Asks /\ z \in Asks /\ c \in Asks
      BY <2>1, <2>2, ItemsAre
    <3>2. check_user_id_test = <<x, y, z, x, c>>
      BY DEF check_user_id_test
    <3>. HIDE DEF x, y, z, c
    <3>. QED
      BY <3>1, <3>2
  <2>4. Begin(t) = open \o check_user_id_test
    BY <1>1 DEF Begin
  <2>5. WellMade(check_user_id_test, held) /\ UnregisterAfter(check_user_id_test, kept)
        /\ ~ HasLoop(check_user_id_test)
    BY <2>3, AsksWellMade
  <2>. HIDE DEF open
  <2>. DEFINE s == check_user_id_test
  <2>. HIDE DEF s
  <2>a. Begin(t) = open \o s /\ WellMade(s, held) /\ UnregisterAfter(s, kept)
    BY <2>4, <2>5 DEF s
  <2>b. ~ HasLoop(s)
    BY <2>5 DEF s
  <2>6. WellMade(Begin(t), held) /\ UnregisterAfter(Begin(t), kept)
    BY <1>0, <2>a, AsksBefore
  <2>7. ~ HasLoop(Begin(t))
    BY <1>0, <2>a, <2>b, AsksBefore
  <2>. QED
    BY <2>6, <2>7
<1>2. CASE t = "get_user_list_test"
  <2>. DEFINE s == <<Count("each", 0), Local("close")>>
  <2>1. s \in Seq(Asks)
    <3>1. Count("each", 0) \in Asks /\ Local("close") \in Asks
      BY ItemsAre DEF UserArgs
    <3>. QED
      BY <3>1
  <2>2. Begin(t) = open \o s
    BY <1>2 DEF Begin
  <2>. HIDE DEF open, s
  <2>3. WellMade(s, held) /\ UnregisterAfter(s, kept) /\ ~ HasLoop(s)
    BY <2>1, AsksWellMade
  <2>6. WellMade(Begin(t), held) /\ UnregisterAfter(Begin(t), kept)
    BY <1>0, <2>2, <2>3, AsksBefore
  <2>7. HasLoop(Begin(t)) <=> HasLoop(s)
    BY <1>0, <2>2, <2>3, AsksBefore
  <2>. QED
    BY <2>3, <2>6, <2>7
<1>3. CASE t \in {"check_password_size_test", "check_file_id_test"}
  <2>1. Begin(t) = open \o Search
    BY <1>3 DEF Begin
  <2>2. t \in SearchTests
    BY <1>3 DEF SearchTests
  <2>. HIDE DEF open
  <2>. QED
    BY <1>0, <2>1, <2>2, SearchIs, AsksBefore
<1>4. CASE t \notin {"check_user_id_test", "get_user_list_test", "check_password_size_test",
                     "check_file_id_test"}
  <2>. DEFINE c == <<Count("first", 0)>>
  <2>1. Begin(t) = open \o (c \o Search)
    BY <1>4 DEF Begin
  <2>2. t \in SearchTests
    BY <1>4 DEF TestNames
  <2>3. c \in Seq(Asks)
    <3>1. Count("first", 0) \in Asks
      BY ItemsAre DEF UserArgs
    <3>. QED
      BY <3>1, OneItem
  <2>. HIDE DEF open, c
  <2>4. WellMade(c \o Search, held) /\ UnregisterAfter(c \o Search, kept)
    BY <2>3, SearchIs, AsksBefore
  <2>. QED
    BY <1>0, <2>1, <2>2, <2>4, AsksBefore
<1>. QED
  BY <1>1, <1>2, <1>3, <1>4

\* What is unregistered in a part is unregistered in the whole.
LEMMA DropsConcat ==
  ASSUME NEW S, NEW a \in Seq(S), NEW b \in Seq(S), NEW u, Drops(a, u) \/ Drops(b, u)
  PROVE  Drops(a \o b, u)
<1>1. CASE Drops(a, u)
  <2>1. PICK k \in 1..Len(a) : a[k].op = "unregister" /\ a[k].user = u
    BY <1>1 DEF Drops
  <2>2. k \in 1..Len(a \o b) /\ (a \o b)[k] = a[k]
    BY ConcatIs
  <2>. QED
    BY <2>1, <2>2 DEF Drops
<1>2. CASE Drops(b, u)
  <2>1. PICK k \in 1..Len(b) : b[k].op = "unregister" /\ b[k].user = u
    BY <1>2 DEF Drops
  <2>2. Len(a) + k \in 1..Len(a \o b) /\ (a \o b)[Len(a) + k] = b[k]
    BY ConcatIs
  <2>. QED
    BY <2>1, <2>2 DEF Drops
<1>. QED
  BY <1>1, <1>2

\* What comes after the loop: only users the test has registered are changed.
After == {x \in PlainItems : x.op # "register" /\ (x.op \in Changing => x.user \in mine)}

LEMMA AsksAreAfter == Asks \subseteq After
BY DEF Asks, After

\* The test unregisters each user it has registered.
LEMMA UnregisterMineIs ==
  ASSUME mine \subseteq UserArgs
  PROVE  /\ UnregisterMine \in Seq(After) /\ Cardinality(mine) \in Nat
         /\ \A u \in mine : Drops(UnregisterMine, u)
<1>. DEFINE n == Cardinality(mine)
<1>1. IsFiniteSet(mine)
  <2>1. IsFiniteSet(UserArgs)
    BY ElementAssumption, FS_AddElement DEF UserArgs
  <2>. QED
    BY <2>1, FS_Subset
<1>2. /\ DOMAIN SetToSeq(mine) = 1..n /\ n \in Nat
      /\ \A k \in 1..n : SetToSeq(mine)[k] \in mine
      /\ \A u \in mine : \E k \in 1..n : SetToSeq(mine)[k] = u
  BY <1>1, SetToSeqIs
<1>. HIDE DEF n
<1>3. UnregisterMine = [k \in 1..n |-> Unregister(SetToSeq(mine)[k], Password)]
  BY <1>2 DEF UnregisterMine
<1>4. ASSUME NEW u \in mine
      PROVE  Unregister(u, Password) \in After
  <2>1. u \in UserArgs
    OBVIOUS
  <2>2. Unregister(u, Password) \in Acts(u)
    BY <2>1, ItemsAre, TestAssumption
  <2>3. Unregister(u, Password).op = "unregister" /\ Unregister(u, Password).user = u
    BY DEF Unregister, Item
  <2>. QED
    BY <2>2, <2>3 DEF After, Acts
<1>5. UnregisterMine \in Seq(After) /\ Len(UnregisterMine) = n
  BY <1>2, <1>3, <1>4
<1>6. ASSUME NEW u \in mine
      PROVE  Drops(UnregisterMine, u)
  <2>1. PICK k \in 1..n : SetToSeq(mine)[k] = u
    BY <1>2
  <2>2. UnregisterMine[k] = Unregister(u, Password)
    BY <1>3, <2>1
  <2>3. Unregister(u, Password).op = "unregister" /\ Unregister(u, Password).user = u
    BY DEF Unregister, Item
  <2>. QED
    BY <1>5, <2>2, <2>3 DEF Drops
<1>. QED
  BY <1>2, <1>5, <1>6 DEF n

\* What a test does after a loop that ended.
LEMMA AfterIs ==
  ASSUME NEW t \in SearchTests,
         t \notin {"check_password_size_test", "create_delete_file_test_2", "check_file_id_test"},
         mine \subseteq UserArgs, before \in Nat
  PROVE  /\ AfterLoop(t) \o <<Local("close")>> \in Seq(After)
         /\ t \in KeepingTests => \A u \in mine : Drops(AfterLoop(t) \o <<Local("close")>>, u)
<1>. DEFINE z == <<Local("close")>>
            m == UnregisterMine
<1>0. z \in Seq(After)
  <2>1. Local("close") \in After
    BY ItemsAre, AsksAreAfter DEF UserArgs
  <2>. QED
    BY <2>1, OneItem
<1>1. /\ m \in Seq(After) /\ Cardinality(mine) \in Nat
      /\ \A u \in mine : Drops(m, u)
  BY UnregisterMineIs
<1>2. ASSUME NEW n \in Nat
      PROVE  <<Count("count", n)>> \in Seq(After)
  <2>1. Count("count", n) \in After
    BY ItemsAre, AsksAreAfter DEF UserArgs
  <2>. QED
    BY <2>1, OneItem
<1>. HIDE DEF z, m
<1>3. ASSUME NEW n \in Nat
      PROVE  LET s == ((<<Count("count", n)>> \o m) \o <<Count("count", before)>>) \o z IN
               s \in Seq(After) /\ \A u \in mine : Drops(s, u)
  <2>. DEFINE c == <<Count("count", n)>>
              d == <<Count("count", before)>>
  <2>1. c \in Seq(After) /\ d \in Seq(After) /\ m \in Seq(After) /\ z \in Seq(After)
    BY <1>0, <1>1, <1>2
  <2>. HIDE DEF c, d
  <2>2. c \o m \in Seq(After) /\ \A u \in mine : Drops(c \o m, u)
    <3>1. c \o m \in Seq(After)
      BY <2>1, ConcatIs
    <3>. QED
      BY <1>1, <2>1, <3>1, DropsConcat
  <2>3. (c \o m) \o d \in Seq(After) /\ \A u \in mine : Drops((c \o m) \o d, u)
    <3>. DEFINE e == c \o m
    <3>1. e \in Seq(After) /\ \A u \in mine : Drops(e, u)
      BY <2>2
    <3>. HIDE DEF e
    <3>2. e \o d \in Seq(After)
      BY <2>1, <3>1, ConcatIs
    <3>3. \A u \in mine : Drops(e \o d, u)
      BY <2>1, <3>1, DropsConcat
    <3>. QED
      BY <3>2, <3>3 DEF e
  <2>. DEFINE e == (c \o m) \o d
  <2>4. e \in Seq(After) /\ \A u \in mine : Drops(e, u)
    BY <2>3
  <2>. HIDE DEF e
  <2>5. e \o z \in Seq(After)
    BY <2>1, <2>4, ConcatIs
  <2>6. \A u \in mine : Drops(e \o z, u)
    BY <2>1, <2>4, DropsConcat
  <2>. QED
    BY <2>5, <2>6 DEF e, c, d
<1>4. CASE t = "add_delete_user_test_1"
  <2>1. AfterLoop(t) = <<Count("count", before)>> /\ t \notin KeepingTests
    BY <1>4 DEF AfterLoop, KeepingTests
  <2>2. AfterLoop(t) \in Seq(After)
    BY <1>2, <2>1
  <2>3. AfterLoop(t) \o z \in Seq(After)
    BY <1>0, <2>2, ConcatIs
  <2>. QED
    BY <2>1, <2>3 DEF z
<1>5. CASE t = "add_delete_user_test_2"
  <2>1. AfterLoop(t) = (<<Count("count", Cardinality(mine))>> \o m) \o <<Count("count", before)>>
    BY <1>5 DEF AfterLoop, m
  <2>. QED
    BY <1>1, <1>3, <2>1 DEF z
<1>6. CASE t = "create_delete_file_test_1"
  <2>1. AfterLoop(t) = << >> /\ t \notin KeepingTests
    BY <1>6 DEF AfterLoop, KeepingTests
  <2>2. << >> \o z \in Seq(After)
    BY <1>0, ConcatIs
  <2>. QED
    BY <2>1, <2>2 DEF z
<1>7. CASE t = "create_delete_file_test_3"
  <2>1. AfterLoop(t) =
          (<<Count("count", before + Cardinality(mine))>> \o m) \o <<Count("count", before)>>
    BY <1>7 DEF AfterLoop, m
  <2>2. before + Cardinality(mine) \in Nat
    BY <1>1
  <2>. QED
    BY <1>3, <2>1, <2>2 DEF z
<1>. QED
  BY <1>4, <1>5, <1>6, <1>7 DEF SearchTests, KeepingTests

\* It is well made, since a test registers no user that was registered before.
LEMMA AfterWellMade ==
  ASSUME NEW s \in Seq(After), NEW kept \in BOOLEAN, mine \cap others = {}
  PROVE  WellMade(s, others) /\ UnregisterAfter(s, kept) /\ ~ HasLoop(s)
<1>1. s \in Seq(Items) /\ \A k \in 1..Len(s) : s[k] \in After
  BY ElementOfSeq DEF After, PlainItems
<1>2. RegisterFirst(s, others)
  BY <1>1 DEF RegisterFirst, After
<1>3. UnregisterAfter(s, kept)
  BY <1>1 DEF UnregisterAfter, After, Registration
<1>4. LoopLast(s) /\ SearchLast(s) /\ ~ HasLoop(s)
  BY <1>1 DEF LoopLast, SearchLast, HasLoop, After, PlainItems
<1>. QED
  BY <1>1, <1>2, <1>3, <1>4 DEF WellMade

-----------------------------------------------------------------------------
(* The steps of the tests are steps of the storage API.                     *)

\* A test makes a step of SecStorage or none that it sees.
LEMMA TestStep == ASSUME TestNext PROVE Next \/ UNCHANGED vars
BY DEF TestNext, RunTest, Open, Close, EndLoop, TestCall, ClientRuns, CheckResult, Finish, Next

\* What SecStorage keeps on such a line.
Base == Whole /\ Settled /\ ResultsInv

LEMMA BaseStep ==
  ASSUME Base, Next \/ UNCHANGED vars
  PROVE  Base' /\ OwnerStep /\ lost = 0 /\ lost' = 0
<1>0. Faults = {} /\ MaxLost = 0 /\ "refuse" \notin Faults
  BY TestAssumption
<1>1. StorageInv /\ ReliableInv /\ CompleteInv /\ Settled /\ ResultsInv
  BY DEF Base, Whole, Trusted
<1>2. StorageInv'
  BY <1>1, StorageStep, StorageStutter DEF Kept
<1>3. lost = 0 /\ lost' = 0
  BY <1>0, <1>1, <1>2, NoneLost, NoneLostNext
<1>4. CASE Next
  <2>1. ReliableInv' /\ OwnerStep
    BY <1>1, <1>3, <1>4, SafeNext DEF Trusted, Safe
  <2>2. CompleteInv'
    BY <1>0, <1>3, <1>4, CompleteNext DEF Base
  <2>3. Settled'
    BY <1>0, <1>3, <1>4, SettledNext DEF Base
  <2>4. ResultsInv'
    BY <1>0, <1>3, <1>4, ResultsNext DEF Base
  <2>. QED
    BY <1>2, <1>3, <2>1, <2>2, <2>3, <2>4 DEF Base, Whole, Trusted
<1>5. CASE UNCHANGED vars
  <2>1. ReliableInv' /\ CompleteInv' /\ Settled' /\ ResultsInv' /\ OwnerStep
    BY <1>1, <1>5, ReliableStutter, CompleteStutter, OneLostStutter, ResultsStutter
  <2>. QED
    BY <1>2, <1>3, <2>1 DEF Base, Whole, Trusted
<1>. QED
  BY <1>4, <1>5

\* An element as an earlier use has left it.
LEMMA BaseInit == ASSUME TestInit PROVE Base
<1>0. /\ pc = "idle" /\ buf = Blank /\ op = "none" /\ found = {} /\ ~ repeated
      /\ ClientInit /\ SelectInit
  BY DEF TestInit, ClientInit
<1>1. /\ lcs = [u \in Users |-> IF u \in others THEN [n \in Nodes |-> "use"] ELSE NoFiles]
      /\ records = [u \in Users |-> IF u \in others THEN NRecords ELSE 0]
      /\ pin \in [Users -> Passwords \cup {None}]
      /\ \A u \in Users : (pin[u] = None) = (u \notin others)
      /\ data = [u \in Users |-> [f \in Files |->
                   IF u \in others THEN [k \in 1..NChunks |-> Value] ELSE Blank]]
  BY DEF TestInit
<1>2. CardTypeOK
  <2>1. NoFiles \in [Nodes -> Lcs] /\ [n \in Nodes |-> "use"] \in [Nodes -> Lcs]
    BY DEF NoFiles, Lcs
  <2>2. Value \in Values
    BY TestAssumption
  <2>3. /\ Blank \in [1..NChunks -> Values \cup {None}]
        /\ [k \in 1..NChunks |-> Value] \in [1..NChunks -> Values \cup {None}]
    BY <2>2 DEF Blank
  <2>4. 0 \in 0..NRecords /\ NRecords \in 0..NRecords
    BY ElementAssumption
  <2>5. lcs \in [Users -> [Nodes -> Lcs]]
    BY <1>1, <2>1
  <2>6. records \in [Users -> 0..NRecords]
    BY <1>1, <2>4
  <2>7. data \in [Users -> [Files -> [1..NChunks -> Values \cup {None}]]]
    BY <1>1, <2>3
  <2>8. dir \in Users \cup {Root} /\ node \in Nodes /\ auth \in BOOLEAN
        /\ unlisted \subseteq Users \cup Nodes
    BY <1>0, NodeNames DEF SelectInit
  <2>. QED
    BY <1>1, <2>5, <2>6, <2>7, <2>8 DEF CardTypeOK
<1>3. RspTypeOK
  BY <1>0, StorageAssumption DEF ClientInit, RspTypeOK, Status, Payloads
<1>4. ClientTypeOK
  <2>1. 0 \in 0..NRecords + NChunks /\ 0 \in 0..NChunks
    BY ElementAssumption
  <2>2. Blank \in [1..NChunks -> Payloads]
    BY DEF Blank, Payloads
  <2>. QED
    BY <1>0, <2>1, <2>2 DEF ClientInit, ClientTypeOK
<1>5. StorageInv
  <2>1. TypeOK
    BY <1>2, <1>3, <1>4 DEF TypeOK, RspTypeOK, ClientTypeOK
  <2>2. Fits(pc) /\ LoopOK /\ RspFits
    BY <1>0, FitsReturned DEF ClientInit, LoopOK, RspFits
  <2>. QED
    BY <2>1, <2>2 DEF StorageInv
<1>6. ASSUME NEW u \in Users
      PROVE  IF u \in others
             THEN /\ \A n \in Nodes : lcs[u][n] = "use"
                  /\ records[u] = NRecords /\ pin[u] # None
                  /\ \A f \in Files : data[u][f] = [k \in 1..NChunks |-> Value]
             ELSE (\A n \in Nodes : lcs[u][n] = "none") /\ records[u] = 0
  BY <1>1 DEF NoFiles
<1>7. ReliableInv
  <2>1. Calling /\ Located /\ HalfMade /\ Verified /\ Written /\ Copied
    BY <1>0 DEF Calling, Located, HalfMade, Verified, Written, Copied, VerifiedSteps,
                RegisterSteps, CreateSteps
  <2>2. UsedFileIsWhole
    BY <1>6, NodeNames, TestAssumption DEF UsedFileIsWhole
  <2>. QED
    BY <2>1, <2>2 DEF ReliableInv
<1>8. CompleteInv
  <2>1. NoOrphans /\ RegisteredIsComplete
    BY <1>6, NodeNames DEF NoOrphans, RegisteredIsComplete
  <2>2. Registering
    BY <1>0 DEF Registering, RegisterSteps
  <2>. QED
    BY <2>1, <2>2 DEF CompleteInv
<1>9. Settled
  <2>1. \A u \in Users, n \in Nodes : lcs[u][n] # "init"
    BY <1>6
  <2>. QED
    BY <1>0, <2>1 DEF Settled, NoneTorn, NotYetVerified, ArrMade, ArrSteps
<1>10. ResultsInv
  BY <1>0 DEF ResultsInv, Gathering, Reading, ChangesAreDone, ResultsAreTrue, Returned
<1>. QED
  BY <1>5, <1>7, <1>8, <1>9, <1>10 DEF Base, Whole, Trusted

\* Nothing else goes on where the user's DF is looked for.
LEMMA CheckStep ==
  ASSUME ClientStep, pc = "check df"
  PROVE  CheckUserDf
BY DEF ClientStep, FileStep, RegisterStep, SelectCryptoAid, OpenUserDf, CheckBf,
   VerifyPin, CreateUserDf, CreateUserEfArr, SelectUserEfArr, AddRecordEfArr,
   SelectArrUse, ActivateArr, CreateKf, SelectKf, ChangeRefData, SelectKfUse, ActivateKf,
   SelectDfUse, ActivateDf, SelectDfDelete, DeleteUserDf, ListFiles, FreeUninitialised,
   CreateBf, SelectBfWrite, WriteBf, SelectBfUse, ActivateBf, SelectBfRead, ReadNullSize,
   ReadBf, SelectBfDelete, DeleteBf, Checked, Ignored

\* Only the calls that are made to change files change any.
LEMMA ChangesAreAsked ==
  ASSUME Base, ClientStep, op \notin Changing \cup {"register"}
  PROVE  UNCHANGED <<lcs, records, pin, data>>
<1>0. StorageInv /\ Calling
  BY DEF Base, Whole, Trusted, ReliableInv
<1>1. ~ RegisterStep
  <2>1. RegisterStep => pc \in RegSteps
    BY DEF RegisterStep, CreateUserDf, CreateUserEfArr, SelectUserEfArr, AddRecordEfArr,
       SelectArrUse, ActivateArr, CreateKf, SelectKf, ChangeRefData, SelectKfUse, ActivateKf,
       SelectDfUse, ActivateDf, Checked, Ignored, RegSteps, RegisterSteps
  <2>. QED
    BY <1>0, <2>1 DEF StorageInv, Fits
<1>2. ~ (CreateBf \/ WriteBf \/ ActivateBf)
  BY <1>0 DEF CreateBf, WriteBf, ActivateBf, Checked, StorageInv, Fits, CreateSteps, Changing
<1>3. ~ (DeleteUserDf \/ DeleteBf)
  BY <1>0 DEF DeleteUserDf, DeleteBf, Checked, Calling, Changing
<1>4. QuietStep \/ CheckUserDf \/ SelectBfWrite \/ SelectBfUse
  BY <1>1, <1>2, <1>3 DEF ClientStep, FileStep, QuietStep
<1>. QED
  BY <1>4, QuietFilesKept

-----------------------------------------------------------------------------
(* A step of a call.                                                        *)

\* The head of a list that is well made: a call that changes the files of a
\* user who was registered before would come after a registration.
LEMMA HeadSpares ==
  ASSUME NEW held, NEW s, s # << >>, WellMade(s, held), Head(s).op \in Changing
  PROVE  Head(s).user \notin held
<1>1. s \in Seq(Items) /\ RegisterFirst(s, held)
  BY DEF WellMade
<1>2. 1 \in 1..Len(s) /\ Head(s) = s[1] /\ 1..1 - 1 = {}
  BY <1>1, TailIs
<1>. QED
  BY <1>1, <1>2 DEF RegisterFirst

\* Nothing of a user who was registered before changes.
LEMMA OthersStay ==
  ASSUME Base, TestInv, TestNext
  PROVE  \A u \in others : FilesOf(u)' = FilesOf(u)
<1>1. CASE UNCHANGED <<lcs, records, pin, data>>
  BY <1>1 DEF FilesOf
<1>2. CASE ~ UNCHANGED <<lcs, records, pin, data>>
  <2>1. ClientStep
    BY <1>2 DEF TestNext, RunTest, Open, Close, EndLoop, TestCall, ClientRuns, CheckResult,
       Finish, Call, CallerResumes, OpenChannel, CloseChannel, vars, cardVars, fileVars
  <2>2. op \in Changing \cup {"register"}
    BY <1>2, <2>1, ChangesAreAsked
  <2>3. pc # "idle" /\ todo # << >> /\ op = Head(todo).op /\ user = Head(todo).user
    <3>1. pc # "idle"
      BY <2>1, <2>2 DEF ClientStep, FileStep, RegisterStep, SelectCryptoAid, CheckUserDf,
         OpenUserDf, CheckBf, VerifyPin, CreateUserDf, CreateUserEfArr, SelectUserEfArr,
         AddRecordEfArr, SelectArrUse, ActivateArr, CreateKf, SelectKf, ChangeRefData,
         SelectKfUse, ActivateKf, SelectDfUse, ActivateDf, SelectDfDelete, DeleteUserDf,
         ListFiles, FreeUninitialised, CreateBf, SelectBfWrite, WriteBf, SelectBfUse,
         ActivateBf, SelectBfRead, ReadNullSize, ReadBf, SelectBfDelete, DeleteBf, Checked,
         Ignored
    <3>. QED
      BY <3>1 DEF TestInv, Asked
  <2>4. op \in Changing => user \notin others
    BY <2>3, HeadSpares DEF TestInv
  <2>5. OwnerStep
    BY <2>1, BaseStep DEF Next
  <2>6. others \subseteq Users /\ \A u \in others : lcs[u]["df"] = "use"
    BY DEF TestInv, TestTypeOK, Stand
  <2>. QED
    BY <2>2, <2>4, <2>5, <2>6 DEF OwnerStep, Changing
<1>. QED
  BY <1>1, <1>2

\* They stay registered.
LEMMA StandKept ==
  ASSUME Base, TestInv, TestNext
  PROVE  Stand'
<1>1. others' = others /\ Stand
  BY DEF TestInv, TestNext, RunTest, Open, Close, EndLoop, TestCall, ClientRuns, CheckResult,
     Finish, testVars
<1>2. \A u \in others : lcs'[u] = lcs[u]
  BY OthersStay DEF FilesOf
<1>. QED
  BY <1>1, <1>2 DEF Stand

\* The registration of a user who is registered ends at the first look.
LEMMA NotAgainKept ==
  ASSUME Base, TestInv, ClientStep, pc' # "idle", UNCHANGED <<todo, others>>
  PROVE  NotAgain'
<1>. SUFFICES ASSUME op = "register", user \in others
              PROVE  pc' \in {"select aid", "check df"} \/ (pc' = "returned" /\ ret' # "OK")
  BY CallKeeps DEF NotAgain, callVars
<1>1. pc \in Steps /\ lost' = 0 /\ StorageInv /\ "refuse" \notin Faults
  BY CallKeeps, BaseStep, TestAssumption DEF Next, Base, Whole, Trusted
<1>2. pc \in {"select aid", "check df"}
  BY <1>1 DEF TestInv, NotAgain, Steps
<1>3. CASE pc = "select aid"
  BY <1>3, AidStep DEF SelectCryptoAid, AfterAid, Goto, Return
<1>4. CASE pc = "check df"
  <2>1. CheckUserDf /\ user \in Users /\ lcs[user]["df"] = "use"
    BY <1>4, CheckStep DEF TestInv, TestTypeOK, Stand
  <2>2. Send(UserFile("df"))
    BY <2>1 DEF CheckUserDf
  <2>3. sw' = "ok"
    BY <1>1, <2>1, <2>2, SelectExchange, UserHome, NodeNames
  <2>. QED
    BY <2>1, <2>3 DEF CheckUserDf, Return
<1>. QED
  BY <1>2, <1>3, <1>4

\* A listing of files begins when the user's DF has been selected.
LEMMA ListsKnownKept ==
  ASSUME Base, ClientStep, pc' # "idle"
  PROVE  ListsKnown'
<1>. SUFFICES ASSUME pc' = "list first", op = "list_files"
              PROVE  lcs'[user]["df"] # "none"
  BY CallKeeps DEF ListsKnown, callVars
<1>1. lost' = 0 /\ StorageInv
  BY BaseStep DEF Next, Base, Whole, Trusted
<1>2. OpenUserDf
  BY <1>1, Ways
<1>3. user \in Users
  BY <1>1, <1>2 DEF OpenUserDf, StorageInv, Fits, Steps
<1>4. Send(UserFile("df")) /\ sw' = "ok"
  BY <1>2 DEF OpenUserDf, Return
<1>5. Home(user, "df") = user /\ "df" \in Nodes
  BY UserHome, NodeNames
<1>6. UNCHANGED lcs /\ lcs[user]["df"] # "none"
  BY <1>1, <1>3, <1>4, <1>5, SelectExchange
<1>. QED
  BY <1>6

\* The process dies only at the listing of an element without users: a user's
\* own DF is never without files.
LEMMA DiesEmpty ==
  ASSUME Base, TestInv, ClientStep, pc' = "idle"
  PROVE  others = {} /\ Restart
<1>1. /\ StorageInv /\ Gathering /\ NoneTorn /\ RegisteredIsComplete
      /\ lost = 0 /\ lost' = 0 /\ Faults = {} /\ MaxLost = 0
  BY BaseStep, TestAssumption
     DEF Next, Base, Whole, Trusted, Settled, CompleteInv, ResultsInv
<1>2. ~ Lose
  BY <1>1 DEF Lose
<1>3. FreeUninitialised
  BY <1>1, <1>2, Ways DEF ReadNullSize
<1>4. pc = "list first" /\ Children(dir) = {} /\ Restart
  BY <1>1, <1>2, <1>3 DEF FreeUninitialised
<1>5. CASE op = "list_users" /\ dir = Root
  BY <1>4, <1>5 DEF Children, TestInv, TestTypeOK, Stand
<1>6. CASE op = "list_files" /\ dir = user /\ user \in Users
  <2>1. lcs[user]["df"] # "none"
    BY <1>4, <1>6 DEF TestInv, ListsKnown
  <2>2. lcs[user]["df"] # "init"
    BY <1>1, <1>4, <1>6, NodeNames DEF NoneTorn, RegisterSteps, CreateSteps
  <2>3. lcs[user]["df"] = "use"
    <3>1. lcs[user]["df"] \in Lcs
      BY <1>1, <1>6, NodeNames DEF StorageInv, TypeOK, CardTypeOK
    <3>. QED
      BY <2>1, <2>2, <3>1 DEF Lcs
  <2>4. lcs[user]["arr"] = "use"
    BY <1>1, <1>6, <2>3 DEF RegisteredIsComplete
  <2>5. "arr" \in Children(dir)
    BY <1>6, <2>4, ElementAssumption DEF Children, EFs
  <2>. QED
    BY <1>4, <2>5
<1>. QED
  BY <1>1, <1>4, <1>5, <1>6 DEF Gathering

\* A user stays to be unregistered while a call for another goes on, or a call
\* that is not the unregistration.
LEMMA TracesInCall ==
  ASSUME Base, TestInv, ClientStep, pc' # "idle", UNCHANGED <<todo, test, mine, failed, dead, others>>
  PROVE  TracesGo'
<1>. SUFFICES ASSUME failed = {}, ~ dead, NEW u \in Users, Dirty(u)'
              PROVE  WillGo(u)'
  BY DEF TracesGo
<1>1. UNCHANGED callVars /\ pc \in Steps
  BY CallKeeps
<1>2. u \notin others /\ (lcs'[u] # NoFiles \/ pin'[u] # None)
  BY DEF Dirty
<1>3. WillGo(u) => WillGo(u)'
  BY <1>1 DEF WillGo, Keeps, callVars
<1>4. StorageInv /\ OwnerStep
  BY BaseStep DEF Next, Base, Whole, Trusted
<1>5. CASE FilesOf(u)' = FilesOf(u)
  <2>1. Dirty(u)
    BY <1>2, <1>5 DEF Dirty, FilesOf
  <2>. QED
    BY <1>3, <2>1 DEF TestInv, TracesGo
<1>6. CASE FilesOf(u)' # FilesOf(u)
  <2>1. user = u /\ (op = "register" \/ (op \in PasswordOps \ {"register"} /\ pwd = pin[u]))
    BY <1>4, <1>6 DEF OwnerStep
  <2>2. op \in Changing \cup {"register"}
    BY <1>6, ChangesAreAsked DEF FilesOf
  <2>3. pc # "idle" /\ todo # << >> /\ op = Head(todo).op /\ user = Head(todo).user
        /\ pwd = Head(todo).pwd
    BY <1>1, StepNames DEF TestInv, Asked
  <2>4. todo \in Seq(Items) /\ Head(todo) = todo[1] /\ Head(todo) \in Items /\ 1 \in 1..Len(todo)
    BY <2>3, TailIs DEF TestInv, WellMade
  <2>5. pwd \in Passwords
    <3>1. QuietStep => UNCHANGED <<lcs, records, pin, data>>
      BY QuietFilesKept
    <3>2. pc \notin {"select aid", "list first", "list next"}
      BY <1>6, <3>1 DEF FilesOf, ClientStep, FileStep, RegisterStep, QuietStep, CheckUserDf,
         CreateUserDf, CreateUserEfArr, SelectUserEfArr,
         AddRecordEfArr, SelectArrUse, ActivateArr, CreateKf, SelectKf, ChangeRefData,
         SelectKfUse, ActivateKf, SelectDfUse, ActivateDf, DeleteUserDf,
         CreateBf, SelectBfWrite, WriteBf, SelectBfUse,
         ActivateBf, DeleteBf, Checked, Ignored
    <3>. QED
      BY <1>1, <1>4, <2>2, <3>2 DEF StorageInv, Fits, PasswordOps, FileOps, Changing
  <2>6. CASE op = "register"
    <3>1. Registration(Head(todo))
      BY <2>3, <2>4, <2>5, <2>6, StorageAssumption DEF Items, Registration
    <3>2. Keeps \/ \E j \in 1 + 1..Len(todo) : todo[j].op = "unregister" /\ todo[j].user = u
      BY <2>1, <2>3, <2>4, <3>1 DEF TestInv, UnregisterAfter
    <3>3. WillGo(u)
      BY <2>1, <2>3, <2>4, <3>1, <3>2 DEF WillGo, Drops
    <3>. QED
      BY <1>3, <3>3
  <2>7. CASE op # "register"
    <3>1. pin[u] # None
      BY <2>1, <2>5, <2>7, ElementAssumption
    <3>2. Dirty(u)
      BY <1>2, <3>1 DEF Dirty
    <3>. QED
      BY <1>3, <3>2 DEF TestInv, TracesGo
  <2>. QED
    BY <2>6, <2>7
<1>. QED
  BY <1>5, <1>6

\* The empty list.
LEMMA NothingToDo ==
  ASSUME NEW held, NEW kept \in BOOLEAN
  PROVE  /\ WellMade(<< >>, held) /\ UnregisterAfter(<< >>, kept) /\ ~ HasLoop(<< >>)
         /\ \A u : ~ Drops(<< >>, u)
BY DEF WellMade, RegisterFirst, LoopLast, SearchLast, UnregisterAfter, HasLoop, Drops

\* The client's step of a call.
LEMMA ClientRunsKeeps == ASSUME Base, TestInv, ClientRuns PROVE TestInv'
<1>0. /\ ClientStep /\ UNCHANGED <<test, before, mine, failed, others>> /\ Stand'
      /\ TestTypeOK /\ WellMade(todo, others) /\ UnregisterAfter(todo, Keeps) /\ Asked
      /\ Stand /\ NotAgain /\ DiesOnlyWhenEmpty
  BY StandKept DEF ClientRuns, TestInv, TestNext
<1>1. CASE pc' # "idle"
  <2>1. UNCHANGED <<dead, todo, queue>> /\ UNCHANGED callVars /\ pc \in Steps
    BY <1>0, <1>1, CallKeeps DEF ClientRuns
  <2>2. TestTypeOK' /\ WellMade(todo, others)'
    BY <1>0, <2>1 DEF TestTypeOK
  <2>3. UnregisterAfter(todo, Keeps)'
    BY <1>0, <2>1 DEF Keeps
  <2>4. Asked'
    BY <1>0, <2>1, StepNames DEF Asked, callVars
  <2>5. NotAgain' /\ ListsKnown'
    BY <1>0, <1>1, <2>1, NotAgainKept, ListsKnownKept
  <2>6. TracesGo'
    BY <1>0, <1>1, <2>1, TracesInCall
  <2>7. DiesOnlyWhenEmpty'
    BY <1>0, <2>1 DEF DiesOnlyWhenEmpty
  <2>. QED
    BY <1>0, <2>2, <2>3, <2>4, <2>5, <2>6, <2>7 DEF TestInv
<1>2. CASE pc' = "idle"
  <2>1. dead' = TRUE /\ todo' = << >> /\ queue' = << >> /\ others = {}
    BY <1>0, <1>2, DiesEmpty DEF ClientRuns
  <2>2. Keeps' \in BOOLEAN
    BY DEF Keeps
  <2>3. WellMade(todo', others') /\ UnregisterAfter(todo', Keeps') /\ ~ HasLoop(todo')
    BY <2>1, <2>2, NothingToDo
  <2>4. TestTypeOK'
    BY <1>0, <2>1, <2>3 DEF TestTypeOK
  <2>5. Asked' /\ NotAgain' /\ ListsKnown'
    BY <1>2 DEF Asked, NotAgain, ListsKnown
  <2>6. TracesGo' /\ DiesOnlyWhenEmpty'
    BY <1>0, <2>1 DEF TracesGo, DiesOnlyWhenEmpty
  <2>. QED
    BY <1>0, <2>3, <2>4, <2>5, <2>6 DEF TestInv
<1>. QED
  BY <1>1, <1>2

-----------------------------------------------------------------------------
(* The other steps of the tests.                                            *)

\* A user whose unregistration is not at the head has it in the rest.
LEMMA DropsTail ==
  ASSUME NEW s \in Seq(Items), s # << >>, NEW u, Drops(s, u),
         ~ (Head(s).op = "unregister" /\ Head(s).user = u)
  PROVE  Drops(Tail(s), u)
<1>1. PICK k \in 1..Len(s) : s[k].op = "unregister" /\ s[k].user = u
  BY DEF Drops
<1>2. k \in 2..Len(s)
  BY <1>1, TailIs
<1>3. k - 1 \in 1..Len(Tail(s)) /\ Tail(s)[k - 1] = s[k]
  BY <1>2, TailIs
<1>. QED
  BY <1>1, <1>3 DEF Drops

\* The rest of a list.
LEMMA RestIs ==
  ASSUME TestInv, todo # << >>, Head(todo).op # "loop",
         ~ (Registration(Head(todo)) /\ Head(todo).user \in others)
  PROVE  /\ WellMade(Tail(todo), others) /\ UnregisterAfter(Tail(todo), Keeps)
         /\ HasLoop(Tail(todo)) <=> HasLoop(todo)
<1>1. todo \in Seq(Items) /\ WellMade(todo, others) /\ UnregisterAfter(todo, Keeps)
  BY DEF TestInv, WellMade
<1>2. Keeps \in BOOLEAN
  BY DEF Keeps
<1>3. WellMade(Tail(todo), others)
  BY <1>1, TailWellMade
<1>4. UnregisterAfter(Tail(todo), Keeps)
  BY <1>1, <1>2, TailKeeps
<1>5. HasLoop(Tail(todo)) <=> HasLoop(todo)
  BY <1>1, <1>2, TailKeeps
<1>. QED
  BY <1>3, <1>4, <1>5

\* Between two calls nothing is asked of the client.
LEMMA BetweenCalls ==
  ASSUME pc' = "idle", UNCHANGED <<dead, others>>, DiesOnlyWhenEmpty
  PROVE  Asked' /\ NotAgain' /\ ListsKnown' /\ DiesOnlyWhenEmpty'
BY DEF Asked, NotAgain, ListsKnown, DiesOnlyWhenEmpty

\* The next test, or its line commented out.
LEMMA RunTestKeeps == ASSUME Base, TestInv, RunTest PROVE TestInv'
<1>1. /\ pc = "idle" /\ todo = << >> /\ queue # << >> /\ queue' = Tail(queue)
      /\ before' = 0 /\ mine' = {} /\ pc' = "idle" /\ UNCHANGED <<dead, others, failed, lcs, pin>>
      /\ (test' = Head(queue) /\ todo' = Begin(Head(queue))) \/ UNCHANGED <<test, todo>>
  BY DEF RunTest, vars, clientVars, cardVars, fileVars
<1>2. queue \in Seq(TestNames) /\ others \subseteq Users /\ DiesOnlyWhenEmpty
  BY DEF TestInv, TestTypeOK
<1>3. queue' \in Seq(TestNames) /\ Head(queue) \in TestNames
  BY <1>1, <1>2, HeadTailProperties
<1>4. Keeps \in BOOLEAN /\ Keeps' \in BOOLEAN
  BY DEF Keeps
<1>5. /\ WellMade(todo', others) /\ UnregisterAfter(todo', Keeps')
      /\ HasLoop(todo') => test' \in SearchTests
  <2>1. CASE UNCHANGED <<test, todo>>
    BY <1>1, <1>4, <2>1, NothingToDo
  <2>2. CASE test' = Head(queue) /\ todo' = Begin(Head(queue))
    BY <1>3, <1>4, <2>2, BeginIs
  <2>. QED
    BY <1>1, <2>1, <2>2
<1>6. TestTypeOK'
  BY <1>1, <1>2, <1>3, <1>5 DEF TestTypeOK
<1>7. \A u : ~ WillGo(u)
  BY <1>1, <1>4, NothingToDo DEF WillGo, Keeps
<1>8. TracesGo'
  BY <1>1, <1>7 DEF TracesGo, Dirty, TestInv
<1>9. Stand'
  BY StandKept DEF TestNext
<1>. QED
  BY <1>1, <1>2, <1>5, <1>6, <1>8, <1>9, BetweenCalls DEF TestInv

\* The channel is opened or closed.
LEMMA ChannelKeeps == ASSUME Base, TestInv, Open \/ Close PROVE TestInv'
<1>1. /\ todo # << >> /\ Head(todo).op \in {"open", "close"} /\ todo' = Tail(todo)
      /\ pc = "idle" /\ pc' = "idle"
      /\ UNCHANGED <<queue, test, before, mine, failed, dead, others, lcs, pin>>
  BY DEF Open, Close, AtLocal, OpenChannel, CloseChannel, vars, clientVars, cardVars, fileVars
<1>2. TestTypeOK /\ DiesOnlyWhenEmpty /\ todo \in Seq(Items)
  BY DEF TestInv, WellMade
<1>3. /\ WellMade(todo', others) /\ UnregisterAfter(todo', Keeps)
      /\ HasLoop(todo') <=> HasLoop(todo)
  BY <1>1, RestIs DEF Registration
<1>4. Keeps' <=> Keeps
  BY <1>1, <1>3 DEF Keeps
<1>5. UnregisterAfter(todo', Keeps')
  BY <1>3, <1>4 DEF UnregisterAfter
<1>6. TestTypeOK'
  BY <1>1, <1>2, <1>3 DEF TestTypeOK
<1>7. ASSUME NEW u, WillGo(u)
      PROVE  WillGo(u)'
  <2>1. Drops(todo, u) => Drops(todo', u)
    BY <1>1, <1>2, DropsTail
  <2>. QED
    BY <1>1, <1>4, <1>7, <2>1 DEF WillGo
<1>8. TracesGo'
  BY <1>1, <1>7 DEF TracesGo, Dirty, TestInv
<1>9. Stand'
  BY StandKept DEF TestNext
<1>. QED
  BY <1>1, <1>2, <1>3, <1>5, <1>6, <1>8, <1>9, BetweenCalls DEF TestInv

\* A call is made.
LEMMA TestCallKeeps == ASSUME Base, TestInv, TestCall PROVE TestInv'
<1>1. /\ todo # << >> /\ pc = "idle" /\ pc' = "select aid" /\ UNCHANGED <<lcs, pin>>
      /\ op' = Head(todo).op /\ user' = Head(todo).user /\ pwd' = Head(todo).pwd
      /\ UNCHANGED <<queue, test, todo, before, mine, failed, dead, others>>
  BY DEF TestCall, Call, testVars, cardVars, fileVars
<1>2. /\ TestTypeOK' /\ WellMade(todo, others)' /\ UnregisterAfter(todo, Keeps)'
      /\ DiesOnlyWhenEmpty'
  BY <1>1 DEF TestInv, TestTypeOK, Keeps, DiesOnlyWhenEmpty
<1>3. Asked' /\ NotAgain' /\ ListsKnown'
  BY <1>1 DEF Asked, NotAgain, ListsKnown
<1>4. ASSUME NEW u, WillGo(u)
      PROVE  WillGo(u)'
  BY <1>1, <1>4 DEF WillGo, Keeps
<1>5. TracesGo'
  BY <1>1, <1>4 DEF TracesGo, Dirty, TestInv
<1>6. Stand'
  BY StandKept DEF TestNext
<1>. QED
  BY <1>2, <1>3, <1>5, <1>6 DEF TestInv

\* main closes the channel.
LEMMA FinishKeeps == ASSUME Base, TestInv, Finish PROVE TestInv'
<1>1. /\ pc = "idle" /\ pc' = "idle" /\ UNCHANGED <<lcs, pin>>
      /\ UNCHANGED <<queue, test, todo, before, mine, failed, dead, others>>
  BY DEF Finish, CloseChannel, testVars, cardVars, fileVars
<1>2. /\ TestTypeOK' /\ WellMade(todo, others)' /\ UnregisterAfter(todo, Keeps)'
      /\ DiesOnlyWhenEmpty
  BY <1>1 DEF TestInv, TestTypeOK, Keeps
<1>3. ASSUME NEW u, WillGo(u)
      PROVE  WillGo(u)'
  BY <1>1, <1>3 DEF WillGo, Keeps
<1>4. TracesGo'
  BY <1>1, <1>3 DEF TracesGo, Dirty, TestInv
<1>5. Stand'
  BY StandKept DEF TestNext
<1>. QED
  BY <1>1, <1>2, <1>4, <1>5, BetweenCalls DEF TestInv


\* What is done with one user is well made when the registration stands first.
LEMMA ActsWellMade ==
  ASSUME NEW held, NEW u, NEW s \in Seq(Acts(u)), RegisterFirst(s, held)
  PROVE  WellMade(s, held) /\ ~ HasLoop(s) /\ s \in Seq(PlainItems)
<1>1. s \in Seq(PlainItems) /\ s \in Seq(Items)
  BY DEF Acts, PlainItems
<1>2. \A k \in 1..Len(s) : s[k] \in PlainItems
  BY <1>1, ElementOfSeq
<1>3. LoopLast(s) /\ SearchLast(s) /\ ~ HasLoop(s)
  BY <1>2 DEF LoopLast, SearchLast, HasLoop, PlainItems
<1>. QED
  BY <1>1, <1>3 DEF WellMade

\* The end of the loop over the users.
LEMMA EndLoopKeeps == ASSUME Base, TestInv, EndLoop PROVE TestInv'
<1>1. /\ todo # << >> /\ Head(todo).op = "loop" /\ pc = "idle" /\ pc' = "idle"
      /\ UNCHANGED <<queue, test, before, mine, dead, others, lcs, pin>>
  BY DEF EndLoop, AtLocal, vars, clientVars, cardVars, fileVars
<1>2. TestTypeOK /\ DiesOnlyWhenEmpty /\ todo \in Seq(Items) /\ LoopLast(todo)
  BY DEF TestInv, WellMade
<1>3. /\ 1 \in 1..Len(todo) /\ todo[1] = Head(todo) /\ Len(todo) = 1
      /\ HasLoop(todo) /\ test \in SearchTests
  <2>1. Len(todo) \in Nat \ {0} /\ todo[1] = Head(todo)
    BY <1>1, <1>2, TailIs
  <2>2. 1 \in 1..Len(todo)
    BY <2>1
  <2>3. Len(todo) = 1 /\ HasLoop(todo)
    BY <1>1, <1>2, <2>1, <2>2 DEF LoopLast, HasLoop
  <2>. QED
    BY <1>2, <2>1, <2>2, <2>3 DEF TestTypeOK
<1>4. mine \subseteq UserArgs /\ mine \cap others = {} /\ before \in Nat /\ others \subseteq Users
  BY <1>2 DEF TestTypeOK, UserArgs
<1>5. \A u : ~ Drops(todo, u)
  <2>1. 1..Len(todo) = {1}
    BY <1>3
  <2>. QED
    BY <1>1, <1>3, <2>1 DEF Drops
<1>. DEFINE Lists == WellMade(todo', others) /\ UnregisterAfter(todo', Keeps') /\ ~ HasLoop(todo')
<1>6. Keeps \in BOOLEAN /\ Keeps' \in BOOLEAN
  BY DEF Keeps
<1>7. ASSUME test = "create_delete_file_test_2"
      PROVE  Lists /\ TracesGo'
  <2>1. todo' = << >> /\ failed' = failed \cup {test}
    BY <1>7 DEF EndLoop
  <2>2. Lists
    BY <1>6, <2>1, NothingToDo
  <2>3. TracesGo'
    BY <2>1 DEF TracesGo
  <2>. QED
    BY <2>2, <2>3
<1>8. ASSUME test \in {"check_password_size_test", "check_file_id_test"}
      PROVE  Lists /\ TracesGo'
  <2>1. PICK u \in UserArgs : todo' = Found(test, u) /\ UNCHANGED failed
    BY <1>8 DEF EndLoop, UserArgs
  <2>2. test \notin KeepingTests
    BY <1>8 DEF KeepingTests
  <2>. DEFINE s == Found(test, u)
              kept == test \in KeepingTests
  <2>3. s \in Seq(Acts(u)) /\ RegisterFirst(s, others) /\ UnregisterAfter(s, kept)
    BY <1>3, <1>4, FoundIs
  <2>. HIDE DEF s
  <2>4. WellMade(s, others) /\ ~ HasLoop(s)
    BY <2>3, ActsWellMade
  <2>5. Lists
    BY <1>1, <2>1, <2>2, <2>3, <2>4 DEF Keeps, s, UnregisterAfter
  <2>6. TracesGo'
    BY <1>1, <1>5, <2>1, <2>2 DEF TestInv, TracesGo, Dirty, WillGo, Keeps
  <2>. QED
    BY <2>5, <2>6
<1>9. ASSUME test \notin {"check_password_size_test", "create_delete_file_test_2",
                         "check_file_id_test"}
      PROVE  Lists /\ TracesGo'
  <2>. DEFINE s == AfterLoop(test) \o <<Local("close")>>
  <2>1. todo' = s /\ UNCHANGED failed
    BY <1>9 DEF EndLoop
  <2>2. s \in Seq(After) /\ (test \in KeepingTests => \A u \in mine : Drops(s, u))
    BY <1>3, <1>4, <1>9, AfterIs
  <2>. HIDE DEF s
  <2>3. Lists
    BY <1>4, <1>6, <2>1, <2>2, AfterWellMade
  <2>4. TracesGo'
    BY <1>1, <1>5, <2>1, <2>2 DEF TestInv, TracesGo, Dirty, WillGo, Keeps
  <2>. QED
    BY <2>3, <2>4
<1>10. Lists /\ TracesGo'
  BY <1>7, <1>8, <1>9
<1>11. TestTypeOK'
  BY <1>1, <1>2, <1>10 DEF TestTypeOK
<1>12. Stand'
  BY StandKept DEF TestNext
<1>. QED
  BY <1>1, <1>2, <1>10, <1>11, <1>12, BetweenCalls DEF TestInv

\* Ids that are listed are finitely many.
LEMMA ListedFinite == ASSUME Base PROVE IsFiniteSet(found) /\ Cardinality(found) \in Nat
<1>1. found \subseteq Users \cup Nodes
  BY DEF Base, Whole, Trusted, StorageInv, TypeOK
<1>2. IsFiniteSet(Users \cup Nodes)
  <2>1. IsFiniteSet({"df"}) /\ IsFiniteSet({"arr"}) /\ IsFiniteSet({"kf"})
    BY FS_Singleton
  <2>2. IsFiniteSet({"kf"} \cup Files)
    BY <2>1, ElementAssumption, FS_Union
  <2>3. IsFiniteSet({"arr"} \cup ({"kf"} \cup Files))
    BY <2>1, <2>2, FS_Union
  <2>4. IsFiniteSet({"df"} \cup ({"arr"} \cup ({"kf"} \cup Files)))
    BY <2>1, <2>3, FS_Union
  <2>5. IsFiniteSet(Users \cup ({"df"} \cup ({"arr"} \cup ({"kf"} \cup Files))))
    BY <2>4, ElementAssumption, FS_Union
  <2>6. Users \cup ({"df"} \cup ({"arr"} \cup ({"kf"} \cup Files))) = Users \cup Nodes
    BY DEF Nodes, EFs
  <2>. QED
    BY <2>5, <2>6
<1>3. IsFiniteSet(found)
  BY <1>1, <1>2, FS_Subset
<1>. QED
  BY <1>3, FS_CardinalityType

\* A user who was registered before is not registered by a test.
LEMMA NewUsers ==
  ASSUME Base, TestInv, pc = "returned", op = "register", ret = "OK"
  PROVE  user \in (Users \cup {BadUser}) \ others
BY DEF TestInv, NotAgain, Base, Whole, Trusted, StorageInv, TypeOK

\* What an assertion that holds leaves to be done.
LEMMA RemainingIs ==
  ASSUME Base, TestInv, CheckResult, Holds(Head(todo))
  PROVE  /\ WellMade(todo', others) /\ UnregisterAfter(todo', Keeps')
         /\ HasLoop(todo') => test \in SearchTests
         /\ \A u \in Users : Dirty(u) /\ WillGo(u) => WillGo(u)'
<1>. DEFINE item == Head(todo)
<1>1. /\ pc = "returned" /\ pc' = "idle" /\ todo' = Remaining(item) /\ UNCHANGED test
      /\ before \in Nat /\ Keeps \in BOOLEAN /\ Keeps' \in BOOLEAN
      /\ mine' = IF item.op = "register" /\ ret = "OK" THEN mine \cup {user} ELSE mine
  BY DEF CheckResult, CallerResumes, Idle, TestInv, TestTypeOK, Keeps
<1>2. /\ todo # << >> /\ op = item.op /\ user = item.user
      /\ todo \in Seq(Items) /\ SearchLast(todo) /\ (HasLoop(todo) => test \in SearchTests)
  BY <1>1 DEF TestInv, Asked, WellMade, TestTypeOK
<1>3. /\ item \in Items /\ item = todo[1] /\ Len(todo) \in Nat \ {0} /\ 1 \in 1..Len(todo)
      /\ Tail(todo) \in Seq(Items)
  BY <1>2, TailIs
<1>4. op # "loop"
  <2>1. op \in Ops \cup {"none"}
    BY DEF Base, Whole, Trusted, StorageInv, TypeOK
  <2>. QED
    BY <2>1 DEF Ops
<1>5. ~ (Registration(item) /\ item.user \in others)
  <2>. SUFFICES ASSUME Registration(item)
                PROVE  item.user \notin others
    OBVIOUS
  <2>1. op = "register" /\ ret = "OK"
    BY <1>2 DEF Registration, Holds
  <2>. QED
    BY <1>1, <1>2, <2>1, NewUsers
<1>6. /\ WellMade(Tail(todo), others) /\ UnregisterAfter(Tail(todo), Keeps)
      /\ HasLoop(Tail(todo)) <=> HasLoop(todo)
  BY <1>2, <1>4, <1>5, RestIs
<1>7. CASE item.want = "search" /\ ~ exists
  <2>. DEFINE s == Found(test, user)
              kept == test \in KeepingTests
              rest == Tail(todo)
  <2>0. /\ op = "is_registered" /\ todo[Len(todo)].op = "loop"
        /\ \A j \in 1..Len(todo) : Searching(todo[j])
    BY <1>2, <1>3, <1>7 DEF Items, SearchLast
  <2>1. /\ op = "is_registered" /\ todo[Len(todo)].op = "loop"
        /\ \A j \in 1..Len(todo) : todo[j].op \in {"is_registered", "loop"}
    <3>1. \A j \in 1..Len(todo) : todo[j] \in Items
      BY <1>2, ElementOfSeq
    <3>. QED
      BY <2>0, <3>1 DEF Searching, Items
  <2>2. HasLoop(todo) /\ test \in SearchTests
    BY <1>2, <1>3, <2>1 DEF HasLoop
  <2>3. user \in UserArgs
    BY <1>2, <1>3 DEF Items, UserArgs
  <2>4. todo' = s \o (IF Breaks(test) THEN << >> ELSE rest)
    BY <1>1, <1>2, <1>7 DEF Remaining
  <2>5. s \in Seq(Acts(user)) /\ RegisterFirst(s, others) /\ UnregisterAfter(s, kept)
    BY <1>1, <2>2, <2>3, FoundIs
  <2>6. mine' = mine
    BY <1>1, <1>2, <2>1
  <2>7. \A u : ~ Drops(todo, u)
    BY <2>1 DEF Drops
  <2>. HIDE DEF s
  <2>8. WellMade(s, others) /\ ~ HasLoop(s) /\ s \in Seq(PlainItems)
    BY <2>5, ActsWellMade
  <2>9. ASSUME NEW u \in Users, WillGo(u)
        PROVE  Keeps /\ u \in mine
    BY <1>2, <2>1, <2>7, <2>9 DEF WillGo, Registration
  <2>10. CASE Breaks(test)
    <3>1. ~ kept
      BY <2>10 DEF Breaks, KeepingTests
    <3>2. s \in Seq(Items)
      BY <2>8 DEF WellMade
    <3>3. todo' = s
      BY <2>4, <2>10, <3>2, ConcatEmptySeq
    <3>4. ~ Keeps /\ ~ Keeps'
      BY <1>1, <3>1 DEF Keeps
    <3>5. UnregisterAfter(todo', Keeps')
      BY <2>5, <3>1, <3>3, <3>4 DEF UnregisterAfter
    <3>. QED
      BY <2>8, <2>9, <3>3, <3>4, <3>5
  <2>11. CASE ~ Breaks(test)
    <3>1. todo' = s \o rest
      BY <2>4, <2>11
    <3>2. /\ s \in Seq(Items) /\ rest \in Seq(Items) /\ RegisterFirst(rest, others)
          /\ LoopLast(rest) /\ SearchLast(rest) /\ HasLoop(rest)
      BY <1>6, <2>2, <2>8 DEF WellMade
    <3>3. kept \in BOOLEAN
      OBVIOUS
    <3>4. Keeps <=> kept
      BY <2>2 DEF Keeps
    <3>5. UnregisterAfter(rest, kept)
      BY <1>6, <3>4 DEF UnregisterAfter
    <3>. HIDE DEF kept, rest
    <3>6. s \o rest \in Seq(Items)
      BY <3>2, ConcatIs
    <3>7. RegisterFirst(s \o rest, others)
      BY <2>5, <3>2, RegisterConcat
    <3>8. UnregisterAfter(s \o rest, kept)
      BY <2>5, <3>2, <3>3, <3>5, UnregisterConcat
    <3>9. LoopLast(s \o rest) /\ SearchLast(s \o rest) /\ HasLoop(s \o rest)
      BY <2>8, <3>2, SearchConcat
    <3>10. Keeps' <=> kept
      BY <1>1, <3>1, <3>9 DEF Keeps, kept
    <3>11. UnregisterAfter(todo', Keeps')
      BY <3>1, <3>8, <3>10 DEF UnregisterAfter
    <3>12. WellMade(todo', others)
      BY <3>1, <3>6, <3>7, <3>9 DEF WellMade
    <3>13. \A u \in Users : WillGo(u) => WillGo(u)'
      BY <2>6, <2>9, <3>4, <3>10 DEF WillGo
    <3>. QED
      BY <2>2, <3>11, <3>12, <3>13
  <2>. QED
    BY <2>10, <2>11
<1>8. CASE item.want = "each"
  <2>. DEFINE a == [k \in 1..Cardinality(found) |-> IsRegistered(SetToSeq(found)[k], "registered")]
              rest == Tail(todo)
  <2>1. op = "list_users" /\ ret = "OK" /\ todo' = a \o rest
    BY <1>1, <1>2, <1>3, <1>8 DEF Items, Holds, Remaining
  <2>2. found \subseteq UserArgs
    BY <1>1, <2>1 DEF Base, ResultsInv, ResultsAreTrue, Returned, UserArgs
  <2>3. a \in Seq(Asks)
    <3>. DEFINE n == Cardinality(found)
    <3>1. n \in Nat /\ \A k \in 1..n : SetToSeq(found)[k] \in found
      BY ListedFinite, SetToSeqIs
    <3>2. \A u \in UserArgs : IsRegistered(u, "registered") \in Asks
      BY ItemsAre
    <3>. HIDE DEF n
    <3>3. [k \in 1..n |-> IsRegistered(SetToSeq(found)[k], "registered")] \in Seq(Asks)
      BY <2>2, <3>1, <3>2
    <3>. QED
      BY <3>3 DEF n
  <2>. HIDE DEF a
  <2>. DEFINE kept == Keeps
  <2>4. WellMade(rest, others) /\ UnregisterAfter(rest, kept) /\ kept \in BOOLEAN
    BY <1>1, <1>6
  <2>. HIDE DEF rest, kept
  <2>5. WellMade(a \o rest, others) /\ UnregisterAfter(a \o rest, kept)
    BY <2>3, <2>4, AsksBefore
  <2>6. HasLoop(a \o rest) <=> HasLoop(rest)
    BY <2>3, <2>4, AsksBefore
  <2>7. Keeps' <=> Keeps
    BY <1>1, <1>6, <2>1, <2>6 DEF Keeps, rest
  <2>8. UnregisterAfter(todo', Keeps')
    BY <2>1, <2>5, <2>7 DEF UnregisterAfter, kept
  <2>9. ASSUME NEW u, WillGo(u)
        PROVE  WillGo(u)'
    <3>1. Drops(todo, u) \/ (Keeps /\ u \in mine)
      BY <1>2, <2>1, <2>9 DEF WillGo, Registration
    <3>2. ASSUME Drops(todo, u)
          PROVE  Drops(todo', u)
      <4>1. Drops(rest, u)
        BY <1>2, <2>1, <3>2, DropsTail DEF rest
      <4>2. a \in Seq(Items) /\ rest \in Seq(Items)
        BY <1>3, <2>3, AsksOnly DEF rest
      <4>. QED
        BY <2>1, <4>1, <4>2, DropsConcat
    <3>3. mine' = mine
      BY <1>1, <1>2, <2>1
    <3>. QED
      BY <2>7, <3>1, <3>2, <3>3 DEF WillGo
  <2>. QED
    BY <1>2, <1>6, <2>1, <2>5, <2>6, <2>8, <2>9 DEF rest
<1>9. CASE ~ (item.want = "search" /\ ~ exists) /\ item.want # "each"
  <2>1. todo' = Tail(todo)
    BY <1>1, <1>9 DEF Remaining
  <2>2. Keeps' <=> Keeps
    BY <1>1, <1>6, <2>1 DEF Keeps
  <2>3. UnregisterAfter(todo', Keeps')
    BY <1>6, <2>1, <2>2 DEF UnregisterAfter
  <2>4. ASSUME NEW u \in Users, Dirty(u), WillGo(u)
        PROVE  WillGo(u)'
    <3>1. CASE Drops(todo, u)
      <4>1. ~ (item.op = "unregister" /\ item.user = u)
        <5>. SUFFICES ASSUME item.op = "unregister", item.user = u
                      PROVE  FALSE
          OBVIOUS
        <5>1. ret = "OK"
          BY <1>3 DEF Items, Holds
        <5>2. lcs[u] = NoFiles /\ pin[u] = None
          BY <1>1, <1>2, <5>1 DEF Base, ResultsInv, ChangesAreDone, Returned
        <5>. QED
          BY <2>4, <5>2 DEF Dirty
      <4>. QED
        BY <1>2, <2>1, <3>1, <4>1, DropsTail DEF WillGo
    <3>2. CASE Keeps /\ u \in mine
      BY <1>1, <2>2, <3>2 DEF WillGo
    <3>3. CASE Keeps /\ Registration(item) /\ user = u
      <4>1. item.op = "register" /\ ret = "OK"
        BY <3>3 DEF Registration, Holds
      <4>. QED
        BY <1>1, <2>2, <3>3, <4>1 DEF WillGo
    <3>. QED
      BY <2>4, <3>1, <3>2, <3>3 DEF WillGo
  <2>. QED
    BY <1>2, <1>6, <2>1, <2>3, <2>4
<1>. QED
  BY <1>7, <1>8, <1>9

\* The assertions on a call's outcome.
LEMMA CheckResultKeeps == ASSUME Base, TestInv, CheckResult PROVE TestInv'
<1>. DEFINE item == Head(todo)
<1>1. /\ pc = "returned" /\ pc' = "idle" /\ UNCHANGED <<queue, test, dead, others, lcs, pin>>
      /\ todo' = IF Holds(item) THEN Remaining(item) ELSE << >>
      /\ failed' = failed \cup {t \in {test} : ~ Holds(item)}
      /\ before' = IF item.want = "first" THEN Cardinality(found) ELSE before
      /\ mine' = IF item.op = "register" /\ ret = "OK" THEN mine \cup {user} ELSE mine
  BY DEF CheckResult, CallerResumes, Idle, cardVars, fileVars
<1>2. /\ TestTypeOK /\ DiesOnlyWhenEmpty /\ op = item.op /\ Keeps' \in BOOLEAN
  BY <1>1 DEF TestInv, Asked, Keeps
<1>3. /\ WellMade(todo', others) /\ UnregisterAfter(todo', Keeps')
      /\ HasLoop(todo') => test \in SearchTests
  <2>1. CASE Holds(item)
    BY <2>1, RemainingIs
  <2>2. CASE ~ Holds(item)
    BY <1>1, <1>2, <2>2, NothingToDo
  <2>. QED
    BY <2>1, <2>2
<1>4. TestTypeOK'
  <2>1. before' \in Nat
    BY <1>1, <1>2, ListedFinite DEF TestTypeOK
  <2>2. mine' \subseteq (Users \cup {BadUser}) \ others
    BY <1>1, <1>2, NewUsers DEF TestTypeOK
  <2>. QED
    BY <1>1, <1>2, <1>3, <2>1, <2>2 DEF TestTypeOK
<1>5. TracesGo'
  <2>1. CASE Holds(item)
    <3>1. \A u \in Users : Dirty(u) /\ WillGo(u) => WillGo(u)'
      BY <2>1, RemainingIs
    <3>2. failed' = failed
      BY <1>1, <2>1
    <3>. QED
      BY <1>1, <3>1, <3>2 DEF TestInv, TracesGo, Dirty
  <2>2. CASE ~ Holds(item)
    BY <1>1, <2>2 DEF TracesGo
  <2>. QED
    BY <2>1, <2>2
<1>6. Stand'
  BY StandKept DEF TestNext
<1>. QED
  BY <1>1, <1>2, <1>3, <1>4, <1>5, <1>6, BetweenCalls DEF TestInv

-----------------------------------------------------------------------------
(* The theorems.                                                            *)

\* The tests begin with nothing to undo.
LEMMA TestBegins == ASSUME TestInit PROVE TestInv
<1>1. /\ queue = Tests /\ others \subseteq Users /\ mine = {} /\ before = 0
      /\ todo = << >> /\ pc = "idle" /\ dead = FALSE
  BY DEF TestInit, ClientInit
<1>2. lcs = [u \in Users |-> IF u \in others THEN [n \in Nodes |-> "use"] ELSE NoFiles]
      /\ \A u \in Users : (pin[u] = None) = (u \notin others)
  BY DEF TestInit
<1>3. Keeps \in BOOLEAN
  BY DEF Keeps
<1>4. WellMade(todo, others) /\ UnregisterAfter(todo, Keeps) /\ ~ HasLoop(todo)
  BY <1>1, <1>3, NothingToDo
<1>5. Tests \in Seq(TestNames)
  BY DEF Tests, TestNames, SearchTests, KeepingTests
<1>6. TestTypeOK
  BY <1>1, <1>4, <1>5 DEF TestTypeOK
<1>7. Asked /\ NotAgain /\ ListsKnown /\ DiesOnlyWhenEmpty
  BY <1>1 DEF Asked, NotAgain, ListsKnown, DiesOnlyWhenEmpty
<1>8. Stand
  BY <1>1, <1>2, NodeNames DEF Stand
<1>9. \A u \in Users : ~ Dirty(u)
  BY <1>2 DEF Dirty
<1>. QED
  BY <1>4, <1>6, <1>7, <1>8, <1>9 DEF TestInv, TracesGo

\* Each step of the tests keeps what they have still to do.
LEMMA TestKeeps == ASSUME Base, TestInv, TestNext PROVE TestInv'
BY RunTestKeeps, ChannelKeeps, EndLoopKeeps, TestCallKeeps, ClientRunsKeeps,
   CheckResultKeeps, FinishKeeps DEF TestNext

\* A step that changes nothing.
LEMMA TestStutter == ASSUME TestInv, UNCHANGED allVars PROVE TestInv'
<1>1. /\ UNCHANGED <<queue, test, todo, before, mine, failed, dead, others>>
      /\ UNCHANGED <<pc, op, user, pwd, ret, lcs, pin>>
  BY DEF allVars, testVars, vars, cardVars, fileVars, clientVars, callVars
<1>2. Keeps' = Keeps
  BY <1>1 DEF Keeps
<1>3. TestTypeOK' /\ WellMade(todo, others)' /\ UnregisterAfter(todo, Keeps)'
  BY <1>1, <1>2 DEF TestInv, TestTypeOK
<1>4. Asked' /\ Stand' /\ NotAgain' /\ ListsKnown' /\ DiesOnlyWhenEmpty'
  BY <1>1 DEF TestInv, Asked, Stand, NotAgain, ListsKnown, DiesOnlyWhenEmpty
<1>5. TracesGo'
  BY <1>1, <1>2 DEF TestInv, TracesGo, Dirty, WillGo
<1>. QED
  BY <1>3, <1>4, <1>5 DEF TestInv

\* While the tests run, every call is in the state its exchanges presume, and
\* each user a test has registered, or begun to, has its unregistration among
\* what the tests have still to do.
THEOREM TestInvariant == TestSpec => [](Base /\ TestInv)
<1>1. TestInit => Base /\ TestInv
  BY BaseInit, TestBegins
<1>2. ASSUME Base, TestInv, [TestNext]_allVars
      PROVE  (Base /\ TestInv)'
  <2>1. CASE TestNext
    BY <1>2, <2>1, TestStep, BaseStep, TestKeeps
  <2>2. CASE UNCHANGED allVars
    <3>1. UNCHANGED vars
      BY <2>2 DEF allVars
    <3>. QED
      BY <1>2, <2>2, <3>1, BaseStep, TestStutter
  <2>. QED
    BY <1>2, <2>1, <2>2
<1>. QED
  BY <1>1, <1>2, PTL DEF TestSpec

\* Whoever is registered when the tests are started, and whichever assertions
\* fail, they leave every file and password of the users that were registered
\* before as it was (sec_storage_test.c takes only user ids that
\* are not registered).
THEOREM OthersAreSpared == TestSpec => TestsSpareOthers
<1>1. ASSUME Base, TestInv, [TestNext]_allVars
      PROVE  [\A u \in others : FilesOf(u)' = FilesOf(u)]_allVars
  BY <1>1, OthersStay
<1>. QED
  BY <1>1, TestInvariant, PTL DEF TestSpec, TestsSpareOthers

\* When no assertion has failed the element holds at the end what it held at
\* the start.
THEOREM NoTraceIsLeft == TestSpec => []TestsLeaveNoTrace
<1>1. TestInv => TestsLeaveNoTrace
  <2>. SUFFICES ASSUME TestInv, Ended, failed = {}, ~ dead, NEW u \in Users \ others
                PROVE  lcs[u] = NoFiles /\ pin[u] = None
    BY DEF TestsLeaveNoTrace
  <2>1. todo = << >> /\ Keeps \in BOOLEAN
    BY DEF Ended, Keeps
  <2>2. ~ WillGo(u)
    BY <2>1, NothingToDo DEF WillGo, Keeps
  <2>. QED
    BY <2>2 DEF TestInv, TracesGo, Dirty
<1>. QED
  BY <1>1, TestInvariant, PTL

\* The tests can bring the process down, where the first SELECT of a listing
\* fails and the descriptor that is freed has not been initialised, only on an
\* element without users.
THEOREM DeathIsOfTheEmpty == TestSpec => []DiesOnlyWhenEmpty
<1>1. TestInv => DiesOnlyWhenEmpty
  BY DEF TestInv
<1>. QED
  BY <1>1, TestInvariant, PTL

-----------------------------------------------------------------------------
(* What the tests presume.  The outcome of a call hangs on what the element *)
(* holds and on whether the channel is open; a list of items runs through   *)
(* a sequence of such states, in each of which the next item's assertions   *)
(* hold.                                                                    *)

State == [lcs : [Users -> [Nodes -> Lcs]], pin : [Users -> Passwords \cup {None}],
          chan : {"open", "close"}]
Now == [lcs |-> lcs, pin |-> pin, chan |-> IF session THEN "open" ELSE "close"]

UsersOf(a) == {u \in Users : a.lcs[u]["df"] # "none"}
FilesIn(a, u) == {f \in Files : a.lcs[u][f] # "none"}
Unlocks(x, a) ==
  /\ x.user \in UsersOf(a) /\ x.pwd \in Passwords
  /\ a.lcs[x.user]["kf"] = "use" /\ a.pin[x.user] = x.pwd

\* Nothing is there but of the users in S.
Clear(a, S) ==
  /\ S \subseteq UsersOf(a)
  /\ \A u \in Users \ S : a.lcs[u] = NoFiles /\ a.pin[u] = None

\* Users are looked for while there are those of before, h, and the users g that
\* the test keeps for the end of the loop.
Ready(h, g, a) ==
  Clear(a, h \cup g) /\ \A u \in g : a.lcs[u]["kf"] = "use" /\ a.pin[u] = Password

\* A user with the files F, all in use.
Holder(F) == [n \in Nodes |-> IF n \in Files \ F THEN "none" ELSE "use"]

BadArgument(x) ==
  \/ x.user = BadUser
  \/ x.op \in PasswordOps /\ x.pwd = BadPassword
  \/ x.op \in FileOps /\ x.file = BadFile

\* The assertions that may fail: that file id 16 can be created, and that no
\* users but its own are there where the second test counts.
Sixteen(t, x) ==
  /\ t = "check_file_id_test" /\ x.op \in {"create_bf", "delete_bf"}
  /\ x.file = BadFile /\ x.want = "ok"
Foreign(t, h, x) ==
  t = "add_delete_user_test_2" /\ h # {} /\ x.op = "list_users" /\ x.want = "count"

\* Calls that leave the element as it is, with what is asserted of them.
Looked(t, h, g, x, a) ==
  \/ x.op \in Ops \ {"list_users"} /\ x.want = "error" /\ BadArgument(x)
  \/ /\ x.op = "is_registered" /\ x.user \in Users
     /\ \/ x.want = "ok"
        \/ x.want = "search" /\ Ready(h, g, a)
        \/ x.want = "registered" /\ x.user \in UsersOf(a)
        \/ x.want = "not registered" /\ x.user \notin UsersOf(a)
  \/ /\ x.op = "list_users"
     /\ \/ x.want = "each"
        \/ x.want = "first" /\ UsersOf(a) = h
        \/ x.want = "count" /\ Cardinality(UsersOf(a)) = x.count
  \/ /\ x.op = "list_files" /\ x.user \in UsersOf(a)
     /\ \/ x.want = "all files" /\ FilesIn(a, x.user) = Files
        \/ x.want = "no files" /\ FilesIn(a, x.user) = {}
  \/ /\ x.op = "read_bf" /\ x.want = "data" /\ Unlocks(x, a)
     /\ x.file \in Files /\ a.lcs[x.user][x.file] = "use"
  \/ Sixteen(t, x) \/ Foreign(t, h, x)

\* Nobody but u is touched.
But(u, a, b) ==
  /\ b.chan = a.chan
  /\ \A v \in Users : v # u => b.lcs[v] = a.lcs[v] /\ b.pin[v] = a.pin[v]

\* Calls that change what is there of their user.
Changed(x, a, b) ==
  \/ /\ x.op = "register" /\ x.user \in Users \ UsersOf(a) /\ x.pwd \in Passwords
     /\ b.lcs[x.user] = Holder({}) /\ b.pin[x.user] = x.pwd
  \/ /\ x.op = "unregister" /\ Unlocks(x, a)
     /\ b.lcs[x.user] = NoFiles /\ b.pin[x.user] = None
  \/ /\ x.op = "create_bf" /\ Unlocks(x, a) /\ x.file \in Files \ FilesIn(a, x.user)
     /\ b.lcs[x.user] = [a.lcs[x.user] EXCEPT ![x.file] = "use"]
     /\ b.pin[x.user] = a.pin[x.user]
  \/ /\ x.op = "delete_bf" /\ Unlocks(x, a) /\ x.file \in FilesIn(a, x.user)
     /\ b.lcs[x.user] = [a.lcs[x.user] EXCEPT ![x.file] = "none"]
     /\ b.pin[x.user] = a.pin[x.user]

\* Item x, in test t with the users h registered before and the users g kept,
\* takes a to b.
Does(t, h, g, x, a, b) ==
  \/ x.op \in {"open", "close"} /\ b = [lcs |-> a.lcs, pin |-> a.pin, chan |-> x.op]
  \/ x.op = "loop" /\ a.chan = "open" /\ Ready(h, g, a) /\ b = a
  \/ a.chan = "open" /\ Looked(t, h, g, x, a) /\ b = a
  \/ a.chan = "open" /\ x.want = "ok" /\ But(x.user, a, b) /\ Changed(x, a, b)

\* The items of s take a to b.
Runs(t, h, g, s, a, b) ==
  /\ s \in Seq(Items)
  /\ \E r \in [1..Len(s) + 1 -> State] :
       /\ r[1] = a /\ r[Len(s) + 1] = b
       /\ \A k \in 1..Len(s) : Does(t, h, g, s[k], r[k], r[k + 1])

\* The users of a list's registrations, and those that a test keeps.
Newcomers(s) == {u \in Users : \E k \in 1..Len(s) : Registration(s[k]) /\ s[k].user = u}
Staying == IF test \in KeepingTests THEN mine \cup Newcomers(todo) ELSE {}

\* Tests that leave the loop at the first free user will do so.
StillFree ==
  Breaks(test) /\ HasLoop(todo) =>
    \E k \in 1..Len(todo) : todo[k].want = "search" /\ todo[k].user \notin others

\* Tests that count users have counted them first.
Counting == SearchTests \ {"check_password_size_test", "check_file_id_test"}
CountsFirst(x) == x.op = "list_users" /\ x.want = "first"
Timely ==
  todo # << >> /\ test \in Counting =>
    before = Cardinality(others) \/ \E k \in 1..Len(todo) : CountsFirst(todo[k])

\* The call under way has changed nothing but what it is about, and that only
\* from its first change on, if it does not fail.
Changes == {"register", "unregister", "create_bf", "delete_bf"}
MidSteps == RegisterSteps \cup CreateSteps
Untouched ==
  pc \in Steps \ MidSteps \/ (pc = "returned" /\ ret # "OK") \/ op \notin Changes
During(a) ==
  /\ session <=> a.chan = "open"
  /\ \A u \in Users : u # user => lcs[u] = a.lcs[u] /\ pin[u] = a.pin[u]
  /\ op \in {"create_bf", "delete_bf"} /\ user \in Users =>
       pin[user] = a.pin[user] /\ \A n \in Nodes : n # file => lcs[user][n] = a.lcs[user][n]
  /\ Untouched => lcs = a.lcs /\ pin = a.pin

\* What there is to do, from the state a before the call, leaves the element
\* to the users of before, once the loop has ended.
Leads(a) ==
  \E b \in State : /\ Runs(test, others, Staying, todo, a, b)
                   /\ ~ HasLoop(todo) => Clear(b, others)

AsPresumed ==
  /\ StillFree /\ Timely
  /\ \E a \in State : Leads(a) /\ IF pc = "idle" THEN a = Now ELSE During(a)

\* It is so until an assertion fails.
Progress == failed = {} /\ ~ dead /\ others # Users => AsPresumed

\* The arguments of the call, besides those of Asked.
FileAsked ==
  pc # "idle" => file = Head(todo).file
                 /\ val = IF Head(todo).op = "create_bf" THEN Value ELSE None

HoldsValue ==
  \A u \in Users, f \in Files :
    lcs[u][f] = "use" => data[u][f] = [k \in 1..NChunks |-> Value]

\* A dead process runs no more tests.
DeadStops == dead => todo = << >> /\ queue = << >>

\* The first test with a failed assertion stays among them.
FirstKnown ==
  /\ IsFiniteSet(failed)
  /\ others # Users /\ failed # {} =>
       \/ "check_file_id_test" \in failed
       \/ "add_delete_user_test_2" \in failed /\ others # {}

FirstInv == DueInv /\ FileAsked /\ HoldsValue /\ DeadStops /\ FirstKnown /\ Progress

-----------------------------------------------------------------------------
(* Lists of items from state to state.                                      *)

\* The empty list leads nowhere.
LEMMA RunsNil ==
  ASSUME NEW t, NEW h, NEW g, NEW a \in State, NEW b
  PROVE  Runs(t, h, g, << >>, a, b) <=> a = b
<1>1. Len(<< >>) = 0 /\ << >> \in Seq(Items) /\ 1..0 = {}
  OBVIOUS
<1>2. Runs(t, h, g, << >>, a, b) => a = b
  BY <1>1 DEF Runs
<1>3. ASSUME a = b PROVE Runs(t, h, g, << >>, a, b)
  <2>. DEFINE r == [k \in 1..1 |-> a]
  <2>1. r \in [1..0 + 1 -> State] /\ r[1] = a /\ r[0 + 1] = b
    BY <1>3
  <2>. HIDE DEF r
  <2>. QED
    BY <1>1, <2>1 DEF Runs
<1>. QED
  BY <1>2, <1>3

\* One item.
LEMMA RunsOne ==
  ASSUME NEW t, NEW h, NEW g, NEW x \in Items, NEW a \in State, NEW b \in State,
         Does(t, h, g, x, a, b)
  PROVE  Runs(t, h, g, <<x>>, a, b)
<1>. DEFINE r == [k \in 1..2 |-> IF k = 1 THEN a ELSE b]
            s == <<x>>
<1>1. s \in Seq(Items) /\ Len(s) = 1 /\ s[1] = x
  BY OneItem
<1>2. r \in [1..1 + 1 -> State] /\ r[1] = a /\ r[1 + 1] = b
  OBVIOUS
<1>. HIDE DEF r, s
<1>3. \A k \in 1..1 : Does(t, h, g, s[k], r[k], r[k + 1])
  BY <1>1, <1>2
<1>4. Runs(t, h, g, s, a, b)
  BY <1>1, <1>2, <1>3 DEF Runs
<1>. QED
  BY <1>4 DEF s

\* One list after the other.
LEMMA RunsConcat ==
  ASSUME NEW t, NEW h, NEW g, NEW s, NEW u, NEW a, NEW b, NEW c,
         Runs(t, h, g, s, a, b), Runs(t, h, g, u, b, c)
  PROVE  Runs(t, h, g, s \o u, a, c)
<1>. DEFINE n == Len(s)
            m == Len(u)
            w == s \o u
<1>1. PICK p \in [1..n + 1 -> State] :
        p[1] = a /\ p[n + 1] = b /\ \A k \in 1..n : Does(t, h, g, s[k], p[k], p[k + 1])
  BY DEF Runs
<1>2. PICK q \in [1..m + 1 -> State] :
        q[1] = b /\ q[m + 1] = c /\ \A k \in 1..m : Does(t, h, g, u[k], q[k], q[k + 1])
  BY DEF Runs
<1>3. s \in Seq(Items) /\ u \in Seq(Items)
  BY DEF Runs
<1>4. w \in Seq(Items) /\ Len(w) = n + m /\ n \in Nat /\ m \in Nat
  BY <1>3, ConcatIs
<1>5. \A k \in 1..n : w[k] = s[k]
  BY <1>3, ConcatIs
<1>6. \A k \in 1..m : w[n + k] = u[k]
  BY <1>3, ConcatIs
<1>. DEFINE r == [k \in 1..n + m + 1 |-> IF k <= n THEN p[k] ELSE q[k - n]]
<1>7. r \in [1..Len(w) + 1 -> State]
  <2>1. ASSUME NEW k \in 1..n + m + 1 PROVE (IF k <= n THEN p[k] ELSE q[k - n]) \in State
    <3>1. k <= n => k \in 1..n + 1
      BY <1>4
    <3>2. ~ k <= n => k - n \in 1..m + 1
      BY <1>4
    <3>. QED
      BY <3>1, <3>2
  <2>2. r \in [1..n + m + 1 -> State]
    BY <2>1
  <2>. QED
    BY <1>4, <2>2
<1>8. r[1] = a
  <2>1. 1 \in 1..n + m + 1
    BY <1>4
  <2>2. CASE n = 0
    BY <1>1, <1>2, <1>4, <2>1, <2>2
  <2>3. CASE n # 0
    BY <1>1, <1>4, <2>1, <2>3
  <2>. QED
    BY <2>2, <2>3
<1>9. r[Len(w) + 1] = c
  <2>1. n + m + 1 \in 1..n + m + 1 /\ ~ n + m + 1 <= n /\ n + m + 1 - n = m + 1
    BY <1>4
  <2>. QED
    BY <1>2, <1>4, <2>1
<1>10. ASSUME NEW k \in 1..n PROVE r[k] = p[k] /\ r[k + 1] = p[k + 1]
  <2>1. k \in 1..n + m + 1 /\ k + 1 \in 1..n + m + 1 /\ k <= n
    BY <1>4
  <2>2. CASE k + 1 <= n
    BY <2>1, <2>2
  <2>3. CASE ~ k + 1 <= n
    <3>1. k = n /\ k + 1 - n = 1
      BY <1>4, <2>3
    <3>. QED
      BY <1>1, <1>2, <2>1, <2>3, <3>1
  <2>. QED
    BY <2>2, <2>3
<1>11. ASSUME NEW k \in 1..m PROVE r[n + k] = q[k] /\ r[n + k + 1] = q[k + 1]
  <2>1. /\ n + k \in 1..n + m + 1 /\ ~ n + k <= n /\ n + k - n = k
        /\ n + k + 1 \in 1..n + m + 1 /\ ~ n + k + 1 <= n /\ n + k + 1 - n = k + 1
    BY <1>4
  <2>. QED
    BY <2>1
<1>. HIDE DEF r, w, n, m
<1>12. ASSUME NEW k \in 1..Len(w) PROVE Does(t, h, g, w[k], r[k], r[k + 1])
  <2>1. CASE k \in 1..n
    BY <1>1, <1>5, <1>10, <2>1
  <2>2. CASE k \notin 1..n
    <3>. DEFINE l == k - n
    <3>1. l \in 1..m /\ k = n + l
      BY <1>4, <2>2
    <3>. HIDE DEF l
    <3>. QED
      BY <1>2, <1>6, <1>11, <3>1
  <2>. QED
    BY <2>1, <2>2
<1>13. Runs(t, h, g, w, a, c)
  BY <1>4, <1>7, <1>8, <1>9, <1>12 DEF Runs
<1>. QED
  BY <1>13 DEF w

\* The first item and the rest.
LEMMA RunsHead ==
  ASSUME NEW t, NEW h, NEW g, NEW s, s # << >>, NEW a, NEW b, Runs(t, h, g, s, a, b)
  PROVE  /\ a \in State /\ b \in State /\ s \in Seq(Items) /\ Head(s) \in Items
         /\ \E c \in State : Does(t, h, g, Head(s), a, c) /\ Runs(t, h, g, Tail(s), c, b)
<1>. DEFINE n == Len(s)
            u == Tail(s)
<1>1. PICK p \in [1..n + 1 -> State] :
        p[1] = a /\ p[n + 1] = b /\ \A k \in 1..n : Does(t, h, g, s[k], p[k], p[k + 1])
  BY DEF Runs
<1>2. s \in Seq(Items)
  BY DEF Runs
<1>3. /\ u \in Seq(Items) /\ n \in Nat \ {0} /\ Len(u) = n - 1 /\ Head(s) = s[1] /\ Head(s) \in Items
      /\ \A k \in 1..Len(u) : k + 1 \in 1..n /\ u[k] = s[k + 1]
  BY <1>2, TailIs
<1>. DEFINE r == [k \in 1..n |-> p[k + 1]]
<1>4. 1 \in 1..n /\ 1 \in 1..n + 1 /\ n + 1 \in 1..n + 1 /\ 1 + 1 \in 1..n + 1 /\ n \in 1..n
  BY <1>3
<1>5. \A k \in 1..n : k + 1 \in 1..n + 1
  BY <1>3
<1>6. r \in [1..n -> State] /\ r[1] = p[1 + 1] /\ r[n] = b
  BY <1>1, <1>4, <1>5
<1>7. \A k \in 1..n - 1 : r[k] = p[k + 1] /\ r[k + 1] = p[k + 1 + 1] /\ k + 1 \in 1..n
  BY <1>3
<1>. HIDE DEF r, n, u
<1>8. Len(u) + 1 = n
  BY <1>3
<1>9. \A k \in 1..Len(u) : Does(t, h, g, u[k], r[k], r[k + 1])
  BY <1>1, <1>3, <1>7
<1>10. Runs(t, h, g, u, p[1 + 1], b)
  BY <1>3, <1>6, <1>8, <1>9 DEF Runs
<1>11. Does(t, h, g, Head(s), a, p[1 + 1]) /\ p[1 + 1] \in State /\ a \in State /\ b \in State
  BY <1>1, <1>3, <1>4
<1>. QED
  BY <1>2, <1>3, <1>10, <1>11 DEF u

\* Items that all leave the state as it is.
LEMMA RunsStill ==
  ASSUME NEW t, NEW h, NEW g, NEW s \in Seq(Items), NEW a \in State,
         \A k \in 1..Len(s) : Does(t, h, g, s[k], a, a)
  PROVE  Runs(t, h, g, s, a, a)
<1>. DEFINE r == [k \in 1..Len(s) + 1 |-> a]
<1>1. Len(s) \in Nat /\ 1 \in 1..Len(s) + 1 /\ Len(s) + 1 \in 1..Len(s) + 1
      /\ \A k \in 1..Len(s) : k \in 1..Len(s) + 1 /\ k + 1 \in 1..Len(s) + 1
  OBVIOUS
<1>2. r \in [1..Len(s) + 1 -> State] /\ \A k \in 1..Len(s) + 1 : r[k] = a
  OBVIOUS
<1>. HIDE DEF r
<1>. QED
  BY <1>1, <1>2 DEF Runs

-----------------------------------------------------------------------------
(* The call under way.                                                      *)

\* The steps that change files.
MoveStep ==
  \/ RegisterStep \/ CreateBf \/ WriteBf \/ ActivateBf \/ DeleteUserDf \/ DeleteBf

\* Every other exchange leaves the files alone.
LEMMA StepKinds ==
  ASSUME ClientStep
  PROVE  MoveStep \/ QuietStep \/ CheckUserDf \/ SelectBfWrite \/ SelectBfUse
BY DEF ClientStep, FileStep, MoveStep, QuietStep

\* What SecStorage keeps, as the lemmas about its steps ask for it.
LEMMA BaseIs ==
  ASSUME Base, ClientStep
  PROVE  /\ lost' = 0 /\ lost = 0 /\ Whole /\ Trusted /\ StorageInv /\ ReliableInv /\ ResultsInv
         /\ ReliableInv' /\ CompleteInv' /\ ChangesAreDone' /\ Base' /\ OwnerStep
         /\ Faults = {} /\ "refuse" \notin Faults /\ Gathering
<1>1. lost' = 0 /\ lost = 0 /\ Base' /\ OwnerStep
  BY BaseStep DEF Next
<1>. QED
  BY <1>1, TestAssumption DEF Base, Whole, Trusted, ResultsInv

\* A step that changes files goes on in the midst of the call, or the call
\* returns with SEC_STORAGE_OK or SEC_STORAGE_UNKNOWN_ERROR; so do the SELECTs of
\* a new file.
LEMMA MovesOn ==
  ASSUME Base, MoveStep \/ SelectBfWrite \/ SelectBfUse
  PROVE  /\ op \in Changes
         /\ pc' \in MidSteps \/ (pc' = "returned" /\ ret' \in {"OK", "UNKNOWN_ERROR"})
         /\ RegisterStep => op = "register" /\ user \in Users
                            /\ (pc' \in RegisterSteps \/ pc' = "returned")
         /\ DeleteUserDf => op = "unregister" /\ user \in Users /\ pc' = "returned"
         /\ DeleteBf => op = "delete_bf" /\ user \in Users /\ file \in Files /\ pc' = "returned"
         /\ CreateBf \/ SelectBfWrite \/ WriteBf \/ SelectBfUse \/ ActivateBf =>
              op = "create_bf" /\ user \in Users /\ file \in Files
              /\ (pc' \in CreateSteps \/ pc' = "returned")
<1>. USE DEF Changes, MidSteps
<1>1. StorageInv /\ Trusted
  BY DEF Base, Whole, Trusted
<1>2. CASE RegisterStep
  <2>1. pc \in RegSteps /\ pc' \in RegisterSteps \cup {"returned"}
        /\ (pc' = "returned" => ret' \in {"OK", "UNKNOWN_ERROR"})
    BY <1>2 DEF RegisterStep, CreateUserDf, CreateUserEfArr, SelectUserEfArr,
       AddRecordEfArr, SelectArrUse, ActivateArr, CreateKf, SelectKf, ChangeRefData,
       SelectKfUse, ActivateKf, SelectDfUse, ActivateDf, Checked, Ignored, Proceed, Goto, Return,
       RegSteps, RegisterSteps
  <2>2. op = "register" /\ user \in Users
    BY <1>1, <2>1, Registers
  <2>3. pc \notin {"delete df", "delete bf", "create bf"} \cup CreateSteps
    BY <2>1 DEF RegSteps, RegisterSteps, CreateSteps
  <2>4. ~ DeleteUserDf /\ ~ DeleteBf /\ ~ CreateBf /\ ~ SelectBfWrite /\ ~ WriteBf
        /\ ~ SelectBfUse /\ ~ ActivateBf
    BY <2>3 DEF DeleteUserDf, DeleteBf, CreateBf, SelectBfWrite, WriteBf, SelectBfUse,
       ActivateBf, Checked, CreateSteps
  <2>. QED
    BY <2>1, <2>2, <2>4
<1>3. CASE CreateBf \/ SelectBfWrite \/ WriteBf \/ SelectBfUse \/ ActivateBf
  <2>1. pc \in {"create bf"} \cup CreateSteps /\ pc' \in CreateSteps \cup {"returned"}
        /\ (pc' = "returned" => ret' \in {"OK", "UNKNOWN_ERROR"})
    BY <1>3 DEF CreateBf, SelectBfWrite, WriteBf, SelectBfUse, ActivateBf, Checked, Proceed, Goto,
       Return, CreateSteps
  <2>2. op = "create_bf" /\ user \in Users /\ file \in Files
    BY <1>1, <2>1, Creating
  <2>3. pc \notin {"delete df", "delete bf"} \cup RegSteps
    BY <2>1 DEF RegSteps, RegisterSteps, CreateSteps
  <2>4. ~ DeleteUserDf /\ ~ DeleteBf /\ ~ RegisterStep
    BY <2>3 DEF DeleteUserDf, DeleteBf, RegisterStep, CreateUserDf, CreateUserEfArr,
       SelectUserEfArr, AddRecordEfArr, SelectArrUse, ActivateArr, CreateKf, SelectKf,
       ChangeRefData, SelectKfUse, ActivateKf, SelectDfUse, ActivateDf, Checked, Ignored,
       RegSteps, RegisterSteps
  <2>. QED
    BY <2>1, <2>2, <2>4
<1>4. CASE DeleteUserDf \/ DeleteBf
  <2>1. pc \in {"delete df", "delete bf"} /\ pc' = "returned" /\ ret' \in {"OK", "UNKNOWN_ERROR"}
        /\ (DeleteUserDf => pc = "delete df") /\ (DeleteBf => pc = "delete bf")
    BY <1>4 DEF DeleteUserDf, DeleteBf, Checked, Proceed, Goto, Return
  <2>2. /\ pc = "delete df" => op = "unregister"
        /\ pc = "delete bf" => op = "delete_bf" /\ file \in Files
        /\ user \in Users
    BY <1>1, <2>1, LetIn DEF VerifiedSteps, Trusted, ReliableInv, Calling
  <2>3. pc \notin {"create bf"} \cup CreateSteps \cup RegSteps
    BY <2>1 DEF RegSteps, RegisterSteps, CreateSteps
  <2>4. ~ CreateBf /\ ~ SelectBfWrite /\ ~ WriteBf /\ ~ SelectBfUse /\ ~ ActivateBf
        /\ ~ RegisterStep
    BY <2>3 DEF CreateBf, SelectBfWrite, WriteBf, SelectBfUse, ActivateBf, CreateSteps,
       RegisterStep, CreateUserDf, CreateUserEfArr,
       SelectUserEfArr, AddRecordEfArr, SelectArrUse, ActivateArr, CreateKf, SelectKf,
       ChangeRefData, SelectKfUse, ActivateKf, SelectDfUse, ActivateDf, Checked, Ignored,
       RegSteps, RegisterSteps
  <2>. QED
    BY <2>1, <2>2, <2>4
<1>. QED
  BY <1>2, <1>3, <1>4 DEF MoveStep

\* It does not fail.
LEMMA MovesWell ==
  ASSUME Base, DueInv', MoveStep \/ SelectBfWrite \/ SelectBfUse
  PROVE  /\ op \in Changes
         /\ pc' \in MidSteps \/ (pc' = "returned" /\ ret' = "OK")
         /\ pc' \notin Steps \ MidSteps
         /\ pc' = "returned" => ret' = "OK" /\ pc' \notin RegisterSteps \cup CreateSteps
<1>1. op \in Changes /\ (pc' \in MidSteps \/ (pc' = "returned" /\ ret' \in {"OK", "UNKNOWN_ERROR"}))
  BY MovesOn
<1>2. pc' = "returned" => ret' # "UNKNOWN_ERROR"
  BY DEF DueInv, StatusIsDue
<1>3. "returned" \notin Steps /\ "returned" \notin RegisterSteps \cup CreateSteps
  BY DEF Steps, RegisterSteps, CreateSteps
<1>4. pc' = "returned" => ret' = "OK"
  BY <1>1, <1>2, <1>3 DEF MidSteps
<1>5. pc' \in MidSteps \/ pc' = "returned"
  BY <1>1
<1>. QED
  BY <1>1, <1>3, <1>4, <1>5

\* A binary file's creation and deletion leave the user's other files alone.
LEMMA OneFileMoves ==
  ASSUME Base, ClientStep, DueInv', CreateBf \/ WriteBf \/ ActivateBf \/ DeleteBf
  PROVE  /\ \A u \in Users : pin'[u] = pin[u]
         /\ \A n \in Nodes : n # file => lcs'[user][n] = lcs[user][n]
         /\ \A f \in Files : f # file => data'[user][f] = data[user][f]
<1>1. lost' = 0 /\ Trusted /\ StorageInv /\ user \in Users /\ file \in Files
  BY BaseIs, MovesOn DEF MoveStep
<1>2. ~ (pc' = "returned" /\ ret' = "UNKNOWN_ERROR")
  BY DEF DueInv, StatusIsDue
<1>3. sw' = "ok"
  BY <1>2 DEF CreateBf, WriteBf, ActivateBf, DeleteBf, Checked, Return
<1>4. CASE CreateBf
  BY <1>1, <1>3, <1>4, BfCreated
<1>5. CASE WriteBf
  <2>1. UNCHANGED <<lcs, pin>> /\ \A u \in Users, f \in Files :
          u # user \/ f # file => data'[u][f] = data[u][f]
    BY <1>1, <1>3, <1>5, ChunkWritten
  <2>. QED
    BY <1>1, <2>1
<1>6. CASE ActivateBf
  BY <1>1, <1>3, <1>6, BfActivated
<1>7. CASE DeleteBf
  BY <1>1, <1>3, <1>7, BfDeleted
<1>. QED
  BY <1>4, <1>5, <1>6, <1>7

\* What the call under way has changed stays within what it is about.
LEMMA DuringKept ==
  ASSUME Base, DueInv', ClientStep, pc' # "idle", NEW a, During(a)
  PROVE  During(a)'
<1>1. UNCHANGED <<callVars, session>> /\ pc \in Steps
  BY CallKeeps
<1>2. UNCHANGED <<op, user, file, session>>
  BY <1>1 DEF callVars
<1>3. \A u \in Users : u # user => lcs'[u] = a.lcs[u] /\ pin'[u] = a.pin[u]
  <2>1. \A u \in Users : u # user => FilesOf(u)' = FilesOf(u)
    BY BaseIs DEF OwnerStep
  <2>. QED
    BY <2>1 DEF During, FilesOf
<1>4. CASE MoveStep \/ SelectBfWrite \/ SelectBfUse
  <2>1. op \in Changes /\ ~ Untouched'
    BY <1>2, <1>4, MovesWell DEF Untouched
  <2>2. ASSUME op \in {"create_bf", "delete_bf"}
        PROVE  pin'[user] = pin[user] /\ \A n \in Nodes : n # file => lcs'[user][n] = lcs[user][n]
    <3>1. CASE SelectBfWrite \/ SelectBfUse
      BY <3>1, QuietFilesKept
    <3>2. CASE ~ (SelectBfWrite \/ SelectBfUse)
      <4>1. CreateBf \/ WriteBf \/ ActivateBf \/ DeleteBf
        BY <1>4, <2>2, <3>2, MovesOn DEF MoveStep
      <4>2. user \in Users
        BY <4>1, MovesOn DEF MoveStep
      <4>. QED
        BY <4>1, <4>2, OneFileMoves
    <3>. QED
      BY <3>1, <3>2
  <2>. QED
    BY <1>2, <1>3, <2>1, <2>2 DEF During
<1>5. CASE ~ (MoveStep \/ SelectBfWrite \/ SelectBfUse)
  <2>1. UNCHANGED <<lcs, pin>>
    BY <1>5, StepKinds, QuietFilesKept
  <2>2. pc \notin MidSteps
    <3>1. pc \notin RegisterSteps
      BY <1>5 DEF ClientStep, FileStep, MoveStep, RegisterStep, SelectCryptoAid, CheckUserDf,
         OpenUserDf, CheckBf, VerifyPin, SelectDfDelete, SelectBfRead, ReadNullSize, ReadBf,
         SelectBfDelete, ListFiles, FreeUninitialised, Checked, Ignored, RegisterSteps
    <3>2. pc \notin CreateSteps
      BY <1>5 DEF ClientStep, FileStep, MoveStep, RegisterStep, SelectCryptoAid, CheckUserDf,
         OpenUserDf, CheckBf, VerifyPin, SelectDfDelete, SelectBfRead, ReadNullSize, ReadBf,
         SelectBfDelete, ListFiles, FreeUninitialised, Checked, Ignored, CreateSteps
    <3>. QED
      BY <3>1, <3>2 DEF MidSteps
  <2>3. Untouched
    BY <1>1, <2>2 DEF Untouched
  <2>. QED
    BY <1>2, <1>3, <2>1, <2>3 DEF During
<1>. QED
  BY <1>4, <1>5

\* Every file in use holds the data of the tests.
LEMMA HoldsValueKept ==
  ASSUME Base, DueInv', ClientStep, pc' # "idle", HoldsValue,
         op = "create_bf" => val = Value
  PROVE  HoldsValue'
<1>1. UNCHANGED <<callVars, session>> /\ pc \in Steps
  BY CallKeeps
<1>2. UNCHANGED <<op, user, file, val>>
  BY <1>1 DEF callVars
<1>3. /\ OwnerStep /\ ChangesAreDone' /\ CompleteInv' /\ ReliableInv'
  BY BaseIs
<1>4. CASE MoveStep
  <2>. SUFFICES ASSUME NEW u \in Users, NEW f \in Files, lcs'[u][f] = "use"
                PROVE  data'[u][f] = [k \in 1..NChunks |-> Value]
    BY DEF HoldsValue
  <2>1. CASE u # user
    <3>1. FilesOf(u)' = FilesOf(u)
      BY <1>3, <2>1 DEF OwnerStep
    <3>. QED
      BY <3>1 DEF HoldsValue, FilesOf
  <2>2. CASE u = user /\ RegisterStep
    <3>0. MoveStep \/ SelectBfWrite \/ SelectBfUse
      BY <1>4
    <3>1. op = "register" /\ (pc' \in RegisterSteps \/ (pc' = "returned" /\ ret' = "OK"))
      <4>1. op = "register" /\ (pc' \in RegisterSteps \/ pc' = "returned")
        BY <2>2, <3>0, MovesOn
      <4>2. pc' = "returned" => ret' = "OK"
        BY <3>0, MovesWell
      <4>. QED
        BY <4>1, <4>2
    <3>2. lcs'[user][f] = "none"
      BY <1>2, <1>3, <3>1 DEF CompleteInv, Registering, ChangesAreDone, Returned
    <3>. QED
      BY <2>2, <3>2
  <2>3. CASE u = user /\ DeleteUserDf
    <3>0. MoveStep \/ SelectBfWrite \/ SelectBfUse
      BY <1>4
    <3>1. op = "unregister" /\ pc' = "returned" /\ ret' = "OK"
      <4>1. op = "unregister" /\ pc' = "returned"
        BY <2>3, <3>0, MovesOn
      <4>2. pc' = "returned" => ret' = "OK"
        BY <3>0, MovesWell
      <4>. QED
        BY <4>1, <4>2
    <3>2. lcs'[user] = NoFiles
      BY <1>2, <1>3, <3>1 DEF ChangesAreDone, Returned
    <3>. QED
      BY <2>3, <3>2, NodeNames DEF NoFiles
  <2>4. CASE u = user /\ (CreateBf \/ WriteBf \/ ActivateBf \/ DeleteBf)
    <3>0. MoveStep \/ SelectBfWrite \/ SelectBfUse
      BY <1>4
    <3>1. CASE f # file
      <4>1. lcs'[user][f] = lcs[user][f] /\ data'[user][f] = data[user][f]
        BY <2>4, <3>1, OneFileMoves, NodeNames
      <4>. QED
        BY <2>4, <4>1 DEF HoldsValue
    <3>2. CASE f = file /\ DeleteBf
      <4>1. op = "delete_bf" /\ pc' = "returned" /\ ret' = "OK"
        <5>1. op = "delete_bf" /\ pc' = "returned"
          BY <3>0, <3>2, MovesOn
        <5>2. pc' = "returned" => ret' = "OK"
          BY <3>0, MovesWell
        <5>. QED
          BY <5>1, <5>2
      <4>. QED
        BY <1>2, <1>3, <2>4, <3>2, <4>1 DEF ChangesAreDone, Returned
    <3>3. CASE f = file /\ ~ DeleteBf
      <4>1. op = "create_bf" /\ (pc' \in CreateSteps \/ (pc' = "returned" /\ ret' = "OK"))
        <5>1. op = "create_bf" /\ (pc' \in CreateSteps \/ pc' = "returned")
          BY <2>4, <3>0, <3>3, MovesOn
        <5>2. pc' = "returned" => ret' = "OK"
          BY <3>0, MovesWell
        <5>. QED
          BY <5>1, <5>2
      <4>2. pc' \notin CreateSteps
        BY <1>2, <1>3, <2>4, <3>3 DEF ReliableInv, Written
      <4>. QED
        BY <1>2, <1>3, <2>4, <3>3, <4>1, <4>2 DEF ChangesAreDone, Returned
    <3>. QED
      BY <3>1, <3>2, <3>3
  <2>. QED
    BY <1>4, <2>1, <2>2, <2>3, <2>4 DEF MoveStep
<1>5. CASE ~ MoveStep
  BY <1>5, StepKinds, QuietFilesKept DEF HoldsValue
<1>. QED
  BY <1>4, <1>5

-----------------------------------------------------------------------------
(* A user comes and goes.                                                   *)

Has(a, u, p, F) ==
  [lcs |-> [a.lcs EXCEPT ![u] = Holder(F)], pin |-> [a.pin EXCEPT ![u] = p], chan |-> a.chan]

\* Whoever holds files has a DF, a key file and the files, all in use.
LEMMA HolderIs ==
  ASSUME NEW F \in SUBSET Files
  PROVE  /\ Holder(F) \in [Nodes -> Lcs]
         /\ Holder(F)["df"] = "use" /\ Holder(F)["kf"] = "use"
         /\ \A f \in Files : Holder(F)[f] = IF f \in F THEN "use" ELSE "none"
         /\ \A f \in Files : [Holder(F) EXCEPT ![f] = "use"] = Holder(F \cup {f})
         /\ \A f \in Files : [Holder(F) EXCEPT ![f] = "none"] = Holder(F \ {f})
<1>1. "df" \notin Files /\ "kf" \notin Files /\ "arr" \notin Files
  BY StepNames
<1>2. Holder(F) \in [Nodes -> Lcs] /\ Holder(F)["df"] = "use" /\ Holder(F)["kf"] = "use"
  BY <1>1, NodeNames DEF Holder, Lcs
<1>3. \A f \in Files : Holder(F)[f] = IF f \in F THEN "use" ELSE "none"
  BY NodeNames DEF Holder
<1>4. ASSUME NEW f \in Files
      PROVE  /\ [Holder(F) EXCEPT ![f] = "use"] = Holder(F \cup {f})
             /\ [Holder(F) EXCEPT ![f] = "none"] = Holder(F \ {f})
  BY NodeNames DEF Holder
<1>. QED
  BY <1>2, <1>3, <1>4

\* A state is what it says of each user and of the channel.
LEMMA StateIs ==
  ASSUME NEW a \in State
  PROVE  /\ a.lcs \in [Users -> [Nodes -> Lcs]] /\ a.pin \in [Users -> Passwords \cup {None}]
         /\ a.chan \in {"open", "close"}
         /\ a = [lcs |-> a.lcs, pin |-> a.pin, chan |-> a.chan]
BY DEF State

\* What a state says once u holds F.
LEMMA HasIs ==
  ASSUME NEW a \in State, NEW u \in Users, NEW p \in Passwords, NEW F \in SUBSET Files
  PROVE  LET b == Has(a, u, p, F) IN
           /\ b \in State /\ b.chan = a.chan
           /\ b.lcs[u] = Holder(F) /\ b.pin[u] = p
           /\ \A v \in Users : v # u => b.lcs[v] = a.lcs[v] /\ b.pin[v] = a.pin[v]
           /\ UsersOf(b) = UsersOf(a) \cup {u} /\ FilesIn(b, u) = F
<1>. DEFINE l == [a.lcs EXCEPT ![u] = Holder(F)]
            q == [a.pin EXCEPT ![u] = p]
            b == [lcs |-> l, pin |-> q, chan |-> a.chan]
<1>1. Has(a, u, p, F) = b
  BY DEF Has
<1>2. /\ l \in [Users -> [Nodes -> Lcs]] /\ l[u] = Holder(F)
      /\ \A v \in Users : v # u => l[v] = a.lcs[v]
  BY StateIs, HolderIs
<1>3. q \in [Users -> Passwords \cup {None}] /\ q[u] = p /\ \A v \in Users : v # u => q[v] = a.pin[v]
  BY StateIs
<1>. HIDE DEF l, q
<1>4. b \in State /\ b.chan = a.chan /\ b.lcs = l /\ b.pin = q
  BY <1>2, <1>3, StateIs DEF State
<1>. HIDE DEF b
<1>5. UsersOf(b) = UsersOf(a) \cup {u}
  BY <1>2, <1>4, HolderIs DEF UsersOf
<1>6. FilesIn(b, u) = F
  BY <1>2, <1>4, HolderIs DEF FilesIn
<1>. QED
  BY <1>1, <1>2, <1>3, <1>4, <1>5, <1>6

\* What the items do to a state in which u holds F.
LEMMA HoldsOn ==
  ASSUME NEW t, NEW h, NEW g, NEW a \in State, a.chan = "open", NEW u \in Users,
         NEW p \in Passwords, NEW F \in SUBSET Files
  PROVE  /\ u \notin UsersOf(a) =>
              /\ Does(t, h, g, Register(u, p, "ok"), a, Has(a, u, p, {}))
              /\ Does(t, h, g, IsRegistered(u, "not registered"), a, a)
         /\ a.lcs[u] = NoFiles /\ a.pin[u] = None =>
              Does(t, h, g, Unregister(u, p), Has(a, u, p, F), a)
         /\ Does(t, h, g, IsRegistered(u, "registered"), Has(a, u, p, F), Has(a, u, p, F))
         /\ F = Files => Does(t, h, g, ListOf(u, "all files"), Has(a, u, p, F), Has(a, u, p, F))
         /\ F = {} => Does(t, h, g, ListOf(u, "no files"), Has(a, u, p, F), Has(a, u, p, F))
<1>. DEFINE b == Has(a, u, p, F)
            e == Has(a, u, p, {})
<1>1. /\ b \in State /\ b.chan = a.chan /\ b.lcs[u] = Holder(F) /\ b.pin[u] = p
      /\ \A v \in Users : v # u => b.lcs[v] = a.lcs[v] /\ b.pin[v] = a.pin[v]
      /\ UsersOf(b) = UsersOf(a) \cup {u} /\ FilesIn(b, u) = F
  BY HasIs
<1>2. /\ e \in State /\ e.chan = a.chan /\ e.lcs[u] = Holder({}) /\ e.pin[u] = p
      /\ \A v \in Users : v # u => e.lcs[v] = a.lcs[v] /\ e.pin[v] = a.pin[v]
  BY HasIs
<1>3. Holder(F)["kf"] = "use"
  BY HolderIs
<1>. HIDE DEF b, e
<1>4. ASSUME u \notin UsersOf(a) PROVE Does(t, h, g, Register(u, p, "ok"), a, e)
  <2>. DEFINE x == Register(u, p, "ok")
  <2>1. x.op = "register" /\ x.user = u /\ x.pwd = p /\ x.want = "ok"
    BY DEF Register, Item
  <2>. HIDE DEF x
  <2>2. Changed(x, a, e) /\ But(x.user, a, e)
    BY <1>2, <1>4, <2>1 DEF Changed, But
  <2>. QED
    BY <2>1, <2>2 DEF Does, x
<1>5. ASSUME u \notin UsersOf(a) PROVE Does(t, h, g, IsRegistered(u, "not registered"), a, a)
  <2>. DEFINE x == IsRegistered(u, "not registered")
  <2>1. x.op = "is_registered" /\ x.user = u /\ x.want = "not registered"
    BY DEF IsRegistered, Item
  <2>. HIDE DEF x
  <2>2. Looked(t, h, g, x, a)
    BY <1>5, <2>1 DEF Looked
  <2>. QED
    BY <2>2 DEF Does, x
<1>6. ASSUME a.lcs[u] = NoFiles, a.pin[u] = None PROVE Does(t, h, g, Unregister(u, p), b, a)
  <2>. DEFINE x == Unregister(u, p)
  <2>1. x.op = "unregister" /\ x.user = u /\ x.pwd = p /\ x.want = "ok"
    BY DEF Unregister, Item
  <2>. HIDE DEF x
  <2>2. Unlocks(x, b)
    BY <1>1, <1>3, <2>1 DEF Unlocks
  <2>3. Changed(x, b, a) /\ But(x.user, b, a)
    BY <1>1, <1>6, <2>1, <2>2 DEF Changed, But
  <2>. QED
    BY <1>1, <2>1, <2>3 DEF Does, x
<1>7. Does(t, h, g, IsRegistered(u, "registered"), b, b)
  <2>. DEFINE x == IsRegistered(u, "registered")
  <2>1. x.op = "is_registered" /\ x.user = u /\ x.want = "registered"
    BY DEF IsRegistered, Item
  <2>. HIDE DEF x
  <2>2. Looked(t, h, g, x, b)
    BY <1>1, <2>1 DEF Looked
  <2>. QED
    BY <1>1, <2>2 DEF Does, x
<1>8. ASSUME F = Files PROVE Does(t, h, g, ListOf(u, "all files"), b, b)
  <2>. DEFINE x == ListOf(u, "all files")
  <2>1. x.op = "list_files" /\ x.user = u /\ x.want = "all files"
    BY DEF ListOf, Item
  <2>. HIDE DEF x
  <2>2. Looked(t, h, g, x, b)
    BY <1>1, <1>8, <2>1 DEF Looked
  <2>. QED
    BY <1>1, <2>2 DEF Does, x
<1>9. ASSUME F = {} PROVE Does(t, h, g, ListOf(u, "no files"), b, b)
  <2>. DEFINE x == ListOf(u, "no files")
  <2>1. x.op = "list_files" /\ x.user = u /\ x.want = "no files"
    BY DEF ListOf, Item
  <2>. HIDE DEF x
  <2>2. Looked(t, h, g, x, b)
    BY <1>1, <1>9, <2>1 DEF Looked
  <2>. QED
    BY <1>1, <2>2 DEF Does, x
<1>. QED
  BY <1>4, <1>5, <1>6, <1>7, <1>8, <1>9 DEF b, e

\* So do the items about one of the files.
LEMMA HoldsFile ==
  ASSUME NEW t, NEW h, NEW g, NEW a \in State, a.chan = "open", NEW u \in Users,
         NEW F \in SUBSET Files, NEW f \in Files
  PROVE  LET b(G) == Has(a, u, Password, G) IN
         /\ f \notin F => Does(t, h, g, OnFile("create_bf", u, f, "ok"), b(F), b(F \cup {f}))
         /\ f \in F => Does(t, h, g, OnFile("delete_bf", u, f, "ok"), b(F), b(F \ {f}))
         /\ f \in F => Does(t, h, g, OnFile("read_bf", u, f, "data"), b(F), b(F))
<1>0. Password \in Passwords
  BY TestAssumption
<1>. DEFINE b == Has(a, u, Password, F)
            c == Has(a, u, Password, F \cup {f})
            d == Has(a, u, Password, F \ {f})
<1>1. /\ b \in State /\ b.chan = a.chan /\ b.lcs[u] = Holder(F) /\ b.pin[u] = Password
      /\ \A v \in Users : v # u => b.lcs[v] = a.lcs[v] /\ b.pin[v] = a.pin[v]
      /\ UsersOf(b) = UsersOf(a) \cup {u} /\ FilesIn(b, u) = F
  BY <1>0, HasIs
<1>2. /\ c \in State /\ c.chan = a.chan /\ c.lcs[u] = Holder(F \cup {f}) /\ c.pin[u] = Password
      /\ \A v \in Users : v # u => c.lcs[v] = a.lcs[v] /\ c.pin[v] = a.pin[v]
  <2>. F \cup {f} \in SUBSET Files
    OBVIOUS
  <2>. QED
    BY <1>0, HasIs
<1>3. /\ d \in State /\ d.chan = a.chan /\ d.lcs[u] = Holder(F \ {f}) /\ d.pin[u] = Password
      /\ \A v \in Users : v # u => d.lcs[v] = a.lcs[v] /\ d.pin[v] = a.pin[v]
  <2>. F \ {f} \in SUBSET Files
    OBVIOUS
  <2>. QED
    BY <1>0, HasIs
<1>4. /\ Holder(F)["kf"] = "use" /\ (f \in F => Holder(F)[f] = "use")
      /\ [Holder(F) EXCEPT ![f] = "use"] = Holder(F \cup {f})
      /\ [Holder(F) EXCEPT ![f] = "none"] = Holder(F \ {f})
  <2>1. Holder(F)["kf"] = "use" /\ Holder(F)[f] = IF f \in F THEN "use" ELSE "none"
    BY HolderIs
  <2>2. [Holder(F) EXCEPT ![f] = "use"] = Holder(F \cup {f})
    BY NodeNames DEF Holder
  <2>3. [Holder(F) EXCEPT ![f] = "none"] = Holder(F \ {f})
    BY NodeNames DEF Holder
  <2>. QED
    BY <2>1, <2>2, <2>3
<1>. HIDE DEF b, c, d
<1>5. ASSUME NEW x, x.user = u, x.pwd = Password PROVE Unlocks(x, b)
  BY <1>0, <1>1, <1>4, <1>5 DEF Unlocks
<1>6. ASSUME f \notin F PROVE Does(t, h, g, OnFile("create_bf", u, f, "ok"), b, c)
  <2>. DEFINE x == OnFile("create_bf", u, f, "ok")
  <2>1. x.op = "create_bf" /\ x.user = u /\ x.file = f /\ x.pwd = Password /\ x.want = "ok"
    BY DEF OnFile, Item
  <2>. HIDE DEF x
  <2>2. Unlocks(x, b) /\ b.pin[x.user] = c.pin[x.user] /\ x.file \in Files \ FilesIn(b, x.user)
    BY <1>1, <1>2, <1>5, <1>6, <2>1
  <2>3. c.lcs[x.user] = [b.lcs[x.user] EXCEPT ![x.file] = "use"]
    BY <1>1, <1>2, <1>4, <2>1
  <2>4. Changed(x, b, c) /\ But(x.user, b, c)
    BY <1>1, <1>2, <2>1, <2>2, <2>3 DEF Changed, But
  <2>. QED
    BY <1>1, <2>1, <2>4 DEF Does, x
<1>7. ASSUME f \in F PROVE Does(t, h, g, OnFile("delete_bf", u, f, "ok"), b, d)
  <2>. DEFINE x == OnFile("delete_bf", u, f, "ok")
  <2>1. x.op = "delete_bf" /\ x.user = u /\ x.file = f /\ x.pwd = Password /\ x.want = "ok"
    BY DEF OnFile, Item
  <2>. HIDE DEF x
  <2>2. Changed(x, b, d) /\ But(x.user, b, d)
    BY <1>1, <1>3, <1>4, <1>5, <1>7, <2>1 DEF Changed, But
  <2>. QED
    BY <1>1, <2>1, <2>2 DEF Does, x
<1>8. ASSUME f \in F PROVE Does(t, h, g, OnFile("read_bf", u, f, "data"), b, b)
  <2>. DEFINE x == OnFile("read_bf", u, f, "data")
  <2>1. x.op = "read_bf" /\ x.user = u /\ x.file = f /\ x.pwd = Password /\ x.want = "data"
    BY DEF OnFile, Item
  <2>. HIDE DEF x
  <2>2. Unlocks(x, b)
    BY <1>5, <2>1
  <2>3. Looked(t, h, g, x, b)
    BY <1>1, <1>4, <1>8, <2>1, <2>2 DEF Looked
  <2>. QED
    BY <1>1, <2>3 DEF Does, x
<1>. QED
  BY <1>6, <1>7, <1>8 DEF b, c, d

-----------------------------------------------------------------------------
(* Loops.                                                                   *)

\* A set in the order of a loop has no element twice.
LEMMA SetToSeqOnce ==
  ASSUME NEW S, IsFiniteSet(S)
  PROVE  \A j, k \in 1..Cardinality(S) : SetToSeq(S)[j] = SetToSeq(S)[k] => j = k
<1>. DEFINE n == Cardinality(S)
            s == SetToSeq(S)
<1>1. n \in Nat /\ ExistsBijection(1..n, S)
  BY FS_CardinalityType
<1>2. \E f \in [1..n -> S] : IsInjective(f)
  BY <1>1 DEF ExistsBijection, Bijection, Injection
<1>3. s \in [1..n -> S] /\ IsInjective(s)
  BY <1>2 DEF SetToSeq
<1>. QED
  BY <1>3 DEF IsInjective

\* The states along a list.
LEMMA RunsAlong ==
  ASSUME NEW t, NEW h, NEW g, NEW n \in Nat, NEW s \in Seq(Items), Len(s) = n,
         NEW r \in [1..n + 1 -> State],
         \A k \in 1..n : Does(t, h, g, s[k], r[k], r[k + 1])
  PROVE  Runs(t, h, g, s, r[1], r[n + 1])
BY DEF Runs

\* From an item of a turn to the next, of the same or of the next turn.
LEMMA TurnNext ==
  ASSUME NEW l \in Nat
  PROVE  /\ \A k \in 1..2 * l :
              /\ ((k - 1) % 2) + 1 # 2 => /\ k + 1 # 2 * l + 1
                                         /\ (k \div 2) + 1 = ((k - 1) \div 2) + 1
                                         /\ (k % 2) + 1 = ((k - 1) % 2) + 1 + 1
              /\ ((k - 1) % 2) + 1 = 2 =>
                   (k % 2) + 1 = 1 /\ (k # 2 * l => (k \div 2) + 1 \in 1..l)
         /\ \A k \in 1..4 * l :
              /\ ((k - 1) % 4) + 1 # 4 => /\ k + 1 # 4 * l + 1
                                         /\ (k \div 4) + 1 = ((k - 1) \div 4) + 1
                                         /\ (k % 4) + 1 = ((k - 1) % 4) + 1 + 1
              /\ ((k - 1) % 4) + 1 = 4 =>
                   (k % 4) + 1 = 1 /\ (k # 4 * l => (k \div 4) + 1 \in 1..l)
<1>1. ASSUME NEW k \in 1..2 * l
      PROVE  /\ ((k - 1) % 2) + 1 # 2 => /\ k + 1 # 2 * l + 1
                                         /\ (k \div 2) + 1 = ((k - 1) \div 2) + 1
                                         /\ (k % 2) + 1 = ((k - 1) % 2) + 1 + 1
             /\ ((k - 1) % 2) + 1 = 2 =>
                  (k % 2) + 1 = 1 /\ (k # 2 * l => (k \div 2) + 1 \in 1..l)
  OBVIOUS
<1>2. ASSUME NEW k \in 1..4 * l
      PROVE  /\ ((k - 1) % 4) + 1 # 4 => /\ k + 1 # 4 * l + 1
                                         /\ (k \div 4) + 1 = ((k - 1) \div 4) + 1
                                         /\ (k % 4) + 1 = ((k - 1) % 4) + 1 + 1
             /\ ((k - 1) % 4) + 1 = 4 =>
                  (k % 4) + 1 = 1 /\ (k # 4 * l => (k \div 4) + 1 \in 1..l)
  OBVIOUS
<1>. QED
  BY <1>1, <1>2

\* Turns that each lead from a back to a.
LEMMA TurnsRun ==
  ASSUME NEW t, NEW h, NEW g, NEW n \in {2, 4}, NEW turns, NEW l \in Nat, Len(turns) = l,
         \A m \in 1..l, j \in 1..n : turns[m][j] \in Items,
         NEW a \in State, NEW q \in [1..l -> [1..n + 1 -> State]],
         \A m \in 1..l : q[m][1] = a /\ q[m][n + 1] = a,
         \A m \in 1..l, j \in 1..n : Does(t, h, g, turns[m][j], q[m][j], q[m][j + 1])
  PROVE  Runs(t, h, g, InTurn(turns, n), a, a)
<1>. DEFINE s == InTurn(turns, n)
            turn(k) == ((k - 1) \div n) + 1
            item(k) == ((k - 1) % n) + 1
            state(k) == IF k = n * l + 1 THEN a ELSE q[turn(k)][item(k)]
            r == [k \in 1..n * l + 1 |-> state(k)]
<1>1. s \in Seq(Items) /\ Len(s) = n * l
  BY InTurnIs
<1>2. n * l \in Nat
  BY <1>1
<1>3. \A k \in 1..n * l : turn(k) \in 1..l /\ item(k) \in 1..n
  BY TurnBounds
<1>4. \A k \in 1..n * l : s[k] = turns[turn(k)][item(k)]
  BY DEF InTurn
<1>5. ASSUME NEW k \in 1..n * l PROVE state(k) = q[turn(k)][item(k)] /\ state(k) \in State
  <2>1. k # n * l + 1
    BY <1>2
  <2>2. turn(k) \in 1..l /\ item(k) \in 1..n + 1
    BY <1>3
  <2>. HIDE DEF turn, item
  <2>. QED
    BY <2>1, <2>2
<1>6. ASSUME NEW k \in 1..n * l PROVE state(k + 1) = q[turn(k)][item(k) + 1]
  <2>1. /\ item(k) # n => k + 1 # n * l + 1 /\ turn(k + 1) = turn(k) /\ item(k + 1) = item(k) + 1
        /\ item(k) = n => item(k + 1) = 1 /\ (k # n * l => turn(k + 1) \in 1..l)
    <3>1. k + 1 - 1 = k
      OBVIOUS
    <3>2. turn(k + 1) = (k \div n) + 1 /\ item(k + 1) = (k % n) + 1
      BY <3>1
    <3>3. /\ item(k) # n =>
               k + 1 # n * l + 1 /\ (k \div n) + 1 = turn(k) /\ (k % n) + 1 = item(k) + 1
          /\ item(k) = n => (k % n) + 1 = 1 /\ (k # n * l => (k \div n) + 1 \in 1..l)
      <4>1. CASE n = 2
        BY <4>1, TurnNext
      <4>2. CASE n = 4
        BY <4>2, TurnNext
      <4>. QED
        BY <4>1, <4>2
    <3>. HIDE DEF turn, item
    <3>. QED
      BY <3>2, <3>3
  <2>2. turn(k) \in 1..l /\ item(k) \in 1..n
    BY <1>3
  <2>3. k = n * l <=> k + 1 = n * l + 1
    BY <1>2
  <2>. HIDE DEF turn, item
  <2>4. CASE item(k) # n
    BY <2>1, <2>4
  <2>5. CASE item(k) = n
    BY <2>1, <2>2, <2>3, <2>5
  <2>. QED
    BY <2>4, <2>5
<1>7. ASSUME NEW k \in 1..n * l PROVE Does(t, h, g, s[k], state(k), state(k + 1))
  <2>. HIDE DEF turn, item, state, s
  <2>. QED
    BY <1>3, <1>4, <1>5, <1>6
<1>8. state(n * l + 1) = a
  OBVIOUS
<1>9. state(1) = a
  <2>1. CASE n * l = 0
    BY <2>1
  <2>2. CASE n * l # 0
    <3>1. 1 \in 1..n * l /\ turn(1) = 1 /\ item(1) = 1
      <4>1. CASE n = 2
        BY <1>2, <2>2, <4>1
      <4>2. CASE n = 4
        BY <1>2, <2>2, <4>2
      <4>. QED
        BY <4>1, <4>2
    <3>2. 1 \in 1..l
      BY <1>3, <3>1
    <3>. HIDE DEF turn, item, state
    <3>. QED
      BY <1>5, <3>1, <3>2
  <2>. QED
    BY <2>1, <2>2
<1>. HIDE DEF state, s, turn, item
<1>10. /\ r \in [1..n * l + 1 -> State] /\ r[1] = a /\ r[n * l + 1] = a
       /\ \A k \in 1..n * l : r[k] = state(k) /\ r[k + 1] = state(k + 1)
  <2>1. ASSUME NEW k \in 1..n * l + 1 PROVE state(k) \in State
    <3>1. k \in 1..n * l \/ k = n * l + 1
      BY <1>2
    <3>. QED
      BY <1>5, <1>8, <3>1
  <2>2. \A k \in 1..n * l : k \in 1..n * l + 1 /\ k + 1 \in 1..n * l + 1
    BY <1>2
  <2>3. 1 \in 1..n * l + 1 /\ n * l + 1 \in 1..n * l + 1
    BY <1>2
  <2>. QED
    BY <1>8, <1>9, <2>1, <2>2, <2>3
<1>. HIDE DEF r
<1>11. Runs(t, h, g, s, r[1], r[n * l + 1])
  BY <1>1, <1>2, <1>7, <1>10, RunsAlong
<1>. QED
  BY <1>10, <1>11 DEF s

\* The files of a user, created, read and deleted in the order of the loop.
LEMMA FilesRun ==
  ASSUME NEW t, NEW h, NEW g, NEW a \in State, a.chan = "open", NEW u \in Users
  PROVE  LET e == Has(a, u, Password, {})
             f == Has(a, u, Password, Files) IN
         /\ Runs(t, h, g, OnFiles("create_bf", u, "ok"), e, f)
         /\ Runs(t, h, g, OnFiles("read_bf", u, "data"), f, f)
         /\ Runs(t, h, g, OnFiles("delete_bf", u, "ok"), f, e)
<1>. DEFINE n == Cardinality(Files)
            upto(k) == {FileIds[j] : j \in 1..k - 1}
            full(k) == Has(a, u, Password, upto(k))
            rest(k) == Has(a, u, Password, Files \ upto(k))
            whole == Has(a, u, Password, Files)
            list(o, want) == OnFiles(o, u, want)
<1>1. /\ n \in Nat /\ DOMAIN FileIds = 1..n
      /\ \A k \in 1..n : FileIds[k] \in Files
      /\ \A f \in Files : \E k \in 1..n : FileIds[k] = f
      /\ \A j, k \in 1..n : FileIds[j] = FileIds[k] => j = k
  BY ElementAssumption, SetToSeqIs, SetToSeqOnce DEF FileIds
<1>2. Password \in Passwords /\ u \in UserArgs
  BY TestAssumption DEF UserArgs
<1>. HIDE DEF n
<1>3. ASSUME NEW o \in FileOps, NEW want \in {"ok", "data"}
      PROVE  /\ list(o, want) \in Seq(Items) /\ Len(list(o, want)) = n
             /\ \A k \in 1..n : list(o, want)[k] = OnFile(o, u, FileIds[k], want)
  <2>1. \A k \in 1..n : OnFile(o, u, FileIds[k], want) \in Items
    BY <1>1, <1>2, ItemsAre DEF Acts, PlainItems
  <2>2. OnFiles(o, u, want) = [k \in 1..n |-> OnFile(o, u, FileIds[k], want)]
    BY <1>1 DEF OnFiles
  <2>. QED
    BY <1>1, <2>1, <2>2
<1>4. \A k \in 1..n + 1 : upto(k) \in SUBSET Files
  BY <1>1
<1>5. upto(1) = {} /\ upto(n + 1) = Files
  BY <1>1
<1>6. ASSUME NEW k \in 1..n
      PROVE  FileIds[k] \notin upto(k) /\ upto(k + 1) = upto(k) \cup {FileIds[k]}
  BY <1>1
<1>. HIDE DEF upto
<1>7. \A k \in 1..n + 1 : full(k) \in State /\ rest(k) \in State
  <2>1. \A k \in 1..n + 1 : upto(k) \in SUBSET Files /\ Files \ upto(k) \in SUBSET Files
    BY <1>4
  <2>. QED
    BY <1>2, <2>1, HasIs
<1>8. whole \in State
  BY <1>2, HasIs
<1>9. ASSUME NEW k \in 1..n
      PROVE  /\ Does(t, h, g, list("create_bf", "ok")[k], full(k), full(k + 1))
             /\ Does(t, h, g, list("delete_bf", "ok")[k], rest(k), rest(k + 1))
             /\ Does(t, h, g, list("read_bf", "data")[k], whole, whole)
  <2>. DEFINE f == FileIds[k]
              b(G) == Has(a, u, Password, G)
  <2>1. f \in Files /\ f \notin upto(k) /\ upto(k + 1) = upto(k) \cup {f}
        /\ upto(k) \in SUBSET Files /\ k \in 1..n + 1
    BY <1>1, <1>4, <1>6
  <2>2. /\ list("create_bf", "ok")[k] = OnFile("create_bf", u, f, "ok")
        /\ list("delete_bf", "ok")[k] = OnFile("delete_bf", u, f, "ok")
        /\ list("read_bf", "data")[k] = OnFile("read_bf", u, f, "data")
    BY <1>3 DEF FileOps
  <2>. HIDE DEF f, list
  <2>3. Does(t, h, g, OnFile("create_bf", u, f, "ok"), b(upto(k)), b(upto(k + 1)))
    BY <2>1, HoldsFile
  <2>4. Does(t, h, g, OnFile("delete_bf", u, f, "ok"), b(Files \ upto(k)), b(Files \ upto(k + 1)))
    <3>1. Files \ upto(k) \in SUBSET Files /\ f \in Files \ upto(k)
          /\ (Files \ upto(k)) \ {f} = Files \ upto(k + 1)
      BY <2>1
    <3>. QED
      BY <2>1, <3>1, HoldsFile
  <2>5. Does(t, h, g, OnFile("read_bf", u, f, "data"), b(Files), b(Files))
    BY <2>1, HoldsFile
  <2>. QED
    BY <2>2, <2>3, <2>4, <2>5
<1>10. \A k \in 1..n : k \in 1..n + 1 /\ k + 1 \in 1..n + 1
  BY <1>1
<1>11. 1 \in 1..n + 1 /\ n + 1 \in 1..n + 1
  BY <1>1
<1>. HIDE DEF list, whole, full, rest
<1>12. Runs(t, h, g, list("create_bf", "ok"), full(1), full(n + 1))
  <2>. DEFINE r == [k \in 1..n + 1 |-> full(k)]
              s == list("create_bf", "ok")
  <2>1. s \in Seq(Items) /\ Len(s) = n
    BY <1>3 DEF FileOps
  <2>2. r \in [1..n + 1 -> State] /\ r[1] = full(1) /\ r[n + 1] = full(n + 1)
    BY <1>7, <1>11
  <2>3. \A k \in 1..n : Does(t, h, g, s[k], r[k], r[k + 1])
    BY <1>9, <1>10
  <2>. HIDE DEF r, s
  <2>4. Runs(t, h, g, s, r[1], r[n + 1])
    BY <1>1, <2>1, <2>2, <2>3, RunsAlong
  <2>. QED
    BY <2>2, <2>4 DEF s
<1>13. Runs(t, h, g, list("delete_bf", "ok"), rest(1), rest(n + 1))
  <2>. DEFINE r == [k \in 1..n + 1 |-> rest(k)]
              s == list("delete_bf", "ok")
  <2>1. s \in Seq(Items) /\ Len(s) = n
    BY <1>3 DEF FileOps
  <2>2. r \in [1..n + 1 -> State] /\ r[1] = rest(1) /\ r[n + 1] = rest(n + 1)
    BY <1>7, <1>11
  <2>3. \A k \in 1..n : Does(t, h, g, s[k], r[k], r[k + 1])
    BY <1>9, <1>10
  <2>. HIDE DEF r, s
  <2>4. Runs(t, h, g, s, r[1], r[n + 1])
    BY <1>1, <2>1, <2>2, <2>3, RunsAlong
  <2>. QED
    BY <2>2, <2>4 DEF s
<1>14. Runs(t, h, g, list("read_bf", "data"), whole, whole)
  <2>1. list("read_bf", "data") \in Seq(Items) /\ Len(list("read_bf", "data")) = n
    BY <1>3 DEF FileOps
  <2>. QED
    BY <1>8, <1>9, <2>1, RunsStill
<1>15. /\ full(1) = Has(a, u, Password, {}) /\ full(n + 1) = whole
       /\ rest(1) = whole /\ rest(n + 1) = Has(a, u, Password, {})
  <2>1. Files \ {} = Files /\ Files \ Files = {}
    OBVIOUS
  <2>. QED
    BY <1>5, <2>1 DEF full, rest, whole
<1>. QED
  BY <1>12, <1>13, <1>14, <1>15 DEF list, whole

\* A user's files are written, listed and read, or deleted and listed.
LEMMA FillsAndEmpties ==
  ASSUME NEW t, NEW h, NEW g, NEW a \in State, a.chan = "open", NEW u \in Users
  PROVE  LET e == Has(a, u, Password, {})
             f == Has(a, u, Password, Files) IN
         /\ Runs(t, h, g, FillFiles(u), e, f)
         /\ Runs(t, h, g, EmptyFiles(u), f, e)
<1>. DEFINE e == Has(a, u, Password, {})
            f == Has(a, u, Password, Files)
            all == ListOf(u, "all files")
            no == ListOf(u, "no files")
<1>1. Password \in Passwords /\ u \in UserArgs
  BY TestAssumption DEF UserArgs
<1>2. e \in State /\ f \in State
  BY <1>1, HasIs
<1>3. /\ Runs(t, h, g, OnFiles("create_bf", u, "ok"), e, f)
      /\ Runs(t, h, g, OnFiles("read_bf", u, "data"), f, f)
      /\ Runs(t, h, g, OnFiles("delete_bf", u, "ok"), f, e)
  BY FilesRun
<1>4. all \in Items /\ no \in Items
  BY <1>1, ItemsAre DEF Asks, PlainItems
<1>5. Does(t, h, g, all, f, f)
  BY <1>1, HoldsOn
<1>6. Does(t, h, g, no, e, e)
  BY <1>1, HoldsOn
<1>. HIDE DEF e, f, all, no
<1>7. Runs(t, h, g, <<all>>, f, f) /\ Runs(t, h, g, <<no>>, e, e)
  BY <1>2, <1>4, <1>5, <1>6, RunsOne
<1>8. Runs(t, h, g, OnFiles("create_bf", u, "ok") \o <<all>>, e, f)
  BY <1>3, <1>7, RunsConcat
<1>9. Runs(t, h, g, (OnFiles("create_bf", u, "ok") \o <<all>>) \o OnFiles("read_bf", u, "data"), e, f)
  BY <1>3, <1>8, RunsConcat
<1>10. Runs(t, h, g, OnFiles("delete_bf", u, "ok") \o <<no>>, f, e)
  BY <1>3, <1>7, RunsConcat
<1>. QED
  BY <1>9, <1>10 DEF e, f, all, no, FillFiles, EmptyFiles

\* The registration of a user who is not there, and the unregistration.
LEMMA ComesAndGoes ==
  ASSUME NEW t, NEW h, NEW g, NEW a \in State, a.chan = "open", NEW u \in Users,
         a.lcs[u] = NoFiles, a.pin[u] = None, NEW p \in Passwords
  PROVE  /\ u \notin UsersOf(a)
         /\ Runs(t, h, g, <<Register(u, p, "ok")>>, a, Has(a, u, p, {}))
         /\ Runs(t, h, g, <<Unregister(u, p)>>, Has(a, u, p, {}), a)
         /\ Register(u, p, "ok") \in Items /\ Unregister(u, p) \in Items
         /\ Has(a, u, p, {}) \in State
<1>1. u \notin UsersOf(a)
  BY NodeNames DEF UsersOf, NoFiles
<1>2. Has(a, u, p, {}) \in State
  BY HasIs
<1>3. Register(u, p, "ok") \in Items /\ Unregister(u, p) \in Items
  BY ItemsAre DEF UserArgs, Acts, PlainItems
<1>4. /\ Does(t, h, g, Register(u, p, "ok"), a, Has(a, u, p, {}))
      /\ Does(t, h, g, Unregister(u, p), Has(a, u, p, {}), a)
  BY <1>1, HoldsOn
<1>. QED
  BY <1>1, <1>2, <1>3, <1>4, RunsOne

\* The channel is closed.
LEMMA Closing ==
  ASSUME NEW t, NEW h, NEW g, NEW a \in State
  PROVE  \E b \in State : /\ Runs(t, h, g, <<Local("close")>>, a, b)
                          /\ b.lcs = a.lcs /\ b.pin = a.pin
<1>. DEFINE b == [lcs |-> a.lcs, pin |-> a.pin, chan |-> "close"]
            x == Local("close")
<1>1. b \in State /\ b.lcs = a.lcs /\ b.pin = a.pin
  BY StateIs DEF State
<1>2. x \in Items
  <2>1. BadUser \in UserArgs
    BY DEF UserArgs
  <2>. QED
    BY <2>1, ItemsAre DEF Asks, PlainItems
<1>3. x.op = "close"
  BY DEF Local, Item
<1>4. Does(t, h, g, x, a, b)
  BY <1>3 DEF Does
<1>. HIDE DEF b, x
<1>5. Runs(t, h, g, <<x>>, a, b)
  BY <1>1, <1>2, <1>4, RunsOne
<1>. QED
  BY <1>1, <1>5 DEF x

\* A call with a bad argument changes nothing.
LEMMA BadIsRefused ==
  ASSUME NEW t, NEW h, NEW g, NEW a \in State, a.chan = "open",
         NEW x \in Items, x.op \in Ops \ {"list_users"}, x.want = "error", BadArgument(x)
  PROVE  Does(t, h, g, x, a, a)
BY DEF Does, Looked

\* create_delete_file_test_1.
LEMMA CreateDeleteRuns ==
  ASSUME NEW t, NEW h, NEW g, NEW a \in State, a.chan = "open", NEW u \in Users,
         a.lcs[u] = NoFiles, a.pin[u] = None
  PROVE  Runs(t, h, g, create_delete_file_test_1(u), a, a)
<1>. DEFINE e == Has(a, u, Password, {})
            f == Has(a, u, Password, Files)
            r == <<Register(u, Password, "ok")>>
            z == <<Unregister(u, Password)>>
<1>1. Runs(t, h, g, r, a, e) /\ Runs(t, h, g, z, e, a)
  BY TestAssumption, ComesAndGoes
<1>2. Runs(t, h, g, FillFiles(u), e, f) /\ Runs(t, h, g, EmptyFiles(u), f, e)
  BY FillsAndEmpties
<1>. HIDE DEF e, f, r, z
<1>3. Runs(t, h, g, r \o FillFiles(u), a, f)
  BY <1>1, <1>2, RunsConcat
<1>4. Runs(t, h, g, (r \o FillFiles(u)) \o EmptyFiles(u), a, e)
  BY <1>2, <1>3, RunsConcat
<1>5. Runs(t, h, g, ((r \o FillFiles(u)) \o EmptyFiles(u)) \o z, a, a)
  BY <1>1, <1>4, RunsConcat
<1>. QED
  BY <1>5 DEF r, z, create_delete_file_test_1

\* A list of five.
LEMMA FiveItems ==
  ASSUME NEW S, NEW x1 \in S, NEW x2 \in S, NEW x3 \in S, NEW x4 \in S, NEW x5 \in S
  PROVE  LET s == <<x1, x2, x3, x4, x5>> IN
           /\ s \in Seq(S) /\ Len(s) = 5
           /\ s[1] = x1 /\ s[2] = x2 /\ s[3] = x3 /\ s[4] = x4 /\ s[5] = x5
OBVIOUS

\* add_delete_user_test_1: there is one user more, for a while.
LEMMA AddDeleteRuns ==
  ASSUME NEW t, NEW h, NEW g, NEW a \in State, a.chan = "open", NEW u \in Users,
         a.lcs[u] = NoFiles, a.pin[u] = None, before = Cardinality(UsersOf(a))
  PROVE  Runs(t, h, g, add_delete_user_test_1(u), a, a)
<1>. DEFINE e == Has(a, u, Password, {})
            s == add_delete_user_test_1(u)
            n == before + 1
            r == [k \in 1..6 |-> IF k \in {2, 3, 4} THEN e ELSE a]
<1>1. Password \in Passwords /\ u \in UserArgs
  BY TestAssumption DEF UserArgs
<1>2. u \notin UsersOf(a) /\ e \in State
  BY <1>1, ComesAndGoes
<1>3. UsersOf(e) = UsersOf(a) \cup {u} /\ e.chan = "open"
  BY <1>1, HasIs
<1>4. before \in Nat /\ Cardinality(UsersOf(e)) = n
  <2>1. UsersOf(a) \subseteq Users
    BY DEF UsersOf
  <2>2. IsFiniteSet(UsersOf(a))
    BY <2>1, ElementAssumption, FS_Subset
  <2>. QED
    BY <1>2, <1>3, <2>2, FS_AddElement, FS_CardinalityType
<1>5. /\ Does(t, h, g, Register(u, Password, "ok"), a, e)
      /\ Does(t, h, g, IsRegistered(u, "registered"), e, e)
      /\ Does(t, h, g, Unregister(u, Password), e, a)
      /\ Does(t, h, g, IsRegistered(u, "not registered"), a, a)
  BY <1>1, <1>2, HoldsOn
<1>. HIDE DEF e
<1>6. Does(t, h, g, Count("count", n), e, e)
  <2>. DEFINE x == Count("count", n)
  <2>1. x.op = "list_users" /\ x.want = "count" /\ x.count = n
    BY DEF Count, Item
  <2>. HIDE DEF x
  <2>. QED
    BY <1>3, <1>4, <2>1 DEF Does, Looked, x
<1>7. /\ Register(u, Password, "ok") \in Items /\ IsRegistered(u, "registered") \in Items
      /\ Count("count", n) \in Items /\ Unregister(u, Password) \in Items
      /\ IsRegistered(u, "not registered") \in Items
  <2>1. n \in Nat
    BY <1>4
  <2>. QED
    BY <1>1, <2>1, ItemsAre DEF Acts, Asks, PlainItems
<1>8. /\ s \in Seq(Items) /\ Len(s) = 5 /\ s[1] = Register(u, Password, "ok") /\ s[2] = IsRegistered(u, "registered")
      /\ s[3] = Count("count", n) /\ s[4] = Unregister(u, Password)
      /\ s[5] = IsRegistered(u, "not registered")
  <2>. HIDE DEF n
  <2>1. s = <<Register(u, Password, "ok"), IsRegistered(u, "registered"), Count("count", n),
              Unregister(u, Password), IsRegistered(u, "not registered")>>
    BY DEF add_delete_user_test_1, n
  <2>. HIDE DEF s
  <2>. QED
    BY <1>7, <2>1, FiveItems
<1>10. r \in [1..5 + 1 -> State] /\ r[1] = a /\ r[2] = e /\ r[3] = e /\ r[4] = e /\ r[5] = a /\ r[6] = a
  BY <1>2
<1>. HIDE DEF r, s, n
<1>11. \A k \in 1..5 : k = 1 \/ k = 2 \/ k = 3 \/ k = 4 \/ k = 5
  OBVIOUS
<1>12. ASSUME NEW k \in 1..5 PROVE Does(t, h, g, s[k], r[k], r[k + 1])
  <2>1. r[1 + 1] = e /\ r[2 + 1] = e /\ r[3 + 1] = e /\ r[4 + 1] = a /\ r[5 + 1] = a
    BY <1>10
  <2>2. CASE k = 1
    BY <1>5, <1>8, <1>10, <2>1, <2>2
  <2>3. CASE k = 2
    BY <1>5, <1>8, <1>10, <2>1, <2>3
  <2>4. CASE k = 3
    BY <1>6, <1>8, <1>10, <2>1, <2>4
  <2>5. CASE k = 4
    BY <1>5, <1>8, <1>10, <2>1, <2>5
  <2>6. CASE k = 5
    BY <1>5, <1>8, <1>10, <2>1, <2>6
  <2>. QED
    BY <1>11, <2>2, <2>3, <2>4, <2>5, <2>6
<1>13. Runs(t, h, g, s, r[1], r[5 + 1])
  BY <1>8, <1>10, <1>12, RunsAlong
<1>. QED
  BY <1>10, <1>13 DEF s

\* check_file_id_test.
LEMMA CheckFileRuns ==
  ASSUME NEW h, NEW g, NEW a \in State, a.chan = "open", NEW u \in Users,
         a.lcs[u] = NoFiles, a.pin[u] = None
  PROVE  \E b \in State : /\ Runs("check_file_id_test", h, g, check_file_id_test(u), a, b)
                          /\ b.lcs = a.lcs /\ b.pin = a.pin
<1>. DEFINE t == "check_file_id_test"
            e == Has(a, u, Password, {})
            f(k) == Append(FileIds, BadFile)[k]
            c(k) == Has(a, u, Password, {f(k)})
            bad == OnFile("create_bf", u, BadFile, "error")
            refused == [k \in 1..2 |-> bad]
            turns == [k \in 1..Len(FileIds) + 1 |->
                       <<OnFile("create_bf", u, f(k), "ok"), OnFile("delete_bf", u, f(k), "ok")>>]
            l == Len(FileIds) + 1
            r == <<Register(u, Password, "ok")>>
            x == <<Unregister(u, Password)>>
            z == <<Local("close")>>
<1>1. Password \in Passwords /\ u \in UserArgs
  BY TestAssumption DEF UserArgs
<1>2. Runs(t, h, g, r, a, e) /\ Runs(t, h, g, x, e, a) /\ e \in State
      /\ Unregister(u, Password) \in Items
  BY <1>1, ComesAndGoes
<1>3. e.chan = "open" /\ e.lcs[u] = Holder({}) /\ e.pin[u] = Password
  BY <1>1, HasIs
<1>4. PICK b \in State : Runs(t, h, g, z, a, b) /\ b.lcs = a.lcs /\ b.pin = a.pin
  BY Closing
<1>5. Runs(t, h, g, refused, e, e)
  <2>1. bad \in Items
    BY <1>1, ItemsAre DEF FileOps, Acts, PlainItems
  <2>2. bad.op = "create_bf" /\ bad.want = "error" /\ bad.file = BadFile
    BY DEF OnFile, Item
  <2>. HIDE DEF bad, e
  <2>3. Does(t, h, g, bad, e, e)
    BY <1>2, <1>3, <2>1, <2>2, BadIsRefused DEF Ops, FileOps, BadArgument
  <2>4. refused \in Seq(Items) /\ \A k \in 1..Len(refused) : refused[k] = bad
    BY <2>1
  <2>. HIDE DEF refused
  <2>. QED
    BY <1>2, <2>3, <2>4, RunsStill
<1>6. Runs(t, h, g, InTurn(turns, 2), e, e)
  <2>1. FileIds \in Seq(Files) /\ Len(FileIds) \in Nat
    BY ElementAssumption, SetToSeqIs DEF FileIds
  <2>2. \A k \in 1..l : f(k) \in Files \cup {BadFile}
    <3>1. FileIds \in Seq(Files \cup {BadFile})
      BY <2>1, SeqMonotonic
    <3>2. /\ Append(FileIds, BadFile) \in Seq(Files \cup {BadFile})
          /\ Len(Append(FileIds, BadFile)) = l
      BY <3>1, AppendProperties
    <3>. QED
      BY <3>2, ElementOfSeq
  <2>. HIDE DEF f
  <2>3. l \in Nat /\ Len(turns) = l
    BY <2>1
  <2>4. \A k \in 1..l : /\ turns[k][1] = OnFile("create_bf", u, f(k), "ok")
                        /\ turns[k][2] = OnFile("delete_bf", u, f(k), "ok")
    OBVIOUS
  <2>. HIDE DEF turns, l
  <2>. DEFINE mid(k) == IF f(k) = BadFile THEN e ELSE c(k)
              q == [k \in 1..l |-> [j \in 1..2 + 1 |-> IF j = 2 THEN mid(k) ELSE e]]
  <2>5. ASSUME NEW k \in 1..l
        PROVE  /\ OnFile("create_bf", u, f(k), "ok") \in Items
               /\ OnFile("delete_bf", u, f(k), "ok") \in Items
               /\ mid(k) \in State
               /\ Does(t, h, g, OnFile("create_bf", u, f(k), "ok"), e, mid(k))
               /\ Does(t, h, g, OnFile("delete_bf", u, f(k), "ok"), mid(k), e)
    <3>. DEFINE x1 == OnFile("create_bf", u, f(k), "ok")
                x2 == OnFile("delete_bf", u, f(k), "ok")
    <3>1. x1 \in Items /\ x2 \in Items
      BY <1>1, <2>2, ItemsAre DEF FileOps, Acts, PlainItems
    <3>2. CASE f(k) = BadFile
      <4>1. /\ x1.op = "create_bf" /\ x1.want = "ok" /\ x1.file = BadFile
            /\ x2.op = "delete_bf" /\ x2.want = "ok" /\ x2.file = BadFile
        BY <3>2 DEF OnFile, Item
      <4>2. mid(k) = e
        BY <3>2
      <4>. HIDE DEF x1, x2, mid, e
      <4>3. Does(t, h, g, x1, e, e) /\ Does(t, h, g, x2, e, e)
        BY <1>3, <4>1 DEF Does, Looked, Sixteen
      <4>. QED
        BY <1>2, <3>1, <4>2, <4>3 DEF x1, x2
    <3>3. CASE f(k) # BadFile
      <4>1. f(k) \in Files /\ mid(k) = c(k)
        BY <2>2, <3>3
      <4>2. {f(k)} \in SUBSET Files /\ {} \cup {f(k)} = {f(k)} /\ {f(k)} \ {f(k)} = {}
        BY <4>1
      <4>3. c(k) \in State
        BY <1>1, <4>2, HasIs
      <4>4. Does(t, h, g, x1, e, c(k))
        BY <4>1, <4>2, HoldsFile
      <4>5. Does(t, h, g, x2, c(k), e)
        BY <4>1, <4>2, HoldsFile
      <4>. HIDE DEF x1, x2, mid, e, c
      <4>. QED
        BY <3>1, <4>1, <4>3, <4>4, <4>5 DEF x1, x2
    <3>. QED
      BY <3>2, <3>3
  <2>. HIDE DEF mid, e
  <2>6. /\ q \in [1..l -> [1..2 + 1 -> State]]
        /\ \A k \in 1..l : q[k][1] = e /\ q[k][2] = mid(k) /\ q[k][2 + 1] = e
    BY <1>2, <2>5
  <2>. HIDE DEF q
  <2>7. \A j \in 1..2 : j = 1 \/ j = 2
    OBVIOUS
  <2>8. ASSUME NEW m \in 1..l, NEW j \in 1..2
        PROVE  turns[m][j] \in Items /\ Does(t, h, g, turns[m][j], q[m][j], q[m][j + 1])
    BY <2>4, <2>5, <2>6, <2>7
  <2>. QED
    BY <1>2, <2>3, <2>6, <2>8, TurnsRun
<1>7. check_file_id_test(u) = ((r \o refused) \o InTurn(turns, 2)) \o (x \o z)
  <2>1. Local("close") \in Items
    BY <1>1, ItemsAre DEF Asks, PlainItems
  <2>2. x \o z = <<Unregister(u, Password), Local("close")>>
    BY <1>2, <2>1, TwoItems
  <2>. QED
    BY <2>2 DEF check_file_id_test
<1>. HIDE DEF e, refused, turns, r, x, z
<1>8. Runs(t, h, g, r \o refused, a, e)
  BY <1>2, <1>5, RunsConcat
<1>9. Runs(t, h, g, (r \o refused) \o InTurn(turns, 2), a, e)
  BY <1>6, <1>8, RunsConcat
<1>10. Runs(t, h, g, x \o z, e, b)
  BY <1>2, <1>4, RunsConcat
<1>11. Runs(t, h, g, ((r \o refused) \o InTurn(turns, 2)) \o (x \o z), a, b)
  BY <1>9, <1>10, RunsConcat
<1>. QED
  BY <1>4, <1>7, <1>11

\* check_password_size_test.
LEMMA CheckPasswordRuns ==
  ASSUME NEW t, NEW h, NEW g, NEW a \in State, a.chan = "open", NEW u \in Users,
         a.lcs[u] = NoFiles, a.pin[u] = None
  PROVE  \E b \in State : /\ Runs(t, h, g, check_password_size_test(u), a, b)
                          /\ b.lcs = a.lcs /\ b.pin = a.pin
<1>. DEFINE bad == Register(u, BadPassword, "error")
            refused == <<bad, bad>>
            l == Cardinality(Passwords)
            p(k) == SetToSeq(Passwords)[k]
            e(k) == Has(a, u, p(k), {})
            turns == [k \in 1..l |-> PasswordRound(u, p(k))]
            q == [k \in 1..l |-> [j \in 1..4 + 1 |-> IF j \in {2, 3} THEN e(k) ELSE a]]
            z == <<Local("close")>>
<1>1. u \in UserArgs
  BY DEF UserArgs
<1>2. PICK b \in State : Runs(t, h, g, z, a, b) /\ b.lcs = a.lcs /\ b.pin = a.pin
  BY Closing
<1>3. Runs(t, h, g, refused, a, a)
  <2>1. bad \in Items
    BY <1>1, ItemsAre DEF Acts, PlainItems
  <2>2. bad.op = "register" /\ bad.want = "error" /\ bad.pwd = BadPassword
    BY DEF Register, Item
  <2>. HIDE DEF bad
  <2>3. Does(t, h, g, bad, a, a)
    BY <2>1, <2>2, BadIsRefused DEF Ops, PasswordOps, BadArgument
  <2>4. refused \in Seq(Items) /\ \A k \in 1..Len(refused) : refused[k] = bad
    BY <2>1
  <2>. HIDE DEF refused
  <2>. QED
    BY <2>3, <2>4, RunsStill
<1>4. Runs(t, h, g, InTurn(turns, 4), a, a)
  <2>1. l \in Nat /\ \A k \in 1..l : p(k) \in Passwords
    BY TestAssumption, SetToSeqIs
  <2>. HIDE DEF l, p
  <2>2. Len(turns) = l
    BY <2>1
  <2>3. ASSUME NEW k \in 1..l
        PROVE  /\ turns[k][1] = Register(u, p(k), "ok")
               /\ turns[k][2] = IsRegistered(u, "registered")
               /\ turns[k][3] = Unregister(u, p(k))
               /\ turns[k][4] = IsRegistered(u, "not registered")
    BY DEF PasswordRound
  <2>. HIDE DEF turns
  <2>4. ASSUME NEW k \in 1..l
        PROVE  /\ e(k) \in State
               /\ Does(t, h, g, Register(u, p(k), "ok"), a, e(k))
               /\ Does(t, h, g, IsRegistered(u, "registered"), e(k), e(k))
               /\ Does(t, h, g, Unregister(u, p(k)), e(k), a)
               /\ Does(t, h, g, IsRegistered(u, "not registered"), a, a)
    <3>1. p(k) \in Passwords
      BY <2>1
    <3>2. u \notin UsersOf(a) /\ e(k) \in State
      BY <3>1, ComesAndGoes
    <3>. QED
      BY <3>1, <3>2, HoldsOn
  <2>5. ASSUME NEW k \in 1..l
        PROVE  /\ Register(u, p(k), "ok") \in Items /\ IsRegistered(u, "registered") \in Items
               /\ Unregister(u, p(k)) \in Items /\ IsRegistered(u, "not registered") \in Items
    BY <1>1, <2>1, ItemsAre DEF Acts, Asks, PlainItems
  <2>. HIDE DEF e
  <2>6. /\ q \in [1..l -> [1..4 + 1 -> State]]
        /\ \A k \in 1..l : /\ q[k][1] = a /\ q[k][1 + 1] = e(k) /\ q[k][2] = e(k)
                           /\ q[k][2 + 1] = e(k) /\ q[k][3] = e(k)
                           /\ q[k][3 + 1] = a /\ q[k][4] = a /\ q[k][4 + 1] = a
    <3>. DEFINE state(k, j) == IF j \in {2, 3} THEN e(k) ELSE a
    <3>1. ASSUME NEW k \in 1..l, NEW j \in 1..4 + 1 PROVE state(k, j) \in State
      BY <2>4
    <3>2. ASSUME NEW k \in 1..l
          PROVE  /\ state(k, 1) = a /\ state(k, 2) = e(k) /\ state(k, 3) = e(k)
                 /\ state(k, 4) = a /\ state(k, 5) = a
      OBVIOUS
    <3>3. q = [k \in 1..l |-> [j \in 1..4 + 1 |-> state(k, j)]]
      OBVIOUS
    <3>. HIDE DEF state, q
    <3>4. ASSUME NEW k \in 1..l
          PROVE  /\ q[k] = [j \in 1..4 + 1 |-> state(k, j)]
                 /\ q[k] \in [1..4 + 1 -> State]
      BY <3>1, <3>3
    <3>5. q \in [1..l -> [1..4 + 1 -> State]]
      BY <3>1, <3>3
    <3>6. ASSUME NEW k \in 1..l, NEW j \in 1..5 PROVE q[k][j] = state(k, j)
      <4>1. j \in 1..4 + 1
        OBVIOUS
      <4>2. q[k] = [m \in 1..4 + 1 |-> state(k, m)]
        BY <3>4
      <4>. QED
        BY <4>1, <4>2
    <3>7. ASSUME NEW k \in 1..l
          PROVE  /\ q[k][1] = a /\ q[k][1 + 1] = e(k) /\ q[k][2] = e(k)
                 /\ q[k][2 + 1] = e(k) /\ q[k][3] = e(k)
                 /\ q[k][3 + 1] = a /\ q[k][4] = a /\ q[k][4 + 1] = a
      BY <3>2, <3>6
    <3>. QED
      BY <3>5, <3>7
  <2>. HIDE DEF q
  <2>7. \A j \in 1..4 : j = 1 \/ j = 2 \/ j = 3 \/ j = 4
    OBVIOUS
  <2>8. ASSUME NEW m \in 1..l, NEW j \in 1..4
        PROVE  turns[m][j] \in Items /\ Does(t, h, g, turns[m][j], q[m][j], q[m][j + 1])
    <3>1. CASE j = 1
      BY <2>3, <2>4, <2>5, <2>6, <3>1
    <3>2. CASE j = 2
      BY <2>3, <2>4, <2>5, <2>6, <3>2
    <3>3. CASE j = 3
      BY <2>3, <2>4, <2>5, <2>6, <3>3
    <3>4. CASE j = 4
      BY <2>3, <2>4, <2>5, <2>6, <3>4
    <3>. QED
      BY <2>7, <3>1, <3>2, <3>3, <3>4
  <2>. QED
    BY <2>1, <2>2, <2>6, <2>8, TurnsRun
<1>5. check_password_size_test(u) = (refused \o InTurn(turns, 4)) \o z
  BY DEF check_password_size_test
<1>. HIDE DEF refused, turns, z
<1>6. Runs(t, h, g, refused \o InTurn(turns, 4), a, a)
  BY <1>3, <1>4, RunsConcat
<1>7. Runs(t, h, g, (refused \o InTurn(turns, 4)) \o z, a, b)
  BY <1>2, <1>6, RunsConcat
<1>. QED
  BY <1>2, <1>5, <1>7

\* What a test does with a user it has found: the user stays if the test keeps
\* its users to the end, and the channel does if the loop goes on.
LEMMA FoundRuns ==
  ASSUME NEW t \in SearchTests, NEW h, NEW g, NEW a \in State, a.chan = "open", NEW u \in Users,
         a.lcs[u] = NoFiles, a.pin[u] = None,
         t = "add_delete_user_test_1" => before = Cardinality(UsersOf(a))
  PROVE  \E b \in State :
           /\ Runs(t, h, g, Found(t, u), a, b)
           /\ t \in KeepingTests => \E F \in SUBSET Files : b = Has(a, u, Password, F)
           /\ t \notin KeepingTests => b.lcs = a.lcs /\ b.pin = a.pin
           /\ ~ Breaks(t) => b.chan = "open"
<1>. DEFINE e == Has(a, u, Password, {})
            f == Has(a, u, Password, Files)
            r == <<Register(u, Password, "ok")>>
<1>1. e \in State /\ f \in State /\ e.chan = "open" /\ f.chan = "open"
  BY TestAssumption, HasIs
<1>2. Runs(t, h, g, r, a, e)
  BY TestAssumption, ComesAndGoes
<1>3. CASE t = "check_password_size_test"
  BY <1>3, CheckPasswordRuns DEF Found, Breaks, KeepingTests
<1>4. CASE t = "check_file_id_test"
  BY <1>4, CheckFileRuns DEF Found, Breaks, KeepingTests
<1>5. CASE t = "add_delete_user_test_1"
  <2>1. before = Cardinality(UsersOf(a))
    BY <1>5
  <2>. QED
    BY <1>5, <2>1, AddDeleteRuns DEF Found, KeepingTests
<1>6. CASE t = "add_delete_user_test_2"
  <2>1. Found(t, u) = r
    BY <1>6 DEF Found
  <2>. QED
    BY <1>1, <1>2, <1>6, <2>1 DEF KeepingTests
<1>7. CASE t = "create_delete_file_test_1"
  BY <1>7, CreateDeleteRuns DEF Found, KeepingTests
<1>8. CASE t = "create_delete_file_test_2"
  <2>1. Runs(t, h, g, create_delete_file_test_1(u), a, a)
    BY CreateDeleteRuns
  <2>2. PICK b \in State : Runs(t, h, g, <<Local("close")>>, a, b) /\ b.lcs = a.lcs /\ b.pin = a.pin
    BY Closing
  <2>3. Runs(t, h, g, create_delete_file_test_1(u) \o <<Local("close")>>, a, b)
    BY <2>1, <2>2, RunsConcat
  <2>4. Found(t, u) = create_delete_file_test_1(u) \o <<Local("close")>>
    BY <1>8 DEF Found
  <2>. QED
    BY <1>8, <2>2, <2>3, <2>4 DEF Breaks, KeepingTests
<1>9. CASE t = "create_delete_file_test_3"
  <2>1. Runs(t, h, g, FillFiles(u), e, f)
    BY FillsAndEmpties
  <2>2. Found(t, u) = r \o FillFiles(u)
    BY <1>9 DEF Found
  <2>. HIDE DEF r, e
  <2>3. Runs(t, h, g, Found(t, u), a, f)
    BY <1>2, <2>1, <2>2, RunsConcat
  <2>. QED
    BY <1>1, <1>9, <2>3 DEF KeepingTests
<1>. QED
  BY <1>3, <1>4, <1>5, <1>6, <1>7, <1>8, <1>9 DEF SearchTests, KeepingTests

-----------------------------------------------------------------------------
(* Who is registered along a list, and what is in it.                       *)

Amid(x, s) == \E k \in 1..Len(s) : s[k] = x

\* What is in a part is in the whole.
LEMMA AmidConcat ==
  ASSUME NEW a \in Seq(Items), NEW b \in Seq(Items), NEW x, Amid(x, a) \/ Amid(x, b)
  PROVE  Amid(x, a \o b)
<1>1. CASE Amid(x, a)
  <2>1. PICK k \in 1..Len(a) : a[k] = x
    BY <1>1 DEF Amid
  <2>2. k \in 1..Len(a \o b) /\ (a \o b)[k] = a[k]
    BY ConcatIs
  <2>. QED
    BY <2>1, <2>2 DEF Amid
<1>2. CASE Amid(x, b)
  <2>1. PICK k \in 1..Len(b) : b[k] = x
    BY <1>2 DEF Amid
  <2>2. Len(a) + k \in 1..Len(a \o b) /\ (a \o b)[Len(a) + k] = b[k]
    BY ConcatIs
  <2>. QED
    BY <2>1, <2>2 DEF Amid
<1>. QED
  BY <1>1, <1>2

\* Whoever is registered in the whole is in a part.
LEMMA NewcomersConcat ==
  ASSUME NEW a \in Seq(Items), NEW b \in Seq(Items)
  PROVE  Newcomers(a \o b) = Newcomers(a) \cup Newcomers(b)
<1>1. ASSUME NEW u \in Newcomers(a \o b) PROVE u \in Newcomers(a) \cup Newcomers(b)
  <2>1. PICK k \in 1..Len(a \o b) : Registration((a \o b)[k]) /\ (a \o b)[k].user = u
    BY DEF Newcomers
  <2>2. u \in Users
    BY DEF Newcomers
  <2>3. CASE k \in 1..Len(a)
    <3>1. (a \o b)[k] = a[k]
      BY <2>3, ConcatIs
    <3>. QED
      BY <2>1, <2>2, <2>3, <3>1 DEF Newcomers
  <2>4. CASE k > Len(a) /\ k - Len(a) \in 1..Len(b)
    <3>. DEFINE j == k - Len(a)
    <3>1. j \in 1..Len(b) /\ k = Len(a) + j
      BY <2>4, ConcatIs
    <3>. HIDE DEF j
    <3>2. (a \o b)[k] = b[j]
      BY <3>1, ConcatIs
    <3>. QED
      BY <2>1, <2>2, <3>1, <3>2 DEF Newcomers
  <2>. QED
    BY <2>3, <2>4, ConcatIs
<1>2. ASSUME NEW u \in Newcomers(a) PROVE u \in Newcomers(a \o b)
  <2>1. PICK k \in 1..Len(a) : Registration(a[k]) /\ a[k].user = u
    BY DEF Newcomers
  <2>2. k \in 1..Len(a \o b) /\ (a \o b)[k] = a[k] /\ u \in Users
    BY ConcatIs DEF Newcomers
  <2>. QED
    BY <2>1, <2>2 DEF Newcomers
<1>3. ASSUME NEW u \in Newcomers(b) PROVE u \in Newcomers(a \o b)
  <2>1. PICK k \in 1..Len(b) : Registration(b[k]) /\ b[k].user = u
    BY DEF Newcomers
  <2>2. Len(a) + k \in 1..Len(a \o b) /\ (a \o b)[Len(a) + k] = b[k] /\ u \in Users
    BY ConcatIs DEF Newcomers
  <2>. QED
    BY <2>1, <2>2 DEF Newcomers
<1>. QED
  BY <1>1, <1>2, <1>3

\* The first item and the rest.
LEMMA NewcomersTail ==
  ASSUME NEW s \in Seq(Items), s # << >>
  PROVE  Newcomers(s) = Newcomers(Tail(s)) \cup
                          {u \in Users : Registration(Head(s)) /\ Head(s).user = u}
<1>1. /\ Len(s) \in Nat \ {0} /\ Len(Tail(s)) = Len(s) - 1 /\ Head(s) = s[1]
      /\ \A k \in 1..Len(Tail(s)) : k + 1 \in 1..Len(s) /\ Tail(s)[k] = s[k + 1]
      /\ \A k \in 2..Len(s) : k - 1 \in 1..Len(Tail(s)) /\ s[k] = Tail(s)[k - 1]
  BY TailIs
<1>2. \A k \in 1..Len(s) : k = 1 \/ k \in 2..Len(s)
  BY <1>1
<1>3. 1 \in 1..Len(s)
  BY <1>1
<1>. QED
  BY <1>1, <1>2, <1>3 DEF Newcomers

\* Nobody is registered where there is no registration.
LEMMA NoNewcomers ==
  ASSUME NEW s, \A k \in 1..Len(s) : s[k].op # "register"
  PROVE  Newcomers(s) = {}
BY DEF Newcomers, Registration

\* Nor where both parts have none.
LEMMA EmptyBefore ==
  ASSUME NEW a \in Seq(Items), NEW b \in Seq(Items), Newcomers(a) = {}, Newcomers(b) = {}
  PROVE  a \o b \in Seq(Items) /\ Newcomers(a \o b) = {}
<1>1. Newcomers(a \o b) = Newcomers(a) \cup Newcomers(b)
  BY NewcomersConcat
<1>. QED
  BY <1>1, ConcatIs

\* The search over the users: it ends, if nobody is found that is not there.
LEMMA SearchRuns ==
  /\ Search \in Seq(Items) /\ Newcomers(Search) = {}
  /\ \A u \in Users : Amid(IsRegistered(u, "search"), Search)
  /\ \A t, h, g : \A a \in State : a.chan = "open" /\ Ready(h, g, a) => Runs(t, h, g, Search, a, a)
<1>. DEFINE n == Cardinality(Users)
            a == [k \in 1..n |-> IsRegistered(UserIds[k], "search")]
            z == <<Local("loop")>>
<1>1. /\ n \in Nat /\ DOMAIN UserIds = 1..n /\ \A k \in 1..n : UserIds[k] \in Users
      /\ \A u \in Users : \E k \in 1..n : UserIds[k] = u
  BY ElementAssumption, SetToSeqIs DEF UserIds
<1>. HIDE DEF n
<1>2. a \in Seq(Items) /\ Len(a) = n
  <2>1. \A k \in 1..n : IsRegistered(UserIds[k], "search") \in Items
    BY <1>1, ItemsAre DEF UserArgs
  <2>. QED
    BY <1>1, <2>1
<1>3. \A k \in 1..n : a[k] = IsRegistered(UserIds[k], "search")
  OBVIOUS
<1>4. Local("loop") \in Items /\ Local("loop").op = "loop"
  BY ItemsAre DEF UserArgs
<1>5. z \in Seq(Items) /\ Len(z) = 1 /\ z[1] = Local("loop")
  BY <1>4, OneItem
<1>6. Search = a \o z
  BY <1>1 DEF Search
<1>. HIDE DEF a, z
<1>7. Newcomers(a) = {} /\ Newcomers(z) = {}
  <2>1. \A k \in 1..Len(a) : a[k].op # "register"
    BY <1>2, <1>3 DEF IsRegistered, Item
  <2>2. \A k \in 1..Len(z) : z[k].op # "register"
    BY <1>4, <1>5
  <2>. QED
    BY <2>1, <2>2, NoNewcomers
<1>8. ASSUME NEW u \in Users PROVE Amid(IsRegistered(u, "search"), a)
  BY <1>1, <1>2, <1>3 DEF Amid
<1>9. ASSUME NEW t, NEW h, NEW g, NEW b \in State, b.chan = "open", Ready(h, g, b)
      PROVE  Runs(t, h, g, Search, b, b)
  <2>1. ASSUME NEW k \in 1..n PROVE Does(t, h, g, a[k], b, b)
    <3>. DEFINE x == IsRegistered(UserIds[k], "search")
    <3>1. x.op = "is_registered" /\ x.user \in Users /\ x.want = "search" /\ a[k] = x
      BY <1>1, <1>3 DEF IsRegistered, Item
    <3>. HIDE DEF x
    <3>. QED
      BY <1>9, <3>1 DEF Does, Looked
  <2>2. Does(t, h, g, Local("loop"), b, b)
    BY <1>4, <1>9 DEF Does
  <2>3. Runs(t, h, g, a, b, b)
    BY <1>2, <2>1, RunsStill
  <2>4. Runs(t, h, g, z, b, b)
    BY <1>4, <2>2, RunsOne DEF z
  <2>. QED
    BY <1>6, <2>3, <2>4, RunsConcat
<1>. QED
  BY <1>2, <1>5, <1>6, <1>7, <1>8, <1>9, ConcatIs, NewcomersConcat, AmidConcat

\* A list of four, and one more.
LEMMA FourItems ==
  ASSUME NEW S, NEW x1 \in S, NEW x2 \in S, NEW x3 \in S, NEW x4 \in S, NEW x5 \in S
  PROVE  LET s == <<x1, x2, x3, x4>> IN
           /\ s \in Seq(S) /\ Len(s) = 4
           /\ s[1] = x1 /\ s[2] = x2 /\ s[3] = x3 /\ s[4] = x4
           /\ s \o <<x5>> = <<x1, x2, x3, x4, x5>>
<1>. DEFINE s == <<x1, x2, x3, x4>>
            z == <<x5>>
            w == <<x1, x2, x3, x4, x5>>
<1>1. s \in Seq(S) /\ Len(s) = 4 /\ s[1] = x1 /\ s[2] = x2 /\ s[3] = x3 /\ s[4] = x4
  OBVIOUS
<1>2. z \in Seq(S) /\ Len(z) = 1 /\ z[1] = x5
  BY OneItem
<1>3. w \in Seq(S) /\ Len(w) = 5 /\ w[1] = x1 /\ w[2] = x2 /\ w[3] = x3 /\ w[4] = x4 /\ w[5] = x5
  BY FiveItems
<1>. HIDE DEF s, z, w
<1>4. /\ s \o z \in Seq(S) /\ Len(s \o z) = 5
      /\ (s \o z)[1] = x1 /\ (s \o z)[2] = x2 /\ (s \o z)[3] = x3 /\ (s \o z)[4] = x4
      /\ (s \o z)[5] = x5
  <2>0. s \in Seq(S) /\ z \in Seq(S)
    BY <1>1, <1>2
  <2>1. s \o z \in Seq(S) /\ Len(s \o z) = Len(s) + Len(z)
    BY <2>0, ConcatIs
  <2>2. \A k \in 1..Len(s) : (s \o z)[k] = s[k]
    BY <2>0, ConcatIs
  <2>3. \A k \in 1..Len(z) : (s \o z)[Len(s) + k] = z[k]
    BY <2>0, ConcatIs
  <2>4. (s \o z)[4 + 1] = z[1] /\ 4 + 1 = 5
    <3>1. 1 \in 1..Len(z)
      BY <1>2
    <3>2. (s \o z)[Len(s) + 1] = z[1]
      BY <2>3, <3>1
    <3>. QED
      BY <1>1, <3>2
  <2>. QED
    BY <1>1, <1>2, <2>1, <2>2, <2>4
<1>5. \A k \in 1..5 : k = 1 \/ k = 2 \/ k = 3 \/ k = 4 \/ k = 5
  OBVIOUS
<1>6. s \o z = w
  BY <1>3, <1>4, <1>5, SeqEqual
<1>. QED
  BY <1>1, <1>6 DEF s, z, w

\* How a test begins: nobody is registered; the users are counted by the tests
\* that count them again, and searched for by those that search.  Nothing
\* changes but that the channel may be closed.
LEMMA BeginHas ==
  ASSUME NEW t \in TestNames
  PROVE  /\ Begin(t) \in Seq(Items) /\ Newcomers(Begin(t)) = {}
         /\ t \in Counting => Amid(Count("first", 0), Begin(t))
         /\ t \in SearchTests => \A u \in Users : Amid(IsRegistered(u, "search"), Begin(t))
         /\ \A h \in SUBSET Users : \A a \in State : Clear(a, h) =>
              \E b \in State : /\ Runs(t, h, {}, Begin(t), a, b)
                               /\ b.lcs = a.lcs /\ b.pin = a.pin
<1>. DEFINE open == Local("open")
            close == Local("close")
            first == Count("first", 0)
            each == Count("each", 0)
            bad == IsRegistered(BadUser, "error")
            x == IsRegistered(Head(UserIds), "ok")
            y == IsRegistered(Last(UserIds), "ok")
            o == <<open>>
            c == <<first>>
<1>1. Head(UserIds) \in Users /\ Last(UserIds) \in Users
  <2>1. UserIds \in Seq(Users) /\ UserIds # << >>
    <3>1. Cardinality(Users) # 0
      BY TestAssumption, ElementAssumption, FS_EmptySet
    <3>2. UserIds \in Seq(Users) /\ Len(UserIds) = Cardinality(Users)
      BY ElementAssumption, SetToSeqIs DEF UserIds
    <3>. QED
      BY <3>1, <3>2
  <2>2. Len(UserIds) \in 1..Len(UserIds)
    BY <2>1
  <2>. QED
    BY <2>1, <2>2, HeadTailProperties, ElementOfSeq DEF Last
<1>2. /\ open \in Items /\ close \in Items /\ first \in Items /\ each \in Items
      /\ bad \in Items /\ x \in Items /\ y \in Items
  <2>1. BadUser \in UserArgs /\ Head(UserIds) \in UserArgs /\ Last(UserIds) \in UserArgs
    BY <1>1 DEF UserArgs
  <2>2. /\ open \in Asks /\ close \in Asks /\ first \in Asks /\ each \in Asks
        /\ bad \in Asks /\ x \in Asks /\ y \in Asks
    BY <2>1, ItemsAre
  <2>. QED
    BY <2>2 DEF Asks, PlainItems
<1>3. /\ open.op = "open" /\ close.op = "close"
      /\ first.op = "list_users" /\ first.want = "first"
      /\ each.op = "list_users" /\ each.want = "each"
      /\ bad.op = "is_registered" /\ bad.want = "error" /\ bad.user = BadUser
      /\ x.op = "is_registered" /\ x.want = "ok" /\ x.user \in Users
      /\ y.op = "is_registered" /\ y.want = "ok" /\ y.user \in Users
  BY <1>1 DEF Local, Count, IsRegistered, Item
<1>4. /\ check_user_id_test = <<bad, x, y, bad, close>>
      /\ t = "check_user_id_test" => Begin(t) = o \o check_user_id_test
      /\ t = "get_user_list_test" => Begin(t) = o \o <<each, close>>
      /\ t \in {"check_password_size_test", "check_file_id_test"} => Begin(t) = o \o Search
      /\ t \in Counting => Begin(t) = o \o (c \o Search)
  BY DEF check_user_id_test, Begin, Counting, SearchTests, KeepingTests
<1>. HIDE DEF open, close, first, each, bad, x, y
<1>5. /\ o \in Seq(Items) /\ Len(o) = 1 /\ o[1] = open
      /\ c \in Seq(Items) /\ Len(c) = 1 /\ c[1] = first
  BY <1>2, OneItem
<1>6. Newcomers(o) = {} /\ Newcomers(c) = {} /\ Amid(first, c)
  <2>1. \A k \in 1..1 : o[k].op # "register" /\ c[k].op # "register"
    BY <1>3, <1>5
  <2>2. Newcomers(o) = {} /\ Newcomers(c) = {}
    BY <1>5, <2>1, NoNewcomers
  <2>3. Amid(first, c)
    BY <1>5 DEF Amid
  <2>. QED
    BY <2>2, <2>3
<1>7. ASSUME NEW h \in SUBSET Users, NEW a \in State, Clear(a, h)
      PROVE  \E b \in State : /\ b.chan = "open" /\ b.lcs = a.lcs /\ b.pin = a.pin
                              /\ Runs(t, h, {}, o, a, b) /\ UsersOf(b) = h /\ Ready(h, {}, b)
  <2>. DEFINE b == [lcs |-> a.lcs, pin |-> a.pin, chan |-> "open"]
  <2>1. b \in State /\ b.chan = "open" /\ b.lcs = a.lcs /\ b.pin = a.pin
    BY StateIs DEF State
  <2>2. Does(t, h, {}, open, a, b)
    BY <1>3 DEF Does
  <2>. HIDE DEF b
  <2>3. Runs(t, h, {}, o, a, b)
    BY <1>2, <2>1, <2>2, RunsOne
  <2>4. Clear(b, h)
    BY <1>7, <2>1 DEF Clear, UsersOf
  <2>5. UsersOf(b) = h
    BY <2>4, NodeNames DEF Clear, UsersOf, NoFiles
  <2>6. Ready(h, {}, b)
    <3>1. h \cup {} = h
      OBVIOUS
    <3>. QED
      BY <2>4, <3>1 DEF Ready
  <2>. QED
    BY <2>1, <2>3, <2>5, <2>6
<1>8. ASSUME NEW h, NEW b \in State, b.chan = "open"
      PROVE  /\ Does(t, h, {}, bad, b, b) /\ Does(t, h, {}, x, b, b) /\ Does(t, h, {}, y, b, b)
             /\ Does(t, h, {}, each, b, b)
             /\ UsersOf(b) = h => Does(t, h, {}, first, b, b)
  BY <1>3, <1>8 DEF Does, Looked, Ops, BadArgument
<1>. HIDE DEF o, c
<1>9. CASE t = "check_user_id_test"
  <2>. DEFINE s == <<bad, x, y, bad>>
              z == <<close>>
  <2>1. z \in Seq(Items) /\ Len(z) = 1 /\ z[1] = close
    BY <1>2, OneItem
  <2>2. s \in Seq(Items) /\ Len(s) = 4 /\ s[1] = bad /\ s[2] = x /\ s[3] = y /\ s[4] = bad
    BY <1>2, FourItems
  <2>3. Begin(t) = o \o (s \o z)
    <3>1. <<bad, x, y, bad, close>> = s \o z
      BY <1>2, FourItems
    <3>. QED
      BY <1>4, <1>9, <3>1
  <2>. HIDE DEF s, z
  <2>4. \A k \in 1..4 : k = 1 \/ k = 2 \/ k = 3 \/ k = 4
    OBVIOUS
  <2>5. Newcomers(s) = {} /\ Newcomers(z) = {}
    <3>1. \A k \in 1..Len(s) : s[k].op # "register"
      BY <1>3, <2>2, <2>4
    <3>2. \A k \in 1..Len(z) : z[k].op # "register"
      BY <1>3, <2>1
    <3>. QED
      BY <3>1, <3>2, NoNewcomers
  <2>6. s \o z \in Seq(Items) /\ Newcomers(s \o z) = {}
    BY <2>1, <2>2, <2>5, EmptyBefore
  <2>7. Begin(t) \in Seq(Items) /\ Newcomers(Begin(t)) = {}
    BY <1>5, <1>6, <2>3, <2>6, EmptyBefore
  <2>8. ASSUME NEW h \in SUBSET Users, NEW a \in State, Clear(a, h)
        PROVE  \E b \in State : /\ Runs(t, h, {}, Begin(t), a, b)
                                /\ b.lcs = a.lcs /\ b.pin = a.pin
    <3>1. PICK b \in State : /\ b.chan = "open" /\ b.lcs = a.lcs /\ b.pin = a.pin
                             /\ Runs(t, h, {}, o, a, b)
      BY <1>7, <2>8
    <3>2. \A k \in 1..Len(s) : Does(t, h, {}, s[k], b, b)
      BY <1>8, <2>2, <2>4, <3>1
    <3>3. Runs(t, h, {}, s, b, b)
      BY <2>2, <3>2, RunsStill
    <3>4. PICK d \in State : Runs(t, h, {}, z, b, d) /\ d.lcs = b.lcs /\ d.pin = b.pin
      BY Closing DEF z, close
    <3>5. Runs(t, h, {}, s \o z, b, d)
      BY <3>3, <3>4, RunsConcat
    <3>6. Runs(t, h, {}, Begin(t), a, d)
      BY <2>3, <3>1, <3>5, RunsConcat
    <3>. QED
      BY <3>1, <3>4, <3>6
  <2>9. t \notin SearchTests /\ t \notin Counting
    BY <1>9 DEF SearchTests, KeepingTests, Counting
  <2>. QED
    BY <2>7, <2>8, <2>9
<1>10. CASE t = "get_user_list_test"
  <2>. DEFINE s == <<each>>
              z == <<close>>
  <2>1. /\ z \in Seq(Items) /\ Len(z) = 1 /\ z[1] = close
        /\ s \in Seq(Items) /\ Len(s) = 1 /\ s[1] = each
    BY <1>2, OneItem
  <2>2. Begin(t) = o \o (s \o z)
    BY <1>2, <1>4, <1>10, TwoItems
  <2>. HIDE DEF s, z
  <2>3. Newcomers(s) = {} /\ Newcomers(z) = {}
    <3>1. (\A k \in 1..Len(s) : s[k].op # "register") /\ (\A k \in 1..Len(z) : z[k].op # "register")
      BY <1>3, <2>1
    <3>. QED
      BY <3>1, NoNewcomers
  <2>4. s \o z \in Seq(Items) /\ Newcomers(s \o z) = {}
    BY <2>1, <2>3, EmptyBefore
  <2>5. Begin(t) \in Seq(Items) /\ Newcomers(Begin(t)) = {}
    BY <1>5, <1>6, <2>2, <2>4, EmptyBefore
  <2>6. ASSUME NEW h \in SUBSET Users, NEW a \in State, Clear(a, h)
        PROVE  \E b \in State : /\ Runs(t, h, {}, Begin(t), a, b)
                                /\ b.lcs = a.lcs /\ b.pin = a.pin
    <3>1. PICK b \in State : /\ b.chan = "open" /\ b.lcs = a.lcs /\ b.pin = a.pin
                             /\ Runs(t, h, {}, o, a, b)
      BY <1>7, <2>6
    <3>2. Runs(t, h, {}, s, b, b)
      BY <1>2, <1>8, <3>1, RunsOne DEF s
    <3>3. PICK d \in State : Runs(t, h, {}, z, b, d) /\ d.lcs = b.lcs /\ d.pin = b.pin
      BY Closing DEF z, close
    <3>4. Runs(t, h, {}, s \o z, b, d)
      BY <3>2, <3>3, RunsConcat
    <3>5. Runs(t, h, {}, Begin(t), a, d)
      BY <2>2, <3>1, <3>4, RunsConcat
    <3>. QED
      BY <3>1, <3>3, <3>5
  <2>7. t \notin SearchTests /\ t \notin Counting
    BY <1>10 DEF SearchTests, KeepingTests, Counting
  <2>. QED
    BY <2>5, <2>6, <2>7
<1>11. CASE t \in {"check_password_size_test", "check_file_id_test"}
  <2>1. Begin(t) = o \o Search
    BY <1>4, <1>11
  <2>2. Begin(t) \in Seq(Items) /\ Newcomers(Begin(t)) = {}
    BY <1>5, <1>6, <2>1, SearchRuns, EmptyBefore
  <2>3. \A u \in Users : Amid(IsRegistered(u, "search"), Begin(t))
    BY <1>5, <2>1, SearchRuns, AmidConcat
  <2>4. ASSUME NEW h \in SUBSET Users, NEW a \in State, Clear(a, h)
        PROVE  \E b \in State : /\ Runs(t, h, {}, Begin(t), a, b)
                                /\ b.lcs = a.lcs /\ b.pin = a.pin
    <3>1. PICK b \in State : /\ b.chan = "open" /\ b.lcs = a.lcs /\ b.pin = a.pin
                             /\ Runs(t, h, {}, o, a, b) /\ Ready(h, {}, b)
      BY <1>7, <2>4
    <3>2. Runs(t, h, {}, Search, b, b)
      BY <3>1, SearchRuns
    <3>. QED
      BY <2>1, <3>1, <3>2, RunsConcat
  <2>5. t \notin Counting
    BY <1>11 DEF Counting
  <2>. QED
    BY <2>2, <2>3, <2>4, <2>5
<1>12. CASE t \in Counting
  <2>1. Begin(t) = o \o (c \o Search)
    BY <1>4, <1>12
  <2>2. c \o Search \in Seq(Items) /\ Newcomers(c \o Search) = {}
    BY <1>5, <1>6, SearchRuns, EmptyBefore
  <2>3. Begin(t) \in Seq(Items) /\ Newcomers(Begin(t)) = {}
    BY <1>5, <1>6, <2>1, <2>2, EmptyBefore
  <2>4. Amid(first, Begin(t))
    BY <1>5, <1>6, <2>1, <2>2, SearchRuns, AmidConcat
  <2>5. ASSUME NEW u \in Users PROVE Amid(IsRegistered(u, "search"), Begin(t))
    <3>1. Amid(IsRegistered(u, "search"), c \o Search)
      BY <1>5, SearchRuns, AmidConcat
    <3>. QED
      BY <1>5, <2>1, <2>2, <3>1, AmidConcat
  <2>6. ASSUME NEW h \in SUBSET Users, NEW a \in State, Clear(a, h)
        PROVE  \E b \in State : /\ Runs(t, h, {}, Begin(t), a, b)
                                /\ b.lcs = a.lcs /\ b.pin = a.pin
    <3>1. PICK b \in State : /\ b.chan = "open" /\ b.lcs = a.lcs /\ b.pin = a.pin
                             /\ Runs(t, h, {}, o, a, b) /\ UsersOf(b) = h /\ Ready(h, {}, b)
      BY <1>7, <2>6
    <3>2. Runs(t, h, {}, Search, b, b)
      BY <3>1, SearchRuns
    <3>3. Runs(t, h, {}, c, b, b)
      BY <1>2, <1>8, <3>1, RunsOne DEF c
    <3>4. Runs(t, h, {}, c \o Search, b, b)
      BY <3>2, <3>3, RunsConcat
    <3>. QED
      BY <2>1, <3>1, <3>4, RunsConcat
  <2>. QED
    BY <2>3, <2>4, <2>5, <2>6 DEF first
<1>13. t \in Counting \/ t \in {"check_password_size_test", "check_file_id_test"}
       \/ t = "get_user_list_test" \/ t = "check_user_id_test"
  BY DEF Counting, TestNames, SearchTests
<1>. QED
  BY <1>9, <1>10, <1>11, <1>12, <1>13 DEF first, Counting

-----------------------------------------------------------------------------
(* The end of the loop.                                                     *)

Without(a, S) ==
  [lcs |-> [u \in Users |-> IF u \in S THEN NoFiles ELSE a.lcs[u]],
   pin |-> [u \in Users |-> IF u \in S THEN None ELSE a.pin[u]],
   chan |-> a.chan]

\* What a state says without the users in S.
LEMMA WithoutIs ==
  ASSUME NEW a \in State, NEW S
  PROVE  LET b == Without(a, S) IN
           /\ b \in State /\ b.chan = a.chan
           /\ \A u \in Users : u \in S => b.lcs[u] = NoFiles /\ b.pin[u] = None
           /\ \A u \in Users : u \notin S => b.lcs[u] = a.lcs[u] /\ b.pin[u] = a.pin[u]
           /\ UsersOf(b) = UsersOf(a) \ S
<1>. DEFINE l == [u \in Users |-> IF u \in S THEN NoFiles ELSE a.lcs[u]]
            q == [u \in Users |-> IF u \in S THEN None ELSE a.pin[u]]
            b == [lcs |-> l, pin |-> q, chan |-> a.chan]
<1>1. NoFiles \in [Nodes -> Lcs] /\ NoFiles["df"] = "none"
  BY NodeNames DEF NoFiles, Lcs
<1>2. /\ l \in [Users -> [Nodes -> Lcs]]
      /\ \A u \in Users : u \in S => l[u] = NoFiles
      /\ \A u \in Users : u \notin S => l[u] = a.lcs[u]
  BY <1>1, StateIs
<1>3. /\ q \in [Users -> Passwords \cup {None}]
      /\ \A u \in Users : u \in S => q[u] = None
      /\ \A u \in Users : u \notin S => q[u] = a.pin[u]
  BY StateIs
<1>4. Without(a, S) = b
  BY DEF Without
<1>. HIDE DEF l, q
<1>5. b \in State /\ b.chan = a.chan /\ b.lcs = l /\ b.pin = q
  BY <1>2, <1>3, StateIs DEF State
<1>. HIDE DEF b
<1>6. UsersOf(b) = UsersOf(a) \ S
  BY <1>1, <1>2, <1>5 DEF UsersOf
<1>. QED
  BY <1>2, <1>3, <1>4, <1>5, <1>6

\* Who is there, and that there are that many.
LEMMA ClearIs ==
  ASSUME NEW a, NEW S \in SUBSET Users, Clear(a, S)
  PROVE  UsersOf(a) = S /\ IsFiniteSet(S) /\ Cardinality(S) \in Nat
<1>1. UsersOf(a) = S
  BY NodeNames DEF Clear, UsersOf, NoFiles
<1>2. IsFiniteSet(S)
  BY ElementAssumption, FS_Subset
<1>. QED
  BY <1>1, <1>2, FS_CardinalityType

\* The users that the test has kept are unregistered.
LEMMA UnregisterMineRuns ==
  ASSUME NEW t, NEW h, NEW g, mine \subseteq Users, others \subseteq Users, mine \cap others = {},
         NEW a \in State, a.chan = "open", Ready(others, mine, a)
  PROVE  \E b \in State : /\ Runs(t, h, g, UnregisterMine, a, b)
                          /\ b.chan = "open" /\ Clear(b, others)
<1>. DEFINE n == Cardinality(mine)
            ids == SetToSeq(mine)
            gone(k) == {ids[j] : j \in 1..k - 1}
            state(k) == Without(a, gone(k))
            r == [k \in 1..n + 1 |-> state(k)]
            s == UnregisterMine
<1>1. IsFiniteSet(mine)
  BY ElementAssumption, FS_Subset
<1>2. /\ DOMAIN ids = 1..n /\ n \in Nat
      /\ \A k \in 1..n : ids[k] \in mine
      /\ \A u \in mine : \E k \in 1..n : ids[k] = u
      /\ \A j, k \in 1..n : ids[j] = ids[k] => j = k
  BY <1>1, SetToSeqIs, SetToSeqOnce
<1>. HIDE DEF n
<1>3. /\ s \in Seq(Items) /\ Len(s) = n
      /\ \A k \in 1..n : s[k] = Unregister(ids[k], Password)
  <2>1. \A k \in 1..n : Unregister(ids[k], Password) \in Items
    BY <1>2, TestAssumption, ItemsAre DEF UserArgs, Acts, PlainItems
  <2>2. s = [k \in 1..n |-> Unregister(ids[k], Password)]
    BY <1>2 DEF UnregisterMine
  <2>. HIDE DEF s
  <2>. QED
    BY <1>2, <2>1, <2>2
<1>4. gone(1) = {} /\ gone(n + 1) = mine
  BY <1>2
<1>5. ASSUME NEW k \in 1..n
      PROVE  /\ gone(k) \subseteq mine /\ ids[k] \in mine \ gone(k)
             /\ gone(k + 1) = gone(k) \cup {ids[k]}
  BY <1>2
<1>. HIDE DEF gone, s, ids
<1>6. \A k \in 1..n + 1 : state(k) \in State
  BY WithoutIs
<1>7. state(1) = a
  <2>1. /\ state(1) \in State /\ state(1).chan = a.chan
        /\ \A u \in Users : state(1).lcs[u] = a.lcs[u] /\ state(1).pin[u] = a.pin[u]
    BY <1>4, WithoutIs
  <2>2. state(1).lcs = a.lcs /\ state(1).pin = a.pin
    BY <2>1, StateIs
  <2>. QED
    BY <2>1, <2>2, StateIs
<1>8. ASSUME NEW k \in 1..n PROVE Does(t, h, g, s[k], state(k), state(k + 1))
  <2>. DEFINE u == ids[k]
              x == Unregister(u, Password)
              b == state(k)
              c == state(k + 1)
  <2>1. u \in Users /\ u \in mine /\ u \notin gone(k) /\ gone(k + 1) = gone(k) \cup {u}
    BY <1>5
  <2>2. /\ b \in State /\ b.chan = "open" /\ b.lcs[u] = a.lcs[u] /\ b.pin[u] = a.pin[u]
        /\ UsersOf(b) = UsersOf(a) \ gone(k)
    BY <2>1, WithoutIs
  <2>3. c \in State /\ c.chan = "open" /\ c.lcs[u] = NoFiles /\ c.pin[u] = None
    BY <2>1, WithoutIs
  <2>4. ASSUME NEW v \in Users, v # u PROVE c.lcs[v] = b.lcs[v] /\ c.pin[v] = b.pin[v]
    <3>1. v \in gone(k + 1) <=> v \in gone(k)
      BY <2>1, <2>4
    <3>2. CASE v \in gone(k)
      BY <3>1, <3>2, WithoutIs
    <3>3. CASE v \notin gone(k)
      BY <3>1, <3>3, WithoutIs
    <3>. QED
      BY <3>2, <3>3
  <2>5. x.op = "unregister" /\ x.user = u /\ x.pwd = Password /\ x.want = "ok"
    BY DEF Unregister, Item
  <2>6. u \in UsersOf(a) /\ a.lcs[u]["kf"] = "use" /\ a.pin[u] = Password
    BY <2>1 DEF Ready, Clear
  <2>7. s[k] = x
    BY <1>3
  <2>. HIDE DEF u, x, b, c
  <2>8. Unlocks(x, b)
    BY <2>1, <2>2, <2>5, <2>6, TestAssumption DEF Unlocks
  <2>9. Changed(x, b, c) /\ But(x.user, b, c)
    BY <2>2, <2>3, <2>4, <2>5, <2>8 DEF Changed, But
  <2>10. Does(t, h, g, x, b, c)
    BY <2>2, <2>5, <2>9 DEF Does
  <2>. QED
    BY <2>7, <2>10 DEF b, c
<1>9. state(n + 1).chan = "open" /\ Clear(state(n + 1), others)
  <2>. DEFINE b == state(n + 1)
  <2>1. /\ b.chan = "open" /\ UsersOf(b) = UsersOf(a) \ mine
        /\ \A u \in Users : u \in mine => b.lcs[u] = NoFiles /\ b.pin[u] = None
        /\ \A u \in Users : u \notin mine => b.lcs[u] = a.lcs[u] /\ b.pin[u] = a.pin[u]
    BY <1>4, WithoutIs
  <2>. HIDE DEF b
  <2>2. Clear(b, others)
    BY <2>1 DEF Ready, Clear
  <2>. QED
    BY <2>1, <2>2 DEF b
<1>. HIDE DEF state
<1>10. /\ r \in [1..n + 1 -> State] /\ r[1] = a /\ r[n + 1] = state(n + 1)
       /\ \A k \in 1..n : r[k] = state(k) /\ r[k + 1] = state(k + 1)
  <2>1. 1 \in 1..n + 1 /\ n + 1 \in 1..n + 1 /\ \A k \in 1..n : k \in 1..n + 1 /\ k + 1 \in 1..n + 1
    BY <1>2
  <2>. QED
    BY <1>6, <1>7, <2>1
<1>. HIDE DEF r
<1>11. Runs(t, h, g, s, r[1], r[n + 1])
  <2>1. \A k \in 1..n : Does(t, h, g, s[k], r[k], r[k + 1])
    BY <1>8, <1>10
  <2>2. r \in [1..n + 1 -> State]
    BY <1>10
  <2>. QED
    BY <1>2, <1>3, <2>1, <2>2, RunsAlong
<1>12. state(n + 1) \in State
  <2>1. n + 1 \in 1..n + 1
    BY <1>2
  <2>. QED
    BY <1>6, <2>1
<1>. QED
  BY <1>9, <1>10, <1>11, <1>12 DEF s

\* Users are counted, of whom there are as many as are asserted.
LEMMA CountRuns ==
  ASSUME NEW t, NEW h, NEW g, NEW a \in State, a.chan = "open", NEW n \in Nat,
         \/ Cardinality(UsersOf(a)) = n
         \/ t = "add_delete_user_test_2" /\ h # {}
  PROVE  Runs(t, h, g, <<Count("count", n)>>, a, a)
<1>. DEFINE x == Count("count", n)
<1>1. x \in Items
  BY ItemsAre DEF UserArgs, Asks, PlainItems
<1>2. x.op = "list_users" /\ x.want = "count" /\ x.count = n
  BY DEF Count, Item
<1>. HIDE DEF x
<1>3. Does(t, h, g, x, a, a)
  BY <1>2 DEF Does, Looked, Foreign
<1>4. Runs(t, h, g, <<x>>, a, a)
  BY <1>1, <1>3, RunsOne
<1>. QED
  BY <1>4 DEF x

\* What follows the loop leaves the users of before.
LEMMA AfterRuns ==
  ASSUME NEW t \in SearchTests, ~ Breaks(t), NEW g,
         mine \subseteq UserArgs, others \subseteq Users, mine \cap others = {},
         t \in KeepingTests => g = mine /\ mine \subseteq Users,
         t \notin KeepingTests => g = {},
         t \in Counting => before = Cardinality(others),
         NEW a \in State, a.chan = "open", Ready(others, g, a)
  PROVE  /\ Newcomers(AfterLoop(t) \o <<Local("close")>>) = {}
         /\ \E b \in State : /\ Runs(t, others, g, AfterLoop(t) \o <<Local("close")>>, a, b)
                             /\ Clear(b, others)
<1>. DEFINE z == <<Local("close")>>
            c == <<Count("count", before)>>
            m == Cardinality(mine)
            e == UnregisterMine
<1>1. t \in Counting
  <2>1. t \notin {"check_password_size_test", "check_file_id_test"}
    BY DEF Breaks
  <2>. QED
    BY <2>1 DEF Counting
<1>2. /\ IsFiniteSet(others) /\ Cardinality(others) \in Nat /\ before = Cardinality(others)
  BY <1>1, ElementAssumption, FS_Subset, FS_CardinalityType
<1>3. Newcomers(AfterLoop(t) \o z) = {}
  <2>1. AfterLoop(t) \o z \in Seq(After)
    <3>1. t \notin {"check_password_size_test", "create_delete_file_test_2", "check_file_id_test"}
      BY DEF Breaks
    <3>2. mine \subseteq UserArgs /\ before \in Nat
      BY <1>2
    <3>. QED
      BY <3>1, <3>2, AfterIs
  <2>. DEFINE s == AfterLoop(t) \o z
  <2>. HIDE DEF s
  <2>2. \A k \in 1..Len(s) : s[k].op # "register"
    <3>1. \A k \in 1..Len(s) : s[k] \in After
      BY <2>1 DEF s
    <3>. QED
      BY <3>1 DEF After
  <2>3. Newcomers(s) = {}
    BY <2>2, NoNewcomers
  <2>. QED
    BY <2>3 DEF s
<1>4. ASSUME NEW b \in State, b.chan = "open", Clear(b, others)
      PROVE  Runs(t, others, g, c, b, b)
  <2>1. Cardinality(UsersOf(b)) = before
    BY <1>2, <1>4, ClearIs
  <2>. QED
    BY <1>2, <1>4, <2>1, CountRuns
<1>5. ASSUME NEW b \in State, Clear(b, others), NEW s, Runs(t, others, g, s, a, b)
      PROVE  \E d \in State : Runs(t, others, g, s \o z, a, d) /\ Clear(d, others)
  <2>1. PICK d \in State : Runs(t, others, g, z, b, d) /\ d.lcs = b.lcs /\ d.pin = b.pin
    BY Closing
  <2>2. Clear(d, others)
    BY <1>5, <2>1 DEF Clear, UsersOf
  <2>. HIDE DEF z
  <2>. QED
    BY <1>5, <2>1, <2>2, RunsConcat
<1>6. CASE t = "add_delete_user_test_1" \/ t = "create_delete_file_test_1"
  <2>1. g = {}
    BY <1>6 DEF KeepingTests
  <2>2. Clear(a, others)
    <3>1. others \cup {} = others
      OBVIOUS
    <3>. QED
      BY <2>1, <3>1 DEF Ready
  <2>3. Runs(t, others, g, AfterLoop(t), a, a)
    <3>1. CASE t = "add_delete_user_test_1"
      <4>1. AfterLoop(t) = c
        BY <3>1 DEF AfterLoop
      <4>. QED
        BY <1>4, <2>2, <4>1
    <3>2. CASE t = "create_delete_file_test_1"
      <4>1. AfterLoop(t) = << >>
        BY <3>2 DEF AfterLoop
      <4>. QED
        BY <4>1, RunsNil
    <3>. QED
      BY <1>6, <3>1, <3>2
  <2>. QED
    BY <1>3, <1>5, <2>2, <2>3
<1>7. CASE t \in KeepingTests
  <2>1. g = mine /\ Ready(others, mine, a) /\ mine \subseteq Users
    BY <1>7
  <2>0. IsFiniteSet(mine) /\ m \in Nat
    BY <2>1, ElementAssumption, FS_Subset, FS_CardinalityType
  <2>2. UsersOf(a) = others \cup mine
    <3>1. others \cup mine \in SUBSET Users /\ Clear(a, others \cup mine)
      BY <2>1 DEF Ready
    <3>. QED
      BY <3>1, ClearIs
  <2>3. Cardinality(UsersOf(a)) = before + m
    <3>1. Cardinality(others \cup mine) =
            Cardinality(others) + Cardinality(mine) - Cardinality(others \cap mine)
      BY <1>2, <2>0, FS_Union
    <3>2. Cardinality(others \cap mine) = 0
      <4>1. others \cap mine = {} /\ Cardinality({}) = 0
        BY FS_EmptySet
      <4>. QED
        BY <4>1
    <3>. QED
      BY <1>2, <2>0, <2>2, <3>1, <3>2
  <2>4. PICK b \in State : Runs(t, others, g, e, a, b) /\ b.chan = "open" /\ Clear(b, others)
    BY <2>1, UnregisterMineRuns
  <2>5. Runs(t, others, g, c, b, b)
    BY <1>4, <2>4
  <2>. DEFINE n == IF t = "add_delete_user_test_2" THEN m ELSE before + m
              k == <<Count("count", n)>>
  <2>6. Runs(t, others, g, k, a, a)
    <3>1. n \in Nat
      BY <1>2, <2>0
    <3>2. Cardinality(UsersOf(a)) = n \/ (t = "add_delete_user_test_2" /\ others # {})
      <4>1. CASE t = "add_delete_user_test_2" /\ others = {}
        <5>1. UsersOf(a) = mine
          BY <2>2, <4>1
        <5>. QED
          BY <4>1, <5>1
      <4>2. CASE t # "add_delete_user_test_2"
        BY <2>3, <4>2
      <4>. QED
        BY <4>1, <4>2
    <3>. HIDE DEF n
    <3>. QED
      BY <3>1, <3>2, CountRuns
  <2>7. AfterLoop(t) = (k \o e) \o c
    BY <1>7 DEF AfterLoop, KeepingTests
  <2>. HIDE DEF k, e, c, z
  <2>8. Runs(t, others, g, k \o e, a, b)
    BY <2>4, <2>6, RunsConcat
  <2>9. Runs(t, others, g, (k \o e) \o c, a, b)
    BY <2>5, <2>8, RunsConcat
  <2>10. \E d \in State : Runs(t, others, g, AfterLoop(t) \o z, a, d) /\ Clear(d, others)
    BY <1>5, <2>4, <2>7, <2>9
  <2>. QED
    BY <1>3, <2>10 DEF z
<1>8. t \in KeepingTests \/ t = "add_delete_user_test_1" \/ t = "create_delete_file_test_1"
  BY <1>1 DEF Counting, SearchTests, KeepingTests, Breaks
<1>. QED
  BY <1>6, <1>7, <1>8 DEF z

-----------------------------------------------------------------------------
(* The outcome of a call.                                                   *)

\* What is there now.
LEMMA NowIs ==
  ASSUME Base
  PROVE  /\ Now \in State /\ lcs \in [Users -> [Nodes -> Lcs]]
         /\ pin \in [Users -> Passwords \cup {None}]
         /\ op \in Ops \cup {"none"} /\ ret \in Statuses \cup {NoStatus}
         /\ Now.lcs = lcs /\ Now.pin = pin /\ (Now.chan = "open" <=> session)
<1>1. lcs \in [Users -> [Nodes -> Lcs]] /\ pin \in [Users -> Passwords \cup {None}]
      /\ op \in Ops \cup {"none"} /\ ret \in Statuses \cup {NoStatus}
  BY DEF Base, Whole, Trusted, StorageInv, TypeOK, CardTypeOK
<1>2. (IF session THEN "open" ELSE "close") \in {"open", "close"}
  OBVIOUS
<1>. QED
  BY <1>1, <1>2 DEF Now, State

\* A call with good arguments on an open channel fails only for what the element
\* holds.
LEMMA FailureHasCause ==
  ASSUME DueInv, pc = "returned", session, ret # "OK",
         op = "list_users" \/ user \in Users,
         op \in FileOps => file \in Files, op \in PasswordOps => pwd \in Passwords
  PROVE  /\ op \notin {"list_users", "is_registered"}
         /\ op = "register" => lcs[user]["df"] # "none"
         /\ op # "register" =>
              \/ lcs[user]["df"] = "none"
              \/ op \in PasswordOps /\ (lcs[user]["kf"] # "use" \/ pin[user] # pwd)
              \/ op = "create_bf" /\ lcs[user][file] # "none"
              \/ op \in {"read_bf", "delete_bf"} /\ lcs[user][file] = "none"
<1>1. /\ op # "list_users" => user # BadUser
      /\ op \in FileOps => file # BadFile
      /\ op \in PasswordOps => pwd # BadPassword
  BY StorageAssumption DEF Nodes, EFs
<1>. QED
  BY <1>1 DEF DueInv, StatusIsDue, FileIsMissing, Statuses, FileOps, PasswordOps

\* The call is the one that stands first.
LEMMA CallIs ==
  ASSUME Base, TestInv, FileAsked, pc = "returned"
  PROVE  LET x == Head(todo) IN
           /\ todo # << >> /\ todo \in Seq(Items) /\ x \in Items
           /\ op = x.op /\ user = x.user /\ pwd = x.pwd /\ file = x.file
           /\ x.op \in Ops \/ x.op \in {"open", "close", "loop"}
           /\ op \notin {"open", "close", "loop"}
           /\ ListsKnown
<1>1. todo # << >> /\ op = Head(todo).op /\ user = Head(todo).user /\ pwd = Head(todo).pwd
      /\ file = Head(todo).file /\ todo \in Seq(Items) /\ ListsKnown
  BY DEF TestInv, Asked, FileAsked, WellMade
<1>2. Head(todo) \in Items
  BY <1>1, TailIs
<1>3. op \in Ops \cup {"none"}
  BY NowIs
<1>4. op \notin {"open", "close", "loop"}
  BY <1>3 DEF Ops
<1>. QED
  BY <1>1, <1>2, <1>4 DEF Items

\* A call that has changed nothing leaves what was there.
LEMMA UntouchedIs ==
  ASSUME Base, NEW a \in State, During(a), Untouched
  PROVE  Now = a
<1>1. lcs = a.lcs /\ pin = a.pin /\ (session <=> a.chan = "open")
  BY DEF During
<1>2. a.chan \in {"open", "close"} /\ a = [lcs |-> a.lcs, pin |-> a.pin, chan |-> a.chan]
  BY StateIs
<1>3. a.chan = IF session THEN "open" ELSE "close"
  BY <1>1, <1>2
<1>. QED
  BY <1>1, <1>2, <1>3 DEF Now

\* A call that only looks, with arguments that are good.
LEMMA LooksWell ==
  ASSUME Base, DueInv, HoldsValue, pc = "returned", session,
         NEW a \in State, During(a)
  PROVE  /\ op = "list_users" => ret = "OK" /\ found = UsersOf(a)
         /\ op = "is_registered" /\ user \in Users =>
              ret = "OK" /\ (exists <=> user \in UsersOf(a))
         /\ op = "list_files" /\ user \in UsersOf(a) =>
              ret = "OK" /\ found = FilesIn(a, user) /\ ~ repeated
         /\ op = "read_bf" /\ user \in UsersOf(a) /\ pwd \in Passwords /\ file \in Files
              /\ a.lcs[user]["kf"] = "use" /\ a.pin[user] = pwd /\ a.lcs[user][file] = "use" =>
              ret = "OK" /\ buf = [k \in 1..NChunks |-> Value]
<1>1. ASSUME op \notin Changes
      PROVE  lcs = a.lcs /\ pin = a.pin
  BY <1>1 DEF During, Untouched
<1>2. ResultsAreTrue
  BY DEF Base, ResultsInv
<1>3. ASSUME op = "list_users"
      PROVE  ret = "OK" /\ found = UsersOf(a)
  <2>1. ret = "OK"
    BY <1>3, FailureHasCause DEF FileOps, PasswordOps
  <2>. QED
    BY <1>1, <1>2, <1>3, <2>1 DEF ResultsAreTrue, Returned, UsersOf, Changes
<1>4. ASSUME op = "is_registered", user \in Users
      PROVE  ret = "OK" /\ (exists <=> user \in UsersOf(a))
  <2>1. ret = "OK"
    BY <1>4, FailureHasCause DEF FileOps, PasswordOps
  <2>2. exists = (lcs[user]["df"] # "none")
    BY <1>2, <1>4, <2>1 DEF ResultsAreTrue, Returned
  <2>. QED
    BY <1>1, <1>4, <2>1, <2>2 DEF UsersOf, Changes
<1>5. ASSUME op = "list_files", user \in UsersOf(a)
      PROVE  ret = "OK" /\ found = FilesIn(a, user) /\ ~ repeated
  <2>1. user \in Users /\ lcs[user]["df"] # "none"
    BY <1>1, <1>5 DEF UsersOf, Changes
  <2>2. ret = "OK"
    BY <1>5, <2>1, FailureHasCause DEF FileOps, PasswordOps
  <2>. QED
    BY <1>1, <1>2, <1>5, <2>2 DEF ResultsAreTrue, Returned, FilesIn, Changes
<1>6. ASSUME op = "read_bf", user \in UsersOf(a), pwd \in Passwords, file \in Files,
             a.lcs[user]["kf"] = "use", a.pin[user] = pwd, a.lcs[user][file] = "use"
      PROVE  ret = "OK" /\ buf = [k \in 1..NChunks |-> Value]
  <2>0. lcs = a.lcs /\ pin = a.pin
    BY <1>1, <1>6 DEF Changes
  <2>1. user \in Users /\ lcs[user]["df"] # "none" /\ lcs[user]["kf"] = "use"
        /\ pin[user] = pwd /\ lcs[user][file] = "use"
    BY <1>6, <2>0 DEF UsersOf
  <2>2. ret = "OK"
    BY <1>6, <2>1, FailureHasCause DEF FileOps, PasswordOps
  <2>. QED
    BY <1>2, <1>6, <2>1, <2>2 DEF ResultsAreTrue, Returned, HoldsValue
<1>. QED
  BY <1>3, <1>4, <1>5, <1>6

\* What is asserted of a call that looks holds.
LEMMA LookedHolds ==
  ASSUME Base, TestInv, FileAsked, DueInv, HoldsValue, pc = "returned", session,
         NEW a \in State, During(a), NEW h, NEW g, Looked(test, h, g, Head(todo), a)
  PROVE  /\ Untouched
         /\ Holds(Head(todo)) \/ Sixteen(test, Head(todo)) \/ Foreign(test, h, Head(todo))
         /\ Head(todo).want = "first" => found = h
         /\ Head(todo).want = "search" =>
              Ready(h, g, a) /\ user \in Users /\ (exists <=> user \in UsersOf(a))
<1>. DEFINE x == Head(todo)
<1>1. /\ todo # << >> /\ todo \in Seq(Items) /\ x \in Items
      /\ op = x.op /\ user = x.user /\ pwd = x.pwd /\ file = x.file
  BY CallIs
<1>2. Looked(test, h, g, x, a)
  OBVIOUS
<1>. HIDE DEF x
<1>3. SUFFICES /\ Untouched
               /\ Holds(x) \/ Sixteen(test, x) \/ Foreign(test, h, x)
               /\ x.want = "first" => found = h
               /\ x.want = "search" =>
                    Ready(h, g, a) /\ user \in Users /\ (exists <=> user \in UsersOf(a))
  BY DEF x
<1>4. CASE x.op \in Ops \ {"list_users"} /\ x.want = "error" /\ BadArgument(x)
  <2>1. ret # "OK"
    BY <1>1, <1>4 DEF BadArgument, DueInv, StatusIsDue
  <2>2. Holds(x)
    BY <1>4, <2>1 DEF Holds
  <2>. QED
    BY <1>4, <2>1, <2>2 DEF Untouched
<1>5. CASE /\ x.op = "is_registered" /\ x.user \in Users
           /\ \/ x.want = "ok"
              \/ x.want = "search" /\ Ready(h, g, a)
              \/ x.want = "registered" /\ x.user \in UsersOf(a)
              \/ x.want = "not registered" /\ x.user \notin UsersOf(a)
  <2>1. ret = "OK" /\ (exists <=> user \in UsersOf(a))
    BY <1>1, <1>5, LooksWell
  <2>2. Holds(x)
    BY <1>1, <1>5, <2>1 DEF Holds
  <2>3. op \notin Changes
    BY <1>1, <1>5 DEF Changes
  <2>. QED
    BY <1>1, <1>5, <2>1, <2>2, <2>3 DEF Untouched
<1>6. CASE /\ x.op = "list_users"
           /\ \/ x.want = "each"
              \/ x.want = "first" /\ UsersOf(a) = h
              \/ x.want = "count" /\ Cardinality(UsersOf(a)) = x.count
  <2>1. ret = "OK" /\ found = UsersOf(a)
    BY <1>1, <1>6, LooksWell
  <2>2. Holds(x)
    BY <1>1, <1>6, <2>1 DEF Holds
  <2>3. op \notin Changes /\ x.want # "search"
    BY <1>1, <1>6 DEF Changes
  <2>. QED
    BY <1>1, <1>6, <2>1, <2>2, <2>3 DEF Untouched
<1>7. CASE /\ x.op = "list_files" /\ x.user \in UsersOf(a)
           /\ \/ x.want = "all files" /\ FilesIn(a, x.user) = Files
              \/ x.want = "no files" /\ FilesIn(a, x.user) = {}
  <2>1. ret = "OK" /\ found = FilesIn(a, user) /\ ~ repeated
    BY <1>1, <1>7, LooksWell
  <2>2. Holds(x)
    BY <1>1, <1>7, <2>1 DEF Holds
  <2>3. op \notin Changes /\ x.want # "search" /\ x.want # "first"
    BY <1>1, <1>7 DEF Changes
  <2>. QED
    BY <1>1, <1>7, <2>1, <2>2, <2>3 DEF Untouched
<1>8. CASE /\ x.op = "read_bf" /\ x.want = "data" /\ Unlocks(x, a)
           /\ x.file \in Files /\ a.lcs[x.user][x.file] = "use"
  <2>1. ret = "OK" /\ buf = [k \in 1..NChunks |-> Value]
    BY <1>1, <1>8, LooksWell DEF Unlocks
  <2>2. Holds(x)
    BY <1>1, <1>8, <2>1 DEF Holds
  <2>3. op \notin Changes /\ x.want # "search" /\ x.want # "first"
    BY <1>1, <1>8 DEF Changes
  <2>. QED
    BY <1>1, <1>8, <2>1, <2>2, <2>3 DEF Untouched
<1>9. CASE Sixteen(test, x)
  <2>1. op \in FileOps /\ file = BadFile
    BY <1>1, <1>9 DEF Sixteen, FileOps
  <2>2. ret # "OK"
    BY <2>1 DEF DueInv, StatusIsDue
  <2>3. x.want # "search" /\ x.want # "first"
    BY <1>9 DEF Sixteen
  <2>. QED
    BY <1>9, <2>2, <2>3 DEF Untouched
<1>10. CASE Foreign(test, h, x)
  <2>1. op \notin Changes /\ x.want # "search" /\ x.want # "first"
    BY <1>1, <1>10 DEF Foreign, Changes
  <2>. QED
    BY <1>10, <2>1 DEF Untouched
<1>. QED
  BY <1>2, <1>4, <1>5, <1>6, <1>7, <1>8, <1>9, <1>10 DEF Looked

\* A call that changes files has changed what the item says.
LEMMA ChangedHolds ==
  ASSUME Base, TestInv, FileAsked, DueInv, pc = "returned", session,
         NEW a \in State, During(a), NEW b \in State, Head(todo).want = "ok",
         a.chan = "open",
         But(Head(todo).user, a, b), Changed(Head(todo), a, b)
  PROVE  ret = "OK" /\ Now = b
<1>. DEFINE x == Head(todo)
<1>1. /\ todo # << >> /\ todo \in Seq(Items) /\ x \in Items
      /\ op = x.op /\ user = x.user /\ pwd = x.pwd /\ file = x.file
  BY CallIs
<1>2. But(user, a, b) /\ Changed(x, a, b) /\ x.want = "ok"
  BY <1>1
<1>. HIDE DEF x
<1>3. /\ op \in Changes /\ user \in Users /\ pwd \in Passwords
      /\ op \in {"create_bf", "delete_bf"} => file \in Files
  BY <1>1, <1>2 DEF Changed, Changes, Unlocks, UsersOf, FilesIn
<1>4. ret = "OK"
  <2>. SUFFICES ASSUME ret # "OK" PROVE FALSE
    OBVIOUS
  <2>1. lcs = a.lcs /\ pin = a.pin
    BY DEF During, Untouched
  <2>2. op \in FileOps => file \in Files
    BY <1>3 DEF FileOps, Changes
  <2>3. op \in PasswordOps
    BY <1>3 DEF FileOps, PasswordOps, Changes
  <2>4. /\ op = "register" => lcs[user]["df"] # "none"
        /\ op # "register" =>
              \/ lcs[user]["df"] = "none"
              \/ op \in PasswordOps /\ (lcs[user]["kf"] # "use" \/ pin[user] # pwd)
              \/ op = "create_bf" /\ lcs[user][file] # "none"
              \/ op \in {"read_bf", "delete_bf"} /\ lcs[user][file] = "none"
    BY <1>3, <2>2, FailureHasCause
  <2>5. op = "register" => lcs[user]["df"] = "none"
    BY <1>1, <1>2, <1>3, <2>1 DEF Changed, UsersOf
  <2>6. op # "register" => /\ lcs[user]["df"] # "none" /\ lcs[user]["kf"] = "use"
                           /\ pin[user] = pwd
    BY <1>1, <1>2, <1>3, <2>1 DEF Changed, UsersOf, Unlocks
  <2>7. /\ op = "create_bf" => lcs[user][file] = "none"
        /\ op = "delete_bf" => lcs[user][file] # "none"
    BY <1>1, <1>2, <1>3, <2>1 DEF Changed, FilesIn
  <2>. QED
    BY <1>3, <2>4, <2>5, <2>6, <2>7 DEF Changes
<1>5. ChangesAreDone
  BY DEF Base, ResultsInv
<1>6. /\ lcs \in [Users -> [Nodes -> Lcs]] /\ pin \in [Users -> Passwords \cup {None}]
      /\ b.lcs \in [Users -> [Nodes -> Lcs]] /\ b.pin \in [Users -> Passwords \cup {None}]
      /\ a.lcs \in [Users -> [Nodes -> Lcs]]
  BY NowIs, StateIs
<1>7. lcs[user] = b.lcs[user] /\ pin[user] = b.pin[user]
  <2>1. CASE op = "register"
    <3>1. /\ \A n \in {"df", "arr", "kf"} : lcs[user][n] = "use"
          /\ pin[user] = pwd
          /\ \A f \in Files : lcs[user][f] = "none"
      BY <1>4, <1>5, <2>1 DEF ChangesAreDone, Returned
    <3>2. b.lcs[user] = Holder({}) /\ b.pin[user] = pwd
      BY <1>1, <1>2, <2>1 DEF Changed
    <3>3. \A n \in Nodes : lcs[user][n] = IF n \in Files THEN "none" ELSE "use"
      BY <3>1 DEF Nodes, EFs
    <3>4. lcs[user] = [n \in Nodes |-> IF n \in Files THEN "none" ELSE "use"]
      BY <1>3, <1>6, <3>3
    <3>5. Holder({}) = [n \in Nodes |-> IF n \in Files THEN "none" ELSE "use"]
      BY DEF Holder
    <3>. QED
      BY <3>1, <3>2, <3>4, <3>5
  <2>2. CASE op = "unregister"
    BY <1>1, <1>2, <1>4, <1>5, <2>2 DEF ChangesAreDone, Returned, Changed
  <2>3. CASE op \in {"create_bf", "delete_bf"}
    <3>. DEFINE v == IF op = "create_bf" THEN "use" ELSE "none"
    <3>1. lcs[user][file] = v
      BY <1>4, <1>5, <2>3 DEF ChangesAreDone, Returned
    <3>2. pin[user] = a.pin[user] /\ \A n \in Nodes : n # file => lcs[user][n] = a.lcs[user][n]
      BY <1>3, <2>3 DEF During
    <3>3. b.lcs[user] = [a.lcs[user] EXCEPT ![file] = v] /\ b.pin[user] = a.pin[user]
      BY <1>1, <1>2, <2>3 DEF Changed
    <3>. HIDE DEF v
    <3>4. lcs[user] = [a.lcs[user] EXCEPT ![file] = v]
      BY <1>3, <1>6, <3>1, <3>2
    <3>. QED
      BY <3>2, <3>3, <3>4
  <2>. QED
    BY <1>3, <2>1, <2>2, <2>3 DEF Changes
<1>8. \A u \in Users : lcs[u] = b.lcs[u] /\ pin[u] = b.pin[u]
  <2>. SUFFICES ASSUME NEW u \in Users PROVE lcs[u] = b.lcs[u] /\ pin[u] = b.pin[u]
    OBVIOUS
  <2>1. CASE u = user
    BY <1>7, <2>1
  <2>2. CASE u # user
    BY <1>2, <2>2 DEF But, During
  <2>. QED
    BY <2>1, <2>2
<1>9. lcs = b.lcs /\ pin = b.pin
  BY <1>6, <1>8
<1>10. b = [lcs |-> b.lcs, pin |-> b.pin, chan |-> b.chan] /\ b.chan = "open"
  BY <1>2, StateIs DEF But
<1>. QED
  BY <1>4, <1>9, <1>10 DEF Now

\* The assertions on a call hold, but for the two that are known to fail, and
\* the element is then as presumed.
LEMMA Outcome ==
  ASSUME Base, TestInv, FileAsked, DueInv, HoldsValue, pc = "returned",
         NEW a \in State, During(a), NEW c \in State,
         Does(test, others, Staying, Head(todo), a, c)
  PROVE  /\ session /\ Now = c /\ c.chan = "open"
         /\ Holds(Head(todo)) \/ Sixteen(test, Head(todo)) \/ Foreign(test, others, Head(todo))
         /\ Head(todo).want = "first" => found = others
         /\ Head(todo).want = "search" =>
              /\ Ready(others, Staying, Now) /\ user \in Users
              /\ exists <=> user \in UsersOf(Now)
         /\ Head(todo).want = "each" => found = UsersOf(Now)
<1>. DEFINE x == Head(todo)
<1>1. /\ todo # << >> /\ todo \in Seq(Items) /\ x \in Items
      /\ op = x.op /\ user = x.user /\ op \notin {"open", "close", "loop"}
  BY CallIs
<1>2. /\ a.chan = "open"
      /\ \/ Looked(test, others, Staying, x, a) /\ c = a
         \/ x.want = "ok" /\ But(x.user, a, c) /\ Changed(x, a, c)
  BY <1>1 DEF Does
<1>3. session
  BY <1>2 DEF During
<1>4. CASE Looked(test, others, Staying, x, a) /\ c = a
  <2>1. /\ Untouched
        /\ Holds(x) \/ Sixteen(test, x) \/ Foreign(test, others, x)
        /\ x.want = "first" => found = others
        /\ x.want = "search" =>
             Ready(others, Staying, a) /\ user \in Users /\ (exists <=> user \in UsersOf(a))
    BY <1>3, <1>4, LookedHolds
  <2>2. Now = a
    BY <2>1, UntouchedIs
  <2>3. x.want = "each" => found = UsersOf(a)
    BY <1>1, <1>3, LooksWell DEF Items
  <2>. QED
    BY <1>2, <1>3, <1>4, <2>1, <2>2, <2>3
<1>5. CASE x.want = "ok" /\ But(x.user, a, c) /\ Changed(x, a, c)
  <2>1. ret = "OK" /\ Now = c
    BY <1>2, <1>3, <1>5, ChangedHolds
  <2>2. Holds(x)
    BY <1>5, <2>1 DEF Holds
  <2>3. c.chan = "open"
    BY <1>2, <1>5 DEF But
  <2>. QED
    BY <1>3, <1>5, <2>1, <2>2, <2>3
<1>. QED
  BY <1>2, <1>4, <1>5

-----------------------------------------------------------------------------
(* The search for users that are not registered.                            *)

\* What is left of a search goes on from any state in which users are looked for.
LEMMA SearchGoesOn ==
  ASSUME NEW t, NEW h, NEW g, NEW s, NEW a, NEW b, Runs(t, h, g, s, a, b),
         \A k \in 1..Len(s) : Searching(s[k]),
         NEW d \in State, d.chan = "open", NEW f, Ready(h, f, d)
  PROVE  Runs(t, h, f, s, d, d)
<1>1. s \in Seq(Items)
  BY DEF Runs
<1>2. ASSUME NEW k \in 1..Len(s)
      PROVE  Does(t, h, f, s[k], d, d)
  <2>1. s[k] \in Items
    BY <1>1, ElementOfSeq
  <2>2. CASE s[k].op = "loop"
    BY <2>2 DEF Does
  <2>3. CASE s[k].want = "search"
    <3>1. PICK p \in State, q \in State : Does(t, h, g, s[k], p, q)
      <4>1. PICK r \in [1..Len(s) + 1 -> State] : Does(t, h, g, s[k], r[k], r[k + 1])
        BY DEF Runs
      <4>2. k \in 1..Len(s) + 1 /\ k + 1 \in 1..Len(s) + 1
        BY <1>1
      <4>. QED
        BY <4>1, <4>2
    <3>2. s[k].op = "is_registered"
      BY <2>1, <2>3 DEF Items
    <3>3. s[k].user \in Users
      BY <2>3, <3>1, <3>2 DEF Does, Looked, Sixteen, Foreign
    <3>. QED
      BY <2>3, <3>2, <3>3 DEF Does, Looked
  <2>. QED
    BY <1>2, <2>2, <2>3 DEF Searching
<1>. QED
  BY <1>1, <1>2, RunsStill

\* The user found is the only one that a test then registers.
LEMMA FoundNewcomers ==
  ASSUME NEW t \in KeepingTests, NEW u \in Users
  PROVE  Newcomers(Found(t, u)) = {u}
<1>. DEFINE x == Register(u, Password, "ok")
            s == Found(t, u)
<1>1. u \in UserArgs /\ Password \in Passwords
  BY TestAssumption DEF UserArgs
<1>2. <<x>> \in Seq(Acts(u)) /\ 0 < Len(<<x>>) /\ <<x>>[1] = x
  BY <1>1, FirstItem, OneItem
<1>3. FillFiles(u) \in Seq(Acts(u))
  BY <1>1, FilesOfTests
<1>4. s \in Seq(Acts(u)) /\ 0 < Len(s) /\ s[1] = x
  <2>1. CASE t = "add_delete_user_test_2"
    BY <1>2, <2>1 DEF Found
  <2>2. CASE t = "create_delete_file_test_3"
    <3>. HIDE DEF x
    <3>1. /\ <<x>> \o FillFiles(u) \in Seq(Acts(u)) /\ 0 < Len(<<x>> \o FillFiles(u))
          /\ (<<x>> \o FillFiles(u))[1] = x
      BY <1>2, <1>3, FirstStays
    <3>2. s = <<x>> \o FillFiles(u)
      BY <2>2 DEF Found, x
    <3>. QED
      BY <3>1, <3>2
  <2>. QED
    BY <2>1, <2>2 DEF KeepingTests
<1>5. Registration(x) /\ x.user = u
  BY DEF Registration, Register, Item
<1>. HIDE DEF x, s
<1>6. 1 \in 1..Len(s) /\ \A k \in 1..Len(s) : s[k] \in Acts(u)
  BY <1>4
<1>7. \A k \in 1..Len(s) : Registration(s[k]) => s[k].user = u
  BY <1>6 DEF Acts, Registration
<1>8. Newcomers(s) = {u}
  BY <1>4, <1>5, <1>6, <1>7 DEF Newcomers
<1>. QED
  BY <1>8 DEF s

\* One more user is kept.
LEMMA ReadyWith ==
  ASSUME NEW a \in State, NEW h \in SUBSET Users, NEW g, Ready(h, g, a),
         NEW u \in Users \ UsersOf(a), NEW F \in SUBSET Files
  PROVE  Ready(h, g \cup {u}, Has(a, u, Password, F))
<1>. DEFINE b == Has(a, u, Password, F)
<1>1. /\ b \in State /\ b.lcs[u] = Holder(F) /\ b.pin[u] = Password
      /\ \A v \in Users : v # u => b.lcs[v] = a.lcs[v] /\ b.pin[v] = a.pin[v]
      /\ UsersOf(b) = UsersOf(a) \cup {u}
  BY HasIs, TestAssumption
<1>. HIDE DEF b
<1>2. Holder(F)["kf"] = "use"
  BY HolderIs
<1>3. h \cup g \subseteq UsersOf(a) /\ UsersOf(a) \subseteq Users
  BY DEF Ready, Clear, UsersOf
<1>4. Clear(b, h \cup (g \cup {u}))
  BY <1>1, <1>3 DEF Ready, Clear
<1>5. \A v \in g \cup {u} : b.lcs[v]["kf"] = "use" /\ b.pin[v] = Password
  BY <1>1, <1>2, <1>3 DEF Ready
<1>6. Ready(h, g \cup {u}, b)
  BY <1>4, <1>5 DEF Ready
<1>. QED
  BY <1>6 DEF b

-----------------------------------------------------------------------------
(* From step to step.                                                       *)

\* What is to be shown of the state between two calls.
LEMMA NextAsPresumed ==
  ASSUME pc' = "idle", Now' \in State, StillFree', Timely', NEW b \in State,
         Runs(test', others', Staying', todo', Now', b),
         ~ HasLoop(todo') => Clear(b, others')
  PROVE  AsPresumed'
BY DEF AsPresumed, Leads

\* The registration that has been made is one of the test's.
LEMMA StayingSame ==
  ASSUME Base, TestInv, DueInv, FileAsked, CheckResult, Holds(Head(todo))
  PROVE  mine' \cup Newcomers(Tail(todo)) = mine \cup Newcomers(todo)
<1>. DEFINE x == Head(todo)
<1>1. /\ pc = "returned"
      /\ mine' = IF x.op = "register" /\ ret = "OK" THEN mine \cup {user} ELSE mine
  BY DEF CheckResult
<1>2. todo # << >> /\ todo \in Seq(Items) /\ x \in Items /\ op = x.op /\ user = x.user
  BY <1>1, CallIs
<1>3. Newcomers(todo) = Newcomers(Tail(todo)) \cup {u \in Users : Registration(x) /\ x.user = u}
  BY <1>2, NewcomersTail
<1>4. CASE Registration(x)
  <2>1. ret = "OK" /\ op = "register"
    BY <1>2, <1>4 DEF Registration, Holds
  <2>2. user # BadUser
    BY <1>1, <2>1 DEF DueInv, StatusIsDue
  <2>3. user \in Users
    BY <1>2, <2>2 DEF Items
  <2>. QED
    BY <1>1, <1>2, <1>3, <1>4, <2>1, <2>3
<1>5. CASE ~ Registration(x)
  <2>1. x.op = "register" => ret # "OK"
    BY <1>2, <1>5 DEF Items, Registration, Holds
  <2>. QED
    BY <1>1, <1>3, <1>5, <2>1
<1>. QED
  BY <1>4, <1>5

\* The asserted call was presumed to go as it went, and so is what follows.
LEMMA RestRuns ==
  ASSUME Base, TestInv, FirstInv, pc = "returned", failed = {}, others # Users, ~ dead
  PROVE  LET x == Head(todo) IN
         /\ StillFree /\ Timely
         /\ \E b \in State :
              /\ Runs(test, others, Staying, Tail(todo), Now, b)
              /\ ~ HasLoop(todo) => Clear(b, others)
         /\ session /\ Now.chan = "open" /\ Now \in State
         /\ Holds(x) \/ Sixteen(test, x) \/ Foreign(test, others, x)
         /\ x.want = "first" => found = others
         /\ x.want = "search" =>
              /\ Ready(others, Staying, Now) /\ user \in Users
              /\ exists <=> user \in UsersOf(Now)
         /\ x.want = "each" => found = UsersOf(Now)
<1>. DEFINE x == Head(todo)
<1>1. DueInv /\ FileAsked /\ HoldsValue /\ Progress
  BY DEF FirstInv
<1>2. todo # << >> /\ todo \in Seq(Items)
  BY <1>1, CallIs
<1>3. StillFree /\ Timely
  BY <1>1 DEF Progress, AsPresumed
<1>4. PICK a \in State : Leads(a) /\ During(a)
  BY <1>1 DEF Progress, AsPresumed
<1>5. PICK b \in State : /\ Runs(test, others, Staying, todo, a, b)
                         /\ ~ HasLoop(todo) => Clear(b, others)
  BY <1>4 DEF Leads
<1>6. PICK c \in State : /\ Does(test, others, Staying, x, a, c)
                         /\ Runs(test, others, Staying, Tail(todo), c, b)
  BY <1>2, <1>5, RunsHead
<1>7. /\ session /\ Now = c /\ c.chan = "open"
      /\ Holds(x) \/ Sixteen(test, x) \/ Foreign(test, others, x)
      /\ x.want = "first" => found = others
      /\ x.want = "search" =>
           /\ Ready(others, Staying, Now) /\ user \in Users
           /\ exists <=> user \in UsersOf(Now)
      /\ x.want = "each" => found = UsersOf(Now)
  BY <1>1, <1>4, <1>6, Outcome
<1>. QED
  BY <1>3, <1>5, <1>6, <1>7

\* What an assertion that holds leaves to be done, from the state of now: the
\* facts that the cases below share.
LEMMA CheckFacts ==
  ASSUME Base, TestInv, FirstInv, CheckResult, failed' = {}, ~ dead, others # Users
  PROVE  LET x == Head(todo) IN
         /\ pc = "returned" /\ pc' = "idle" /\ failed = {} /\ Holds(x)
         /\ todo' = Remaining(x) /\ UNCHANGED <<test, others>>
         /\ before' = IF x.want = "first" THEN Cardinality(found) ELSE before
         /\ Now' = Now
         /\ todo # << >> /\ todo \in Seq(Items) /\ x \in Items /\ x = todo[1]
         /\ op = x.op /\ user = x.user /\ x.op # "loop"
         /\ Tail(todo) \in Seq(Items)
         /\ HasLoop(Tail(todo)) <=> HasLoop(todo)
         /\ HasLoop(todo) => test \in SearchTests
         /\ mine' \cup Newcomers(Tail(todo)) = mine \cup Newcomers(todo)
<1>. DEFINE x == Head(todo)
<1>1. /\ pc = "returned" /\ pc' = "idle"
      /\ todo' = IF Holds(x) THEN Remaining(x) ELSE << >>
      /\ failed' = failed \cup {t \in {test} : ~ Holds(x)}
      /\ before' = IF x.want = "first" THEN Cardinality(found) ELSE before
      /\ UNCHANGED <<test, others, lcs, pin, session>>
  BY DEF CheckResult, CallerResumes, Idle, cardVars, fileVars
<1>2. failed = {} /\ Holds(x)
  BY <1>1
<1>3. DueInv /\ FileAsked
  BY DEF FirstInv
<1>4. /\ todo # << >> /\ todo \in Seq(Items) /\ x \in Items
      /\ op = x.op /\ user = x.user /\ x.op # "loop"
  BY <1>1, <1>3, CallIs
<1>5. x = todo[1] /\ Tail(todo) \in Seq(Items)
  BY <1>4, TailIs
<1>6. HasLoop(Tail(todo)) <=> HasLoop(todo)
  <2>1. TRUE \in BOOLEAN
    OBVIOUS
  <2>. QED
    BY <1>4, <2>1, TailKeeps
<1>7. HasLoop(todo) => test \in SearchTests
  BY DEF TestInv, TestTypeOK
<1>8. mine' \cup Newcomers(Tail(todo)) = mine \cup Newcomers(todo)
  BY <1>2, <1>3, StayingSame
<1>9. Now' = Now
  BY <1>1 DEF Now
<1>. QED
  BY <1>1, <1>2, <1>4, <1>5, <1>6, <1>7, <1>8, <1>9

\* Where a user is still looked for in a test that leaves the loop then, and a
\* user asked for was there, the one that is free stands further on.
LEMMA FreeAhead ==
  ASSUME todo \in Seq(Items), todo # << >>, StillFree, Breaks(test), HasLoop(todo),
         Head(todo).want = "search" => Head(todo).user \in others
  PROVE  \E k \in 1..Len(Tail(todo)) :
           Tail(todo)[k].want = "search" /\ Tail(todo)[k].user \notin others
<1>1. PICK k \in 1..Len(todo) : todo[k].want = "search" /\ todo[k].user \notin others
  BY DEF StillFree
<1>2. /\ Head(todo) = todo[1] /\ Len(todo) \in Nat \ {0}
      /\ \A j \in 2..Len(todo) : j - 1 \in 1..Len(Tail(todo)) /\ todo[j] = Tail(todo)[j - 1]
  BY TailIs
<1>3. k # 1
  BY <1>1, <1>2
<1>4. k \in 2..Len(todo)
  BY <1>2, <1>3
<1>. QED
  BY <1>1, <1>2, <1>4

\* The same of the count before the loop.
LEMMA CountAhead ==
  ASSUME todo \in Seq(Items), todo # << >>, Timely, test \in Counting
  PROVE  \/ before = Cardinality(others) \/ CountsFirst(Head(todo))
         \/ \E k \in 1..Len(Tail(todo)) : CountsFirst(Tail(todo)[k])
<1>1. CASE before = Cardinality(others)
  BY <1>1
<1>2. CASE \E k \in 1..Len(todo) : CountsFirst(todo[k])
  <2>1. PICK k \in 1..Len(todo) : CountsFirst(todo[k])
    BY <1>2
  <2>2. /\ Head(todo) = todo[1] /\ Len(todo) \in Nat \ {0}
        /\ \A j \in 2..Len(todo) : j - 1 \in 1..Len(Tail(todo)) /\ todo[j] = Tail(todo)[j - 1]
    BY TailIs
  <2>3. k = 1 \/ k \in 2..Len(todo)
    BY <2>2
  <2>. QED
    BY <2>1, <2>2, <2>3
<1>. QED
  BY <1>1, <1>2 DEF Timely

\* The test goes on with the next item.
LEMMA PlainGoesOn ==
  ASSUME Base, TestInv, FirstInv, CheckResult, failed' = {}, ~ dead, others # Users,
         ~ (Head(todo).want = "search" /\ ~ exists), Head(todo).want # "each"
  PROVE  AsPresumed'
<1>. DEFINE x == Head(todo)
            s == Tail(todo)
<1>1. /\ pc = "returned" /\ pc' = "idle" /\ failed = {} /\ Holds(x)
      /\ todo' = Remaining(x) /\ UNCHANGED <<test, others>>
      /\ before' = IF x.want = "first" THEN Cardinality(found) ELSE before
      /\ Now' = Now
      /\ todo # << >> /\ todo \in Seq(Items) /\ x \in Items
      /\ op = x.op /\ user = x.user
      /\ HasLoop(s) <=> HasLoop(todo)
      /\ mine' \cup Newcomers(s) = mine \cup Newcomers(todo)
  BY CheckFacts
<1>2. todo' = s
  BY <1>1 DEF Remaining
<1>3. /\ StillFree /\ Timely /\ Now \in State
      /\ x.want = "first" => found = others
      /\ x.want = "search" =>
           /\ Ready(others, Staying, Now) /\ user \in Users
           /\ exists <=> user \in UsersOf(Now)
  BY <1>1, RestRuns
<1>4. PICK b \in State : /\ Runs(test, others, Staying, s, Now, b)
                         /\ ~ HasLoop(todo) => Clear(b, others)
  BY <1>1, RestRuns
<1>5. Staying' = Staying
  BY <1>1, <1>2 DEF Staying
<1>6. StillFree'
  <2>. SUFFICES ASSUME Breaks(test), HasLoop(s)
                PROVE  \E k \in 1..Len(s) : s[k].want = "search" /\ s[k].user \notin others
    BY <1>1, <1>2 DEF StillFree, Breaks, HasLoop
  <2>1. Staying = {}
    BY DEF Staying, Breaks, KeepingTests
  <2>2. ASSUME x.want = "search"
        PROVE  x.user \in others
    <3>1. Clear(Now, others \cup {}) /\ user \in UsersOf(Now)
      BY <1>3, <2>1, <2>2 DEF Ready
    <3>2. user \in others \cup {}
      BY <3>1, NodeNames DEF Clear, UsersOf, NoFiles
    <3>. QED
      BY <1>1, <3>2
  <2>. QED
    BY <1>1, <1>3, <2>2, FreeAhead
<1>7. Timely'
  <2>. SUFFICES ASSUME test \in Counting
                PROVE  before' = Cardinality(others) \/ \E k \in 1..Len(s) : CountsFirst(s[k])
    BY <1>1, <1>2 DEF Timely, CountsFirst
  <2>1. x.want = "first" => before' = Cardinality(others)
    BY <1>1, <1>3
  <2>2. x.want # "first" => before' = before /\ ~ CountsFirst(x)
    BY <1>1 DEF CountsFirst
  <2>. QED
    BY <1>1, <1>3, <2>1, <2>2, CountAhead
<1>8. Runs(test', others', Staying', todo', Now', b) /\ (~ HasLoop(todo') => Clear(b, others'))
  BY <1>1, <1>2, <1>4, <1>5
<1>9. Now' \in State
  BY <1>1, <1>3
<1>. QED
  BY <1>1, <1>6, <1>7, <1>8, <1>9, NextAsPresumed

\* get_user_list_test asks for each user that has been listed.
LEMMA EachGoesOn ==
  ASSUME Base, TestInv, FirstInv, CheckResult, failed' = {}, ~ dead, others # Users,
         Head(todo).want = "each"
  PROVE  AsPresumed'
<1>. DEFINE x == Head(todo)
            s == Tail(todo)
            a == [k \in 1..Cardinality(found) |-> IsRegistered(SetToSeq(found)[k], "registered")]
<1>1. /\ pc = "returned" /\ pc' = "idle" /\ failed = {} /\ Holds(x)
      /\ todo' = Remaining(x) /\ UNCHANGED <<test, others>>
      /\ before' = IF x.want = "first" THEN Cardinality(found) ELSE before
      /\ Now' = Now
      /\ todo # << >> /\ todo \in Seq(Items) /\ x \in Items
      /\ op = x.op /\ user = x.user /\ s \in Seq(Items)
      /\ HasLoop(s) <=> HasLoop(todo)
      /\ mine' \cup Newcomers(s) = mine \cup Newcomers(todo)
  BY CheckFacts
<1>2. todo' = a \o s
  BY <1>1 DEF Remaining
<1>3. /\ StillFree /\ Timely /\ Now \in State /\ Now.chan = "open"
      /\ found = UsersOf(Now)
  BY <1>1, RestRuns
<1>4. PICK b \in State : /\ Runs(test, others, Staying, s, Now, b)
                         /\ ~ HasLoop(todo) => Clear(b, others)
  BY <1>1, RestRuns
<1>5. /\ a \in Seq(Items) /\ Len(a) = Cardinality(found)
      /\ \A k \in 1..Len(a) : \E u \in UsersOf(Now) : a[k] = IsRegistered(u, "registered")
  <2>. DEFINE n == Cardinality(found)
  <2>1. n \in Nat /\ \A k \in 1..n : SetToSeq(found)[k] \in UsersOf(Now)
    BY <1>3, ListedFinite, SetToSeqIs
  <2>2. \A u \in UsersOf(Now) : IsRegistered(u, "registered") \in Items
    <3>1. UsersOf(Now) \subseteq UserArgs
      BY DEF UsersOf, UserArgs
    <3>. QED
      BY <3>1, ItemsAre DEF Asks, PlainItems
  <2>. HIDE DEF n
  <2>. DEFINE e == [k \in 1..n |-> IsRegistered(SetToSeq(found)[k], "registered")]
  <2>3. \A k \in 1..n : e[k] = IsRegistered(SetToSeq(found)[k], "registered")
    OBVIOUS
  <2>4. e \in Seq(Items) /\ Len(e) = n
    BY <2>1, <2>2
  <2>. HIDE DEF e
  <2>5. \A k \in 1..Len(e) : \E u \in UsersOf(Now) : e[k] = IsRegistered(u, "registered")
    BY <2>1, <2>3, <2>4
  <2>6. e = a
    BY DEF e, n
  <2>. QED
    BY <2>4, <2>5, <2>6 DEF n
<1>. HIDE DEF a
<1>6. ASSUME NEW g
      PROVE  Runs(test, others, g, a, Now, Now)
  <2>1. ASSUME NEW u \in UsersOf(Now)
        PROVE  Does(test, others, g, IsRegistered(u, "registered"), Now, Now)
    BY <1>3 DEF Does, Looked, IsRegistered, Item, UsersOf
  <2>2. \A k \in 1..Len(a) : Does(test, others, g, a[k], Now, Now)
    BY <1>5, <2>1
  <2>. QED
    BY <1>3, <1>5, <2>2, RunsStill
<1>7. Runs(test, others, Staying, a \o s, Now, b)
  BY <1>4, <1>6, RunsConcat
<1>8. \A k \in 1..Len(a) : a[k].op = "is_registered" /\ a[k].want = "registered"
  BY <1>5 DEF IsRegistered, Item
<1>9. Newcomers(a \o s) = Newcomers(s)
  <2>1. Newcomers(a) = {}
    BY <1>8, NoNewcomers
  <2>2. Newcomers(a \o s) = Newcomers(a) \cup Newcomers(s)
    <3>. HIDE DEF s
    <3>1. s \in Seq(Items) /\ a \in Seq(Items)
      BY <1>1, <1>5
    <3>. QED
      BY <3>1, NewcomersConcat
  <2>. QED
    BY <2>1, <2>2
<1>10. Staying' = Staying
  BY <1>1, <1>2, <1>9 DEF Staying
<1>11. /\ \A k \in 1..Len(s) : Len(a) + k \in 1..Len(a \o s) /\ (a \o s)[Len(a) + k] = s[k]
       /\ \A k \in 1..Len(a \o s) : k \in 1..Len(a) \/ (k > Len(a) /\ k - Len(a) \in 1..Len(s))
       /\ \A k \in 1..Len(a) : (a \o s)[k] = a[k]
       /\ Len(a) \in Nat /\ Len(s) \in Nat
  <2>. HIDE DEF s
  <2>1. s \in Seq(Items) /\ a \in Seq(Items)
    BY <1>1, <1>5
  <2>. QED
    BY <2>1, ConcatIs
<1>12. HasLoop(a \o s) <=> HasLoop(s)
  <2>1. ASSUME HasLoop(s) PROVE HasLoop(a \o s)
    BY <1>11, <2>1 DEF HasLoop
  <2>2. ASSUME HasLoop(a \o s) PROVE HasLoop(s)
    <3>1. PICK k \in 1..Len(a \o s) : (a \o s)[k].op = "loop"
      BY <2>2 DEF HasLoop
    <3>2. k \notin 1..Len(a)
      BY <1>8, <1>11, <3>1
    <3>3. k - Len(a) \in 1..Len(s) /\ Len(a) + (k - Len(a)) = k
      BY <1>11, <3>2
    <3>4. s[k - Len(a)].op = "loop"
      BY <1>11, <3>1, <3>3
    <3>. QED
      BY <3>3, <3>4 DEF HasLoop
  <2>. QED
    BY <2>1, <2>2
<1>13. StillFree'
  <2>. SUFFICES ASSUME Breaks(test), HasLoop(a \o s)
                PROVE  \E k \in 1..Len(a \o s) :
                         (a \o s)[k].want = "search" /\ (a \o s)[k].user \notin others
    BY <1>1, <1>2 DEF StillFree, Breaks, HasLoop
  <2>1. HasLoop(todo)
    BY <1>1, <1>12
  <2>2. PICK k \in 1..Len(s) : s[k].want = "search" /\ s[k].user \notin others
    BY <1>1, <1>3, <2>1, FreeAhead
  <2>. QED
    BY <1>11, <2>2
<1>14. Timely'
  <2>. SUFFICES ASSUME test \in Counting
                PROVE  before' = Cardinality(others)
                       \/ \E k \in 1..Len(a \o s) : CountsFirst((a \o s)[k])
    BY <1>1, <1>2 DEF Timely, CountsFirst
  <2>1. before' = before /\ ~ CountsFirst(x)
    BY <1>1 DEF CountsFirst
  <2>2. before = Cardinality(others) \/ \E k \in 1..Len(s) : CountsFirst(s[k])
    BY <1>1, <1>3, <2>1, CountAhead
  <2>3. ASSUME NEW k \in 1..Len(s), CountsFirst(s[k])
        PROVE  \E j \in 1..Len(a \o s) : CountsFirst((a \o s)[j])
    <3>1. Len(a) + k \in 1..Len(a \o s) /\ CountsFirst((a \o s)[Len(a) + k])
      BY <1>11, <2>3
    <3>. QED
      BY <3>1
  <2>. QED
    BY <2>1, <2>2, <2>3
<1>15. Runs(test', others', Staying', todo', Now', b) /\ (~ HasLoop(todo') => Clear(b, others'))
  BY <1>1, <1>2, <1>4, <1>7, <1>10, <1>12
<1>16. Now' \in State
  BY <1>1, <1>3
<1>. QED
  BY <1>1, <1>13, <1>14, <1>15, <1>16, NextAsPresumed

\* A free user has been found: what the test does with it goes before the rest
\* of the search.
LEMMA FoundGoesOn ==
  ASSUME Base, TestInv, FirstInv, CheckResult, failed' = {}, ~ dead, others # Users,
         Head(todo).want = "search", ~ exists
  PROVE  AsPresumed'
<1>. DEFINE x == Head(todo)
            s == Tail(todo)
            w == Found(test, user)
<1>1. /\ pc = "returned" /\ pc' = "idle" /\ failed = {} /\ Holds(x)
      /\ todo' = Remaining(x) /\ UNCHANGED <<test, others>>
      /\ before' = IF x.want = "first" THEN Cardinality(found) ELSE before
      /\ Now' = Now
      /\ todo # << >> /\ todo \in Seq(Items) /\ x \in Items /\ x = todo[1]
      /\ op = x.op /\ user = x.user /\ s \in Seq(Items)
      /\ HasLoop(s) <=> HasLoop(todo)
      /\ HasLoop(todo) => test \in SearchTests
      /\ mine' \cup Newcomers(s) = mine \cup Newcomers(todo)
  BY CheckFacts
<1>2. todo' = w \o (IF Breaks(test) THEN << >> ELSE s)
  BY <1>1 DEF Remaining
<1>3. /\ Timely /\ Now \in State /\ Now.chan = "open"
      /\ Ready(others, Staying, Now) /\ user \in Users \ UsersOf(Now)
  BY <1>1, RestRuns
<1>4. PICK b \in State : Runs(test, others, Staying, s, Now, b)
  BY <1>1, RestRuns
<1>5. /\ Len(todo) \in Nat \ {0} /\ todo[Len(todo)].op = "loop"
      /\ \A j \in 1..Len(todo) : Searching(todo[j]) /\ todo[j] \in Items
  <2>1. SearchLast(todo)
    BY DEF TestInv, WellMade
  <2>2. Len(todo) \in Nat \ {0} /\ 1 \in 1..Len(todo)
    BY <1>1, TailIs
  <2>3. todo[Len(todo)].op = "loop" /\ \A j \in 1..Len(todo) : Searching(todo[j])
    BY <1>1, <2>1, <2>2 DEF SearchLast
  <2>4. \A j \in 1..Len(todo) : todo[j] \in Items
    BY <1>1, ElementOfSeq
  <2>. QED
    BY <2>2, <2>3, <2>4
<1>6. \A j \in 1..Len(todo) : todo[j].op \in {"is_registered", "loop"}
  BY <1>5 DEF Searching, Items
<1>7. HasLoop(todo) /\ test \in SearchTests
  BY <1>1, <1>5 DEF HasLoop
<1>8. Newcomers(todo) = {}
  <2>1. \A j \in 1..Len(todo) : todo[j].op # "register"
    BY <1>6
  <2>. QED
    BY <2>1, NoNewcomers
<1>9. mine' = mine /\ Newcomers(s) = {}
  <2>1. mine' = IF x.op = "register" /\ ret = "OK" THEN mine \cup {user} ELSE mine
    BY DEF CheckResult
  <2>2. x.op = "is_registered"
    BY <1>1 DEF Items
  <2>3. mine' = mine
    BY <2>1, <2>2
  <2>4. Newcomers(todo) = Newcomers(s) \cup {u \in Users : Registration(x) /\ x.user = u}
    BY <1>1, NewcomersTail
  <2>. QED
    BY <1>8, <2>3, <2>4
<1>10. Staying = IF test \in KeepingTests THEN mine ELSE {}
  BY <1>8 DEF Staying
<1>11. test \in Counting => before = Cardinality(others)
  <2>1. \A j \in 1..Len(todo) : ~ CountsFirst(todo[j])
    BY <1>6 DEF CountsFirst
  <2>. QED
    BY <1>1, <1>3, <2>1 DEF Timely
<1>12. Now.lcs[user] = NoFiles /\ Now.pin[user] = None
  BY <1>3 DEF Ready, Clear
<1>13. test \notin KeepingTests => Clear(Now, others) /\ UsersOf(Now) = others
  <2>. SUFFICES ASSUME test \notin KeepingTests
                PROVE  Clear(Now, others) /\ UsersOf(Now) = others
    OBVIOUS
  <2>1. Staying = {} /\ others \cup {} = others
    BY <1>10
  <2>2. Clear(Now, others)
    BY <1>3, <2>1 DEF Ready
  <2>3. others \in SUBSET Users
    BY DEF TestInv, TestTypeOK
  <2>. QED
    BY <2>2, <2>3, ClearIs
<1>14. test = "add_delete_user_test_1" => before = Cardinality(UsersOf(Now))
  BY <1>11, <1>13 DEF Counting, KeepingTests, SearchTests
<1>15. PICK d \in State :
         /\ Runs(test, others, Staying', w, Now, d)
         /\ test \in KeepingTests => \E F \in SUBSET Files : d = Has(Now, user, Password, F)
         /\ test \notin KeepingTests => d.lcs = Now.lcs /\ d.pin = Now.pin
         /\ ~ Breaks(test) => d.chan = "open"
  BY <1>3, <1>7, <1>12, <1>14, FoundRuns
<1>16. w \in Seq(Items) /\ ~ HasLoop(w)
  <2>1. user \in UserArgs /\ before \in Nat
    BY <1>3 DEF UserArgs, TestInv, TestTypeOK
  <2>2. w \in Seq(Acts(user)) /\ RegisterFirst(w, others)
    BY <1>7, <2>1, FoundIs
  <2>. HIDE DEF w
  <2>3. WellMade(w, others) /\ ~ HasLoop(w)
    BY <2>2, ActsWellMade
  <2>. QED
    BY <2>3 DEF WellMade
<1>17. Timely'
  BY <1>1, <1>11 DEF Timely, CountsFirst
<1>18. Now' \in State
  BY <1>1, <1>3
<1>. HIDE DEF w
<1>19. CASE Breaks(test)
  <2>1. todo' = w
    BY <1>2, <1>16, <1>19, ConcatEmptySeq
  <2>2. test \notin KeepingTests
    BY <1>19 DEF Breaks, KeepingTests
  <2>3. StillFree'
    BY <1>16, <2>1 DEF StillFree, HasLoop
  <2>4. Clear(d, others)
    BY <1>13, <1>15, <2>2 DEF Clear, UsersOf
  <2>5. Runs(test', others', Staying', todo', Now', d) /\ (~ HasLoop(todo') => Clear(d, others'))
    BY <1>1, <1>15, <2>1, <2>4
  <2>. QED
    BY <1>1, <1>17, <1>18, <2>3, <2>5, NextAsPresumed
<1>20. CASE ~ Breaks(test)
  <2>1. todo' = w \o s
    BY <1>2, <1>20
  <2>2. StillFree'
    BY <1>1, <1>20 DEF StillFree, Breaks
  <2>3. Ready(others, Staying', d)
    <3>0. others \in SUBSET Users
      BY DEF TestInv, TestTypeOK
    <3>1. CASE test \in KeepingTests
      <4>1. Newcomers(w) = {user}
        BY <1>3, <3>1, FoundNewcomers DEF w
      <4>2. Newcomers(w \o s) = {user} \cup {}
        <5>. HIDE DEF s
        <5>1. w \in Seq(Items) /\ s \in Seq(Items)
          BY <1>1, <1>16
        <5>2. Newcomers(w \o s) = Newcomers(w) \cup Newcomers(s)
          BY <5>1, NewcomersConcat
        <5>. QED
          BY <1>9, <4>1, <5>2
      <4>3. Staying' = mine' \cup Newcomers(todo')
        BY <1>1, <3>1 DEF Staying
      <4>4. Staying' = mine \cup {user} /\ Staying = mine
        BY <1>9, <1>10, <2>1, <3>1, <4>2, <4>3
      <4>5. PICK F \in SUBSET Files : d = Has(Now, user, Password, F)
        BY <1>15, <3>1
      <4>6. Ready(others, mine \cup {user}, d)
        BY <1>3, <3>0, <4>4, <4>5, ReadyWith
      <4>. QED
        BY <4>4, <4>6
    <3>2. CASE test \notin KeepingTests
      <4>1. Staying' = {} /\ others \cup {} = others
        BY <1>1, <3>2 DEF Staying
      <4>2. Clear(d, others)
        BY <1>13, <1>15, <3>2 DEF Clear, UsersOf
      <4>. QED
        BY <4>1, <4>2 DEF Ready
    <3>. QED
      BY <3>1, <3>2
  <2>4. \A k \in 1..Len(s) : Searching(s[k])
    <3>1. \A k \in 1..Len(s) : k + 1 \in 1..Len(todo) /\ s[k] = todo[k + 1]
      BY <1>1, TailIs
    <3>. QED
      BY <1>5, <3>1
  <2>5. Runs(test, others, Staying', s, d, d)
    <3>. HIDE DEF s
    <3>. QED
      BY <1>4, <1>15, <1>20, <2>3, <2>4, SearchGoesOn
  <2>6. Runs(test, others, Staying', w \o s, Now, d)
    BY <1>15, <2>5, RunsConcat
  <2>7. HasLoop(w \o s)
    <3>1. HasLoop(s) /\ s \in Seq(Items)
      BY <1>1, <1>7
    <3>. HIDE DEF s
    <3>2. \A k \in 1..Len(s) : Len(w) + k \in 1..Len(w \o s) /\ (w \o s)[Len(w) + k] = s[k]
      BY <1>16, <3>1, ConcatIs
    <3>. QED
      BY <3>1, <3>2 DEF HasLoop
  <2>8. Runs(test', others', Staying', todo', Now', d) /\ (~ HasLoop(todo') => Clear(d, others'))
    BY <1>1, <2>1, <2>6, <2>7
  <2>. QED
    BY <1>1, <1>17, <1>18, <2>2, <2>8, NextAsPresumed
<1>. QED
  BY <1>19, <1>20

\* What SecStorage's calls return stays due.
LEMMA DueKept ==
  ASSUME Base, DueInv, TestNext \/ UNCHANGED vars
  PROVE  DueInv'
<1>1. Next \/ UNCHANGED vars
  BY TestStep
<1>2. lost' = 0 /\ "refuse" \notin Faults
  BY <1>1, BaseStep, TestAssumption
<1>3. Whole /\ Gathering
  BY DEF Base, ResultsInv
<1>. QED
  BY <1>1, <1>2, <1>3, DueNext, DueStutter

\* One more test with a failed assertion.
LEMMA FailedMore ==
  ASSUME IsFiniteSet(failed), NEW S \in SUBSET {test}, failed' = failed \cup S
  PROVE  IsFiniteSet(failed')
<1>1. IsFiniteSet({test})
  BY FS_Singleton
<1>2. IsFiniteSet(S)
  BY <1>1, FS_Subset
<1>. QED
  BY <1>2, FS_Union

\* The assertions on a call's outcome.
LEMMA CheckResultFirst == ASSUME Base, TestInv, FirstInv, CheckResult PROVE FirstInv'
<1>. DEFINE x == Head(todo)
            S == {t \in {test} : ~ Holds(x)}
<1>1. /\ pc = "returned" /\ pc' = "idle" /\ UNCHANGED <<dead, others, lcs, data, test>>
      /\ failed' = failed \cup S
  BY DEF CheckResult, CallerResumes, Idle, cardVars, fileVars
<1>2. DueInv /\ FileAsked /\ HoldsValue /\ DeadStops /\ FirstKnown /\ Progress
  BY DEF FirstInv
<1>3. todo # << >> /\ ~ dead
  BY <1>1, <1>2, CallIs DEF DeadStops
<1>4. DueInv'
  BY <1>2, DueKept DEF TestNext
<1>5. FileAsked' /\ HoldsValue' /\ DeadStops'
  BY <1>1, <1>2, <1>3 DEF FileAsked, HoldsValue, DeadStops
<1>6. FirstKnown'
  <2>1. IsFiniteSet(failed')
    BY <1>1, <1>2, FailedMore DEF FirstKnown
  <2>2. ASSUME others # Users, failed' # {}
        PROVE  \/ "check_file_id_test" \in failed'
               \/ "add_delete_user_test_2" \in failed' /\ others # {}
    <3>1. CASE failed # {}
      BY <1>1, <1>2, <2>2, <3>1 DEF FirstKnown
    <3>2. CASE failed = {}
      <4>1. ~ Holds(x) /\ failed' = {test}
        BY <1>1, <2>2, <3>2
      <4>2. Sixteen(test, x) \/ Foreign(test, others, x)
        BY <1>1, <1>3, <2>2, <3>2, <4>1, RestRuns
      <4>. QED
        BY <4>1, <4>2 DEF Sixteen, Foreign
    <3>. QED
      BY <3>1, <3>2
  <2>. QED
    BY <1>1, <2>1, <2>2 DEF FirstKnown
<1>7. Progress'
  <2>. SUFFICES ASSUME failed' = {}, others # Users
                PROVE  AsPresumed'
    BY <1>1 DEF Progress
  <2>. QED
    BY <1>3, PlainGoesOn, EachGoesOn, FoundGoesOn
<1>. QED
  BY <1>4, <1>5, <1>6, <1>7 DEF FirstInv

\* A test begins, or its line is commented out.
LEMMA RunTestFirst == ASSUME Base, TestInv, FirstInv, RunTest PROVE FirstInv'
<1>1. /\ pc = "idle" /\ todo = << >> /\ queue # << >> /\ mine' = {} /\ pc' = "idle"
      /\ UNCHANGED <<dead, others, failed, lcs, pin, data, session>>
      /\ (test' = Head(queue) /\ todo' = Begin(Head(queue))) \/ UNCHANGED <<test, todo>>
  BY DEF RunTest, vars, clientVars, cardVars, fileVars
<1>2. DueInv /\ FileAsked /\ HoldsValue /\ DeadStops /\ FirstKnown /\ Progress
  BY DEF FirstInv
<1>3. DueInv'
  BY <1>2, DueKept DEF TestNext
<1>4. FileAsked' /\ HoldsValue' /\ DeadStops' /\ FirstKnown'
  BY <1>1, <1>2 DEF FileAsked, HoldsValue, DeadStops, FirstKnown
<1>5. Progress'
  <2>. SUFFICES ASSUME failed = {}, ~ dead, others # Users
                PROVE  AsPresumed'
    BY <1>1 DEF Progress
  <2>1. PICK b \in State : Runs(test, others, Staying, << >>, Now, b)
                           /\ (~ HasLoop(<< >>) => Clear(b, others))
    BY <1>1, <1>2 DEF Progress, AsPresumed, Leads
  <2>2. Now \in State /\ Now' = Now
    BY <1>1, NowIs DEF Now
  <2>3. Clear(Now, others)
    <3>1. ~ HasLoop(<< >>)
      BY DEF HasLoop
    <3>2. b = Now
      BY <2>1, <2>2, RunsNil
    <3>. QED
      BY <2>1, <3>1, <3>2
  <2>4. Newcomers(<< >>) = {}
    BY DEF Newcomers
  <2>5. others \in SUBSET Users /\ Head(queue) \in TestNames
    <3>1. queue \in Seq(TestNames) /\ others \subseteq Users
      BY DEF TestInv, TestTypeOK
    <3>. QED
      BY <1>1, <3>1, HeadTailProperties
  <2>6. CASE test' = Head(queue) /\ todo' = Begin(Head(queue))
    <3>. DEFINE t == Head(queue)
    <3>1. /\ Begin(t) \in Seq(Items) /\ Newcomers(Begin(t)) = {}
          /\ t \in Counting => Amid(Count("first", 0), Begin(t))
          /\ t \in SearchTests => \A u \in Users : Amid(IsRegistered(u, "search"), Begin(t))
          /\ \E d \in State : /\ Runs(t, others, {}, Begin(t), Now, d)
                              /\ d.lcs = Now.lcs /\ d.pin = Now.pin
      BY <2>2, <2>3, <2>5, BeginHas
    <3>2. PICK d \in State : /\ Runs(t, others, {}, Begin(t), Now, d)
                             /\ d.lcs = Now.lcs /\ d.pin = Now.pin
      BY <3>1
    <3>3. Staying' = {}
      BY <1>1, <2>6, <3>1 DEF Staying
    <3>4. Clear(d, others)
      BY <2>3, <3>2 DEF Clear, UsersOf
    <3>. HIDE DEF t
    <3>5. StillFree'
      <4>. SUFFICES ASSUME Breaks(t)
                    PROVE  \E k \in 1..Len(todo') : todo'[k].want = "search"
                                                    /\ todo'[k].user \notin others
        BY <1>1, <2>6 DEF StillFree, Breaks, t
      <4>1. t \in SearchTests
        BY DEF Breaks, SearchTests
      <4>2. PICK u \in Users : u \notin others
        BY <2>5
      <4>3. Amid(IsRegistered(u, "search"), Begin(t))
        BY <3>1, <4>1
      <4>4. PICK k \in 1..Len(Begin(t)) : Begin(t)[k] = IsRegistered(u, "search")
        BY <4>3 DEF Amid
      <4>5. Begin(t)[k].want = "search" /\ Begin(t)[k].user = u
        BY <4>4 DEF IsRegistered, Item
      <4>. QED
        BY <2>6, <4>2, <4>5 DEF t
    <3>6. Timely'
      <4>. SUFFICES ASSUME t \in Counting
                    PROVE  \E k \in 1..Len(todo') : CountsFirst(todo'[k])
        BY <2>6 DEF Timely, CountsFirst, t
      <4>1. PICK k \in 1..Len(Begin(t)) : Begin(t)[k] = Count("first", 0)
        BY <3>1 DEF Amid
      <4>2. CountsFirst(Begin(t)[k])
        BY <4>1 DEF Count, Item, CountsFirst
      <4>. QED
        BY <2>6, <4>2 DEF t
    <3>7. Runs(test', others', Staying', todo', Now', d) /\ (~ HasLoop(todo') => Clear(d, others'))
      BY <1>1, <2>2, <2>6, <3>2, <3>3, <3>4 DEF t
    <3>. QED
      BY <1>1, <2>2, <3>5, <3>6, <3>7, NextAsPresumed
  <2>7. CASE UNCHANGED <<test, todo>>
    <3>1. StillFree' /\ Timely'
      BY <1>1, <2>7 DEF StillFree, HasLoop, Timely
    <3>2. Runs(test', others', Staying', todo', Now', Now)
      BY <1>1, <2>2, <2>7, RunsNil
    <3>3. ~ HasLoop(todo') => Clear(Now, others')
      BY <1>1, <2>3
    <3>. QED
      BY <1>1, <2>2, <3>1, <3>2, <3>3, NextAsPresumed
  <2>. QED
    BY <1>1, <2>6, <2>7
<1>. QED
  BY <1>3, <1>4, <1>5 DEF FirstInv

\* What the next item does from the state of now.
LEMMA NextDoes ==
  ASSUME Base, FirstInv, pc = "idle", failed = {}, ~ dead, others # Users, todo # << >>
  PROVE  /\ StillFree /\ Timely /\ Now \in State /\ todo \in Seq(Items) /\ Head(todo) \in Items
         /\ \E b \in State, c \in State :
              /\ Does(test, others, Staying, Head(todo), Now, c)
              /\ Runs(test, others, Staying, Tail(todo), c, b)
              /\ ~ HasLoop(todo) => Clear(b, others)
<1>1. Progress
  BY DEF FirstInv
<1>2. StillFree /\ Timely
  BY <1>1 DEF Progress, AsPresumed
<1>3. Leads(Now)
  BY <1>1 DEF Progress, AsPresumed
<1>4. PICK b \in State : /\ Runs(test, others, Staying, todo, Now, b)
                         /\ ~ HasLoop(todo) => Clear(b, others)
  BY <1>3 DEF Leads
<1>5. Now \in State
  BY NowIs
<1>. QED
  BY <1>2, <1>4, <1>5, RunsHead

\* The channel is opened or closed.
LEMMA ChannelFirst == ASSUME Base, TestInv, FirstInv, Open \/ Close PROVE FirstInv'
<1>. DEFINE x == Head(todo)
            s == Tail(todo)
<1>1. /\ todo # << >> /\ x.op \in {"open", "close"} /\ todo' = s
      /\ pc = "idle" /\ pc' = "idle" /\ (session' <=> x.op = "open")
      /\ UNCHANGED <<test, before, mine, failed, dead, others, lcs, pin, data, queue>>
  BY DEF Open, Close, AtLocal, OpenChannel, CloseChannel, vars, clientVars, cardVars, fileVars
<1>2. DueInv /\ FileAsked /\ HoldsValue /\ DeadStops /\ FirstKnown /\ Progress
  BY DEF FirstInv
<1>3. DueInv'
  BY <1>2, DueKept DEF TestNext
<1>4. FileAsked' /\ HoldsValue' /\ FirstKnown'
  BY <1>1, <1>2 DEF FileAsked, HoldsValue, FirstKnown
<1>5. DeadStops'
  BY <1>1, <1>2 DEF DeadStops
<1>6. Progress'
  <2>. SUFFICES ASSUME failed = {}, ~ dead, others # Users
                PROVE  AsPresumed'
    BY <1>1 DEF Progress
  <2>1. StillFree /\ Timely /\ Now \in State /\ todo \in Seq(Items) /\ x \in Items
    BY <1>1, NextDoes
  <2>2. PICK b \in State, c \in State :
          /\ Does(test, others, Staying, x, Now, c)
          /\ Runs(test, others, Staying, s, c, b)
          /\ ~ HasLoop(todo) => Clear(b, others)
    BY <1>1, NextDoes
  <2>3. c = [lcs |-> Now.lcs, pin |-> Now.pin, chan |-> x.op]
    BY <1>1, <2>2 DEF Does, Looked, Changed, Sixteen, Foreign, Ops
  <2>4. Now' = c
    BY <1>1, <2>3 DEF Now
  <2>5. x.want # "search" /\ ~ CountsFirst(x)
    BY <1>1, <2>1 DEF Items, CountsFirst
  <2>6. HasLoop(s) <=> HasLoop(todo)
    <3>1. TRUE \in BOOLEAN
      OBVIOUS
    <3>. QED
      BY <1>1, <2>1, <3>1, TailKeeps
  <2>7. Staying' = Staying
    <3>1. Newcomers(todo) = Newcomers(s) \cup {u \in Users : Registration(x) /\ x.user = u}
      BY <1>1, <2>1, NewcomersTail
    <3>2. Newcomers(todo) = Newcomers(s)
      BY <1>1, <3>1 DEF Registration
    <3>. QED
      BY <1>1, <3>2 DEF Staying
  <2>8. StillFree'
    <3>. SUFFICES ASSUME Breaks(test), HasLoop(s)
                  PROVE  \E k \in 1..Len(s) : s[k].want = "search" /\ s[k].user \notin others
      BY <1>1 DEF StillFree, Breaks, HasLoop
    <3>. QED
      BY <1>1, <2>1, <2>5, <2>6, FreeAhead
  <2>9. Timely'
    <3>. SUFFICES ASSUME test \in Counting
                  PROVE  before = Cardinality(others) \/ \E k \in 1..Len(s) : CountsFirst(s[k])
      BY <1>1 DEF Timely, CountsFirst
    <3>. QED
      BY <1>1, <2>1, <2>5, CountAhead
  <2>10. Runs(test', others', Staying', todo', Now', b) /\ (~ HasLoop(todo') => Clear(b, others'))
    BY <1>1, <2>2, <2>4, <2>6, <2>7
  <2>11. Now' \in State
    BY <2>2, <2>4
  <2>. QED
    BY <1>1, <2>8, <2>9, <2>10, <2>11, NextAsPresumed
<1>. QED
  BY <1>3, <1>4, <1>5, <1>6 DEF FirstInv

\* The end of the loop: as long as a user id is free, no test finds none.
LEMMA EndLoopFirst == ASSUME Base, TestInv, FirstInv, EndLoop PROVE FirstInv'
<1>. DEFINE x == Head(todo)
            z == AfterLoop(test) \o <<Local("close")>>
<1>1. /\ todo # << >> /\ x.op = "loop" /\ pc = "idle" /\ pc' = "idle"
      /\ UNCHANGED <<test, before, mine, dead, others, lcs, pin, data, queue, session>>
  BY DEF EndLoop, AtLocal, vars, clientVars, cardVars, fileVars
<1>2. DueInv /\ FileAsked /\ HoldsValue /\ DeadStops /\ FirstKnown /\ Progress
  BY DEF FirstInv
<1>3. DueInv'
  BY <1>2, DueKept DEF TestNext
<1>4. FileAsked' /\ HoldsValue' /\ DeadStops'
  BY <1>1, <1>2 DEF FileAsked, HoldsValue, DeadStops
<1>5. failed' = failed \/ failed' = failed \cup {test}
  BY DEF EndLoop
<1>6. /\ Len(todo) = 1 /\ todo[1] = x /\ todo \in Seq(Items) /\ x \in Items /\ HasLoop(todo)
      /\ test \in SearchTests /\ x.want # "search"
  <2>1. todo \in Seq(Items) /\ LoopLast(todo) /\ (HasLoop(todo) => test \in SearchTests)
    BY DEF TestInv, WellMade, TestTypeOK
  <2>2. todo[1] = x /\ 1 \in 1..Len(todo) /\ x \in Items
    BY <1>1, <2>1, TailIs
  <2>. QED
    BY <1>1, <2>1, <2>2 DEF LoopLast, HasLoop, Items
<1>7. ASSUME failed = {}, ~ dead, others # Users
      PROVE  ~ Breaks(test) /\ todo' = z /\ failed' = failed
  <2>1. StillFree
    BY <1>1, <1>7, NextDoes
  <2>2. ~ Breaks(test)
    BY <1>6, <2>1 DEF StillFree
  <2>3. test \notin {"create_delete_file_test_2", "check_password_size_test", "check_file_id_test"}
    BY <2>2 DEF Breaks
  <2>. QED
    BY <2>2, <2>3 DEF EndLoop
<1>8. FirstKnown'
  <2>1. IsFiniteSet(failed')
    BY <1>2, <1>5, FailedMore DEF FirstKnown
  <2>2. ~ dead
    BY <1>1, <1>2 DEF DeadStops
  <2>3. failed = {} /\ others # Users => failed' = {}
    BY <1>7, <2>2
  <2>. QED
    BY <1>1, <1>2, <1>5, <2>1, <2>3 DEF FirstKnown
<1>9. Progress'
  <2>. SUFFICES ASSUME failed = {}, ~ dead, others # Users
                PROVE  AsPresumed'
    BY <1>1, <1>5 DEF Progress
  <2>1. ~ Breaks(test) /\ todo' = z
    BY <1>7
  <2>2. Timely /\ Now \in State
    BY <1>1, NextDoes
  <2>3. PICK c \in State : Does(test, others, Staying, x, Now, c)
    BY <1>1, NextDoes
  <2>4. Now.chan = "open" /\ Ready(others, Staying, Now)
    BY <1>1, <2>3 DEF Does, Looked, Changed, Sixteen, Foreign, Ops
  <2>5. Newcomers(todo) = {}
    <3>1. \A k \in 1..Len(todo) : todo[k].op # "register"
      BY <1>1, <1>6
    <3>. QED
      BY <3>1, NoNewcomers
  <2>6. Staying = IF test \in KeepingTests THEN mine ELSE {}
    BY <2>5 DEF Staying
  <2>7. test \in Counting => before = Cardinality(others)
    <3>1. \A k \in 1..Len(todo) : ~ CountsFirst(todo[k])
      BY <1>1, <1>6 DEF CountsFirst
    <3>. QED
      BY <1>1, <2>2, <3>1 DEF Timely
  <2>8. /\ mine \subseteq UserArgs /\ others \subseteq Users /\ mine \cap others = {}
        /\ test \in KeepingTests => mine \subseteq Users
    <3>1. Staying \subseteq Users
      BY <2>4 DEF Ready, Clear, UsersOf
    <3>. QED
      BY <2>6, <3>1 DEF TestInv, TestTypeOK, UserArgs
  <2>9. /\ Newcomers(z) = {}
        /\ \E b \in State : Runs(test, others, Staying, z, Now, b) /\ Clear(b, others)
    BY <1>6, <2>1, <2>2, <2>4, <2>6, <2>7, <2>8, AfterRuns
  <2>. HIDE DEF z
  <2>10. PICK b \in State : Runs(test, others, Staying, z, Now, b) /\ Clear(b, others)
    BY <2>9
  <2>11. Staying' = Staying
    BY <1>1, <2>1, <2>6, <2>9 DEF Staying
  <2>12. StillFree'
    BY <1>1, <2>1 DEF StillFree, Breaks
  <2>13. Timely'
    BY <1>1, <2>7 DEF Timely, CountsFirst
  <2>14. Now' = Now
    BY <1>1 DEF Now
  <2>15. Runs(test', others', Staying', todo', Now', b) /\ (~ HasLoop(todo') => Clear(b, others'))
    BY <1>1, <2>1, <2>10, <2>11, <2>14
  <2>. QED
    BY <1>1, <2>2, <2>12, <2>13, <2>14, <2>15, NextAsPresumed
<1>. QED
  BY <1>3, <1>4, <1>8, <1>9 DEF FirstInv

\* A call is made.
LEMMA TestCallFirst == ASSUME Base, TestInv, FirstInv, TestCall PROVE FirstInv'
<1>1. /\ todo # << >> /\ pc = "idle" /\ pc' = "select aid"
      /\ UNCHANGED <<lcs, pin, data, session, ret>>
      /\ file' = Head(todo).file /\ val' = IF Head(todo).op = "create_bf" THEN Value ELSE None
      /\ UNCHANGED <<queue, test, todo, before, mine, failed, dead, others>>
  BY DEF TestCall, Call, testVars, cardVars, fileVars
<1>2. DueInv /\ HoldsValue /\ DeadStops /\ FirstKnown /\ Progress
  BY DEF FirstInv
<1>3. DueInv'
  BY <1>2, DueKept DEF TestNext
<1>4. FileAsked' /\ HoldsValue' /\ DeadStops' /\ FirstKnown'
  BY <1>1, <1>2 DEF FileAsked, HoldsValue, DeadStops, FirstKnown
<1>5. Progress'
  <2>. SUFFICES ASSUME failed = {}, ~ dead, others # Users
                PROVE  AsPresumed'
    BY <1>1 DEF Progress
  <2>1. StillFree /\ Timely /\ Now \in State /\ Leads(Now)
    BY <1>1, <1>2, NowIs DEF Progress, AsPresumed
  <2>2. StillFree' /\ Timely'
    BY <1>1, <2>1 DEF StillFree, Breaks, HasLoop, Timely
  <2>3. Staying' = Staying
    BY <1>1 DEF Staying
  <2>4. Leads(Now)'
    <3>1. Now' = Now
      BY <1>1 DEF Now
    <3>2. PICK b \in State : /\ Runs(test, others, Staying, todo, Now, b)
                             /\ ~ HasLoop(todo) => Clear(b, others)
      BY <2>1 DEF Leads
    <3>3. Runs(test', others', Staying', todo', Now', b) /\ (~ HasLoop(todo') => Clear(b, others'))
      BY <1>1, <2>3, <3>1, <3>2
    <3>. QED
      BY <3>3 DEF Leads
  <2>5. PICK a \in State :
          Now' = a /\ a.lcs = lcs /\ a.pin = pin /\ (session <=> a.chan = "open")
    <3>1. Now' = Now
      BY <1>1 DEF Now
    <3>. QED
      BY <3>1, NowIs
  <2>6. During(a)'
    BY <1>1, <2>5 DEF During
  <2>7. Leads(a)'
    BY <2>4, <2>5 DEF Leads
  <2>. QED
    BY <1>1, <2>2, <2>5, <2>6, <2>7 DEF AsPresumed
<1>. QED
  BY <1>3, <1>4, <1>5 DEF FirstInv

\* The call goes on, or the process dies.
LEMMA ClientRunsFirst == ASSUME Base, TestInv, FirstInv, ClientRuns PROVE FirstInv'
<1>1. /\ ClientStep /\ UNCHANGED <<test, before, mine, failed, others>>
      /\ IF pc' = "idle" THEN dead' = TRUE /\ todo' = << >> /\ queue' = << >>
         ELSE UNCHANGED <<dead, todo, queue>>
  BY DEF ClientRuns
<1>2. DueInv /\ FileAsked /\ HoldsValue /\ DeadStops /\ FirstKnown /\ Progress
  BY DEF FirstInv
<1>3. DueInv'
  BY <1>2, DueKept DEF TestNext
<1>4. FirstKnown'
  BY <1>1, <1>2 DEF FirstKnown
<1>5. CASE pc' = "idle"
  <2>1. FileAsked' /\ DeadStops' /\ Progress'
    BY <1>1, <1>5 DEF FileAsked, DeadStops, Progress
  <2>2. HoldsValue'
    <3>1. Restart
      BY <1>1, <1>5, DiesEmpty
    <3>. QED
      BY <1>2, <3>1 DEF Restart, cardVars, fileVars, HoldsValue
  <2>. QED
    BY <1>3, <1>4, <2>1, <2>2 DEF FirstInv
<1>6. CASE pc' # "idle"
  <2>1. /\ UNCHANGED <<callVars, session>> /\ pc \in Steps
        /\ UNCHANGED <<dead, todo, queue>>
    BY <1>1, <1>6, CallKeeps
  <2>2. pc # "idle"
    BY <2>1 DEF Steps
  <2>3. FileAsked' /\ DeadStops'
    BY <1>2, <2>1, <2>2 DEF FileAsked, DeadStops, callVars
  <2>4. HoldsValue'
    <3>1. op = "create_bf" => val = Value
      BY <1>2, <2>2 DEF FileAsked, TestInv, Asked
    <3>. QED
      BY <1>1, <1>2, <1>3, <1>6, <3>1, HoldsValueKept
  <2>5. Progress'
    <3>. SUFFICES ASSUME failed = {}, ~ dead, others # Users
                  PROVE  AsPresumed'
      BY <1>1, <2>1 DEF Progress
    <3>1. StillFree /\ Timely
      BY <1>2 DEF Progress, AsPresumed
    <3>2. PICK a \in State : Leads(a) /\ During(a)
      BY <1>2, <2>2 DEF Progress, AsPresumed
    <3>3. During(a)'
      BY <1>1, <1>3, <1>6, <3>2, DuringKept
    <3>4. StillFree' /\ Timely'
      BY <1>1, <2>1, <3>1 DEF StillFree, Breaks, HasLoop, Timely
    <3>5. Leads(a)'
      <4>1. Staying' = Staying
        BY <1>1, <2>1 DEF Staying
      <4>2. PICK b \in State : /\ Runs(test, others, Staying, todo, a, b)
                               /\ ~ HasLoop(todo) => Clear(b, others)
        BY <3>2 DEF Leads
      <4>3. Runs(test', others', Staying', todo', a, b) /\ (~ HasLoop(todo') => Clear(b, others'))
        BY <1>1, <2>1, <4>1, <4>2
      <4>. QED
        BY <4>3 DEF Leads
    <3>. QED
      BY <1>6, <3>3, <3>4, <3>5 DEF AsPresumed
  <2>. QED
    BY <1>3, <1>4, <2>3, <2>4, <2>5 DEF FirstInv
<1>. QED
  BY <1>5, <1>6

\* main closes the channel.
LEMMA FinishFirst == ASSUME Base, TestInv, FirstInv, Finish PROVE FirstInv'
<1>1. /\ pc = "idle" /\ pc' = "idle" /\ todo = << >> /\ session' = FALSE
      /\ UNCHANGED <<lcs, pin, data>>
      /\ UNCHANGED <<queue, test, todo, before, mine, failed, dead, others>>
  BY DEF Finish, CloseChannel, testVars, cardVars, fileVars
<1>2. DueInv /\ FileAsked /\ HoldsValue /\ DeadStops /\ FirstKnown /\ Progress
  BY DEF FirstInv
<1>3. DueInv'
  BY <1>2, DueKept DEF TestNext
<1>4. FileAsked' /\ HoldsValue' /\ DeadStops' /\ FirstKnown'
  BY <1>1, <1>2 DEF FileAsked, HoldsValue, DeadStops, FirstKnown
<1>5. Progress'
  <2>. SUFFICES ASSUME failed = {}, ~ dead, others # Users
                PROVE  AsPresumed'
    BY <1>1 DEF Progress
  <2>1. PICK b \in State : Runs(test, others, Staying, << >>, Now, b)
                           /\ (~ HasLoop(<< >>) => Clear(b, others))
    BY <1>1, <1>2 DEF Progress, AsPresumed, Leads
  <2>2. Now \in State /\ lcs \in [Users -> [Nodes -> Lcs]] /\ pin \in [Users -> Passwords \cup {None}]
        /\ Now.lcs = lcs /\ Now.pin = pin
    BY NowIs
  <2>3. Clear(Now, others)
    <3>1. ~ HasLoop(<< >>)
      BY DEF HasLoop
    <3>2. b = Now
      BY <2>1, <2>2, RunsNil
    <3>. QED
      BY <2>1, <3>1, <3>2
  <2>. DEFINE d == [lcs |-> lcs, pin |-> pin, chan |-> "close"]
  <2>4. Now' = d /\ d \in State
    BY <1>1, <2>2 DEF Now, State
  <2>5. Clear(d, others)
    BY <2>2, <2>3 DEF Clear, UsersOf
  <2>. HIDE DEF d
  <2>6. StillFree' /\ Timely'
    BY <1>1 DEF StillFree, HasLoop, Timely
  <2>7. Runs(test', others', Staying', todo', Now', d)
    BY <1>1, <2>4, RunsNil
  <2>8. ~ HasLoop(todo') => Clear(d, others')
    BY <1>1, <2>5
  <2>. QED
    BY <1>1, <2>4, <2>6, <2>7, <2>8, NextAsPresumed
<1>. QED
  BY <1>3, <1>4, <1>5 DEF FirstInv

\* The tests begin where everything is as presumed.
LEMMA FirstBegins == ASSUME TestInit PROVE FirstInv
<1>1. /\ others \subseteq Users /\ todo = << >> /\ pc = "idle" /\ mine = {} /\ failed = {}
      /\ dead = FALSE
      /\ lcs = [u \in Users |-> IF u \in others THEN [n \in Nodes |-> "use"] ELSE NoFiles]
      /\ \A u \in Users : (pin[u] = None) = (u \notin others)
      /\ data = [u \in Users |-> [f \in Files |->
                   IF u \in others THEN [k \in 1..NChunks |-> Value] ELSE Blank]]
  BY DEF TestInit, ClientInit
<1>2. DueInv
  BY <1>1 DEF DueInv, OnCourse, StatusIsDue, ArrMade, ArrSteps, VerifiedSteps, CreateSteps,
     FoundSteps
<1>3. FileAsked /\ DeadStops
  BY <1>1 DEF FileAsked, DeadStops
<1>4. HoldsValue
  <2>. SUFFICES ASSUME NEW u \in Users, NEW f \in Files, lcs[u][f] = "use"
                PROVE  data[u][f] = [k \in 1..NChunks |-> Value]
    BY DEF HoldsValue
  <2>1. u \in others
    BY <1>1, NodeNames DEF NoFiles
  <2>. QED
    BY <1>1, <2>1
<1>5. FirstKnown
  BY <1>1, FS_EmptySet DEF FirstKnown
<1>6. AsPresumed
  <2>1. Now \in State /\ Now.lcs = lcs /\ Now.pin = pin
    BY BaseInit, NowIs
  <2>2. Clear(Now, others)
    <3>1. \A u \in others : Now.lcs[u]["df"] # "none"
      BY <1>1, <2>1, NodeNames
    <3>2. \A u \in Users \ others : Now.lcs[u] = NoFiles /\ Now.pin[u] = None
      BY <1>1, <2>1
    <3>. QED
      BY <1>1, <3>1, <3>2 DEF Clear, UsersOf
  <2>3. StillFree /\ Timely
    BY <1>1 DEF StillFree, HasLoop, Timely
  <2>4. Runs(test, others, Staying, todo, Now, Now)
    BY <1>1, <2>1, RunsNil
  <2>5. Leads(Now)
    BY <2>1, <2>2, <2>4 DEF Leads
  <2>. QED
    BY <1>1, <2>1, <2>3, <2>5 DEF AsPresumed
<1>. QED
  BY <1>2, <1>3, <1>4, <1>5, <1>6 DEF FirstInv, Progress

\* Each step of the tests keeps what is presumed.
LEMMA FirstKept == ASSUME Base, TestInv, FirstInv, TestNext PROVE FirstInv'
BY RunTestFirst, ChannelFirst, EndLoopFirst, TestCallFirst, ClientRunsFirst, CheckResultFirst,
   FinishFirst DEF TestNext

\* A step that changes nothing.
LEMMA FirstStutter == ASSUME Base, FirstInv, UNCHANGED allVars PROVE FirstInv'
<1>1. /\ UNCHANGED <<queue, test, todo, before, mine, failed, dead, others>>
      /\ UNCHANGED <<pc, op, user, file, pwd, val, session, ret, lcs, pin, data>>
      /\ UNCHANGED vars
  BY DEF allVars, testVars, vars, cardVars, fileVars, clientVars, callVars
<1>2. DueInv /\ FileAsked /\ HoldsValue /\ DeadStops /\ FirstKnown /\ Progress
  BY DEF FirstInv
<1>3. DueInv'
  BY <1>1, <1>2, DueKept
<1>4. FileAsked' /\ HoldsValue' /\ DeadStops' /\ FirstKnown'
  BY <1>1, <1>2 DEF FileAsked, HoldsValue, DeadStops, FirstKnown
<1>5. Progress'
  <2>. SUFFICES ASSUME failed = {}, ~ dead, others # Users
                PROVE  AsPresumed'
    BY <1>1 DEF Progress
  <2>1. StillFree /\ Timely
    BY <1>2 DEF Progress, AsPresumed
  <2>2. PICK a \in State : Leads(a) /\ IF pc = "idle" THEN a = Now ELSE During(a)
    BY <1>2 DEF Progress, AsPresumed
  <2>3. StillFree' /\ Timely'
    BY <1>1, <2>1 DEF StillFree, Breaks, HasLoop, Timely
  <2>4. Leads(a)'
    <3>1. Staying' = Staying
      BY <1>1 DEF Staying
    <3>2. PICK b \in State : /\ Runs(test, others, Staying, todo, a, b)
                             /\ ~ HasLoop(todo) => Clear(b, others)
      BY <2>2 DEF Leads
    <3>3. Runs(test', others', Staying', todo', a, b) /\ (~ HasLoop(todo') => Clear(b, others'))
      BY <1>1, <3>1, <3>2
    <3>. QED
      BY <3>3 DEF Leads
  <2>5. Now' = Now
    BY <1>1 DEF Now
  <2>6. pc # "idle" => During(a)'
    BY <1>1, <2>2 DEF During, Untouched
  <2>. QED
    BY <1>1, <2>2, <2>3, <2>4, <2>5, <2>6 DEF AsPresumed
<1>. QED
  BY <1>3, <1>4, <1>5 DEF FirstInv

\* As long as no assertion has failed and some user id was free at the start,
\* what a test has still to do runs from the state of the element to one that
\* holds the users of before and nobody else.
THEOREM FirstInvariant == TestSpec => []FirstInv
<1>1. ASSUME Base, TestInv, FirstInv, [TestNext]_allVars
      PROVE  FirstInv'
  BY <1>1, FirstKept, FirstStutter
<1>. QED
  BY <1>1, FirstBegins, TestInvariant, PTL DEF TestSpec

\* As long as one user id was free, the first assertion of the tests to fail is
\* that file id 16 can be created, or, on an element that had users already, that
\* there are as many users as add_delete_user_test_2 has registered: every other
\* assertion of sec_storage_test.c is right about what the element holds.
THEOREM FirstFailuresAreKnown == TestSpec => []FirstFailureIsKnown
<1>1. ASSUME FirstInv
      PROVE  FirstFailureIsKnown
  <2>. SUFFICES ASSUME others # Users, Cardinality(failed) = 1
                PROVE  \/ failed = {"check_file_id_test"}
                       \/ failed = {"add_delete_user_test_2"} /\ others # {}
    BY DEF FirstFailureIsKnown
  <2>1. FirstKnown
    BY <1>1 DEF FirstInv
  <2>2. IsFiniteSet(failed)
    BY <2>1 DEF FirstKnown
  <2>3. PICK t : failed = {t}
    BY <2>2, FS_Singleton
  <2>. QED
    BY <2>1, <2>3 DEF FirstKnown
<1>. QED
  BY <1>1, FirstInvariant, PTL
=============================================================================
