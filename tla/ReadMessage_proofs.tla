------------------------- MODULE ReadMessage_proofs -------------------------
(***************************************************************************)
(* Proofs about ReadMessage for every bound on reports and failed reads:   *)
(* type correctness, and that each command takes its own answer until the  *)
(* first report or failed read, when the modem answers with no ERROR or    *)
(* the commands in use are the file commands.                              *)
(*                                                                         *)
(* What the second rests on: buffer, port and wire together are always the *)
(* rest of an earlier answer followed by the whole answer to this command, *)
(* and that rest is empty, a line end, or OK and a line end.               *)
(*                                                                         *)
(* After that, how far behind the answers can fall: what has not been read *)
(* never weighs more than the reports and failed reads there have been.    *)
(***************************************************************************)
EXTENDS ReadMessage, SequenceTheorems, FiniteSetTheorems, WellFoundedInduction,
        FunctionTheorems, TLAPS

(* Types.                                                                  *)

\* A function on 1..n is a sequence of length n.
LEMMA FunctionIsSeq ==
  ASSUME NEW S, NEW n \in Nat, NEW f \in [1..n -> S]
  PROVE  f \in Seq(S) /\ Len(f) = n
  OBVIOUS

\* There are n numbers from 1 to n.
LEMMA UpTo == \A n \in Nat : IsFiniteSet(1..n) /\ Cardinality(1..n) = n
  BY FS_Interval

\* Positions of a sequence are finitely many, so they can be counted.
LEMMA PositionsAreFinite ==
  ASSUME NEW S, NEW s \in Seq(S), NEW P \in SUBSET DOMAIN s
  PROVE  /\ IsFiniteSet(P) /\ Cardinality(P) \in Nat
         /\ Cardinality(P) <= Len(s)
<1>1. DOMAIN s = 1..Len(s) /\ Len(s) \in Nat
  BY LenProperties
<1>2. IsFiniteSet(P) /\ Cardinality(P) <= Len(s)
  BY <1>1, UpTo, FS_Subset
<1>. QED
  BY <1>2, FS_CardinalityType

\* How often some texts stand in a sequence is a number.
LEMMA TimesType ==
  ASSUME NEW s \in Seq(Tokens), NEW texts
  PROVE  Times(s, texts) \in Nat
<1>. {k \in DOMAIN s : s[k].text \in texts} \in SUBSET DOMAIN s
  OBVIOUS
<1>. QED
  BY PositionsAreFinite DEF Times

\* The length of a text in bytes is a number.
LEMMA BytesType ==
  ASSUME NEW s \in Seq(Tokens)
  PROVE  Bytes(s) \in Nat
<1>1. /\ Times(s, {"eol", "OK"}) \in Nat /\ Times(s, {"ERROR"}) \in Nat
      /\ Times(s, {"CCHO"}) \in Nat /\ Times(s, {"CGLA", "report"}) \in Nat
  BY TimesType
<1>. QED
  BY <1>1 DEF Bytes

\* What is left of s when n bytes are written over it is s from some place on,
\* and at most the first q tokens are gone when these already hold n bytes.
LEMMA LeftOfShape ==
  ASSUME NEW s \in Seq(Tokens), NEW n \in Nat
  PROVE  \E d \in 0..Len(s) :
           /\ LeftOf(s, n) = SubSeq(s, 1 + d, Len(s))
           /\ \A q \in 0..Len(s) :
                (\A k \in q+1..Len(s) : Bytes(SubSeq(s, 1, k - 1)) >= n) => d <= q
<1>. DEFINE D == {k \in DOMAIN s : Bytes(SubSeq(s, 1, k - 1)) < n}
<1>1. DOMAIN s = 1..Len(s) /\ Len(s) \in Nat
  BY LenProperties
<1>2. Cardinality(D) \in 0..Len(s)
  BY <1>1, PositionsAreFinite, D \in SUBSET DOMAIN s
<1>3. LeftOf(s, n) = SubSeq(s, 1 + Cardinality(D), Len(s))
  BY DEF LeftOf
<1>4. ASSUME NEW q \in 0..Len(s), \A k \in q+1..Len(s) : Bytes(SubSeq(s, 1, k - 1)) >= n
      PROVE  Cardinality(D) <= q
  <2>1. ASSUME NEW k \in D, k > q PROVE FALSE
    <3>1. k \in q+1..Len(s)
      BY <2>1, <1>1
    <3>2. SubSeq(s, 1, k - 1) \in Seq(Tokens)
      BY <1>1, <3>1, SubSeqProperties, ElementOfSeq
    <3>3. Bytes(SubSeq(s, 1, k - 1)) \in Nat
      BY <3>2, BytesType
    <3>4. Bytes(SubSeq(s, 1, k - 1)) < n
      BY <2>1
    <3>5. Bytes(SubSeq(s, 1, k - 1)) >= n
      BY <3>1, <1>4
    <3>. QED
      BY <3>3, <3>4, <3>5
  <2>2. D \in SUBSET (1..q)
    BY <2>1, <1>1
  <2>. QED
    BY <2>2, UpTo, FS_Subset
<1>. HIDE DEF D
<1>. QED
  BY <1>2, <1>3, <1>4

\* So it is a text again.
LEMMA LeftOfType ==
  ASSUME NEW s \in Seq(Tokens), NEW n \in Nat
  PROVE  LeftOf(s, n) \in Seq(Tokens)
<1>1. PICK d \in 0..Len(s) : LeftOf(s, n) = SubSeq(s, 1 + d, Len(s))
  BY LeftOfShape
<1>2. Len(s) \in Nat /\ \A i \in 1 + d..Len(s) : s[i] \in Tokens
  BY LenProperties, ElementOfSeq
<1>. QED
  BY <1>1, <1>2, SubSeqProperties

\* The least of some positions is one of them.
LEMMA LeastPosition ==
  ASSUME NEW P \in SUBSET Nat, P # {}
  PROVE  Min(P) \in P /\ \A k \in P : Min(P) <= k
<1>. DEFINE Less == {ss \in Nat \X Nat : ss[1] < ss[2]}
<1>1. IsWellFoundedOn(Less, Nat)
  BY NatLessThanWellFounded DEF OpToRel
<1>2. PICK x \in P : \A y \in P : ~ (<<y, x>> \in Less)
  <2>. HIDE DEF Less
  <2>. QED
    BY <1>1, WFMin
<1>3. ASSUME NEW y \in P PROVE x <= y
  <2>1. <<y, x>> \in Nat \X Nat /\ <<y, x>>[1] = y /\ <<y, x>>[2] = x
    OBVIOUS
  <2>2. ~ (y < x)
    BY <2>1, <1>2
  <2>. QED
    BY <2>2
<1>. QED
  BY <1>3 DEF Min

\* A caller finds a token of the text, or nothing.
LEMMA FirstType ==
  ASSUME NEW s \in Seq(Tokens), NEW texts
  PROVE  First(s, texts) \in Tokens
<1>. DEFINE hits == {k \in DOMAIN s : s[k].text \in texts}
<1>1. Nothing \in Tokens
  BY ReadAssumption DEF Nothing, Token, Tokens, Texts, MaxAge
<1>2. CASE hits = {}
  BY <1>1, <1>2 DEF First
<1>3. CASE hits # {}
  <2>1. hits \in SUBSET (1..Len(s)) /\ hits \in SUBSET Nat
    BY LenProperties
  <2>2. Min(hits) \in hits
    <3>. HIDE DEF hits
    <3>. QED
      BY <2>1, <1>3, LeastPosition
  <2>. QED
    BY <1>3, <2>1, <2>2, ElementOfSeq DEF First
<1>. QED
  BY <1>2, <1>3

\* Tokens grow older up to MaxAge, and their texts stay.
LEMMA OlderType ==
  ASSUME NEW s \in Seq(Tokens)
  PROVE  /\ Older(s) \in Seq(Tokens) /\ Len(Older(s)) = Len(s)
         /\ \A k \in 1..Len(s) : Older(s)[k].text = s[k].text
<1>. DEFINE older(k) == Token(s[k].text, IF s[k].age < MaxAge THEN s[k].age + 1 ELSE MaxAge)
<1>1. DOMAIN s = 1..Len(s) /\ Len(s) \in Nat
  BY LenProperties
<1>2. MaxAge \in Nat
  BY ReadAssumption DEF MaxAge
<1>3. ASSUME NEW k \in 1..Len(s) PROVE older(k) \in Tokens /\ older(k).text = s[k].text
  <2>1. s[k] \in Tokens
    BY ElementOfSeq
  <2>. QED
    BY <2>1, <1>2 DEF Token, Tokens
<1>4. Older(s) = [k \in 1..Len(s) |-> older(k)]
  BY <1>1 DEF Older
<1>. HIDE DEF older
<1>5. Older(s) \in [1..Len(s) -> Tokens]
  BY <1>3, <1>4
<1>6. Older(s) \in Seq(Tokens) /\ Len(Older(s)) = Len(s)
  BY <1>5, <1>1, FunctionIsSeq
<1>. QED
  BY <1>3, <1>4, <1>6

\* What the modem says are tokens of age 0.
LEMMA SpokenType ==
  ASSUME NEW texts \in Seq(Texts)
  PROVE  /\ Spoken(texts) \in Seq(Tokens) /\ Len(Spoken(texts)) = Len(texts)
         /\ \A k \in 1..Len(texts) : Spoken(texts)[k] = Token(texts[k], 0)
<1>1. DOMAIN texts = 1..Len(texts) /\ Len(texts) \in Nat
      /\ \A k \in 1..Len(texts) : texts[k] \in Texts
  BY LenProperties, ElementOfSeq
<1>2. 0 \in 0..MaxAge
  BY ReadAssumption DEF MaxAge
<1>3. Spoken(texts) = [k \in 1..Len(texts) |-> Token(texts[k], 0)]
  BY <1>1 DEF Spoken
<1>4. Spoken(texts) \in [1..Len(texts) -> Tokens]
  BY <1>1, <1>2, <1>3 DEF Token, Tokens
<1>5. Spoken(texts) \in Seq(Tokens) /\ Len(Spoken(texts)) = Len(texts)
  BY <1>4, <1>1, FunctionIsSeq
<1>. QED
  BY <1>3, <1>5

\* The answers of the modem are texts.
LEMMA AnswersAreTexts ==
  /\ \A k \in AllKinds : Good[k] \in Seq(Texts)
  /\ Bad \in Seq(Texts) /\ <<"eol", "report", "eol">> \in Seq(Texts)
  BY DEF Good, Bad, Texts, AllKinds

\* Type correctness.
LEMMA ReadTypeNext == TypeOK /\ [Next]_vars => TypeOK'
<1>. SUFFICES ASSUME TypeOK, [Next]_vars PROVE TypeOK'
  OBVIOUS
<1>. USE DEF TypeOK
<1>1. CASE Send
  <2>1. kind' \in AllKinds /\ good' \in BOOLEAN
    BY <1>1, ReadAssumption DEF Send
  <2>2. Spoken(IF good' THEN Good[kind'] ELSE Bad) \in Seq(Tokens)
    BY <2>1, AnswersAreTexts, SpokenType
  <2>3. Older(wire) \in Seq(Tokens) /\ Older(port) \in Seq(Tokens)
    BY OlderType
  <2>4. wire' \in Seq(Tokens) /\ port' \in Seq(Tokens) /\ buffer' \in Seq(Tokens)
    BY <1>1, <2>2, <2>3, ConcatProperties, EmptySeq DEF Send
  <2>. QED
    BY <1>1, <2>1, <2>4 DEF Send
<1>2. CASE Report
  <2>1. Spoken(<<"eol", "report", "eol">>) \in Seq(Tokens)
    BY AnswersAreTexts, SpokenType
  <2>2. wire' \in Seq(Tokens)
    BY <1>2, <2>1, ConcatProperties DEF Report
  <2>3. reports' \in 0..MaxReports
    BY <1>2, ReadAssumption DEF Report
  <2>. QED
    BY <1>2, <2>2, <2>3 DEF Report
<1>3. CASE Deliver
  <2>1. Head(wire) \in Tokens /\ Tail(wire) \in Seq(Tokens)
    BY <1>3, HeadTailProperties DEF Deliver
  <2>2. Append(port, Head(wire)) \in Seq(Tokens)
    BY <2>1, AppendProperties
  <2>. QED
    BY <1>3, <2>1, <2>2 DEF Deliver
<1>4. CASE Read
  <2>1. buffer \o port \in Seq(Tokens)
    BY ConcatProperties
  <2>. QED
    BY <1>4, <2>1, EmptySeq DEF Read
<1>5. CASE ReadFails
  BY <1>5, ReadAssumption DEF ReadFails
<1>6. CASE Drain
  <2>1. LeftOf(buffer, Bytes(port)) \in Seq(Tokens)
    BY BytesType, LeftOfType
  <2>2. buffer' \in Seq(Tokens)
    BY <1>6, <2>1, ConcatProperties DEF Drain
  <2>. QED
    BY <1>6, <2>2, EmptySeq DEF Drain
<1>7. CASE Take
  <2>1. First(buffer, {"CGLA"}) \in Tokens /\ First(buffer, Texts \ {"eol"}) \in Tokens
    BY FirstType
  <2>2. Nothing \in Tokens
    BY ReadAssumption DEF Nothing, Token, Tokens, Texts, MaxAge
  <2>4. AtStart(buffer) \in Tokens
    <3>1. buffer # << >> => buffer[1] \in Tokens
      OBVIOUS
    <3>. QED
      BY <2>2, <3>1 DEF AtStart
  <2>3. taken' \in Tokens
    BY <1>7, <2>1, <2>2, <2>4 DEF Take
  <2>. QED
    BY <1>7, <2>3 DEF Take
<1>8. CASE UNCHANGED vars
  BY <1>8 DEF vars
<1>. QED
  BY <1>1, <1>2, <1>3, <1>4, <1>5, <1>6, <1>7, <1>8 DEF Next

\* Nothing has been said or read.
LEMMA ReadTypeInit == Init => TypeOK
<1>1. Nothing \in Tokens
  BY ReadAssumption DEF Nothing, Token, Tokens, Texts, MaxAge
<1>. QED
  BY <1>1, EmptySeq, ReadAssumption DEF Init, TypeOK, AllKinds

\* Buffers, port and wire hold tokens, and the counters keep their bounds.
THEOREM ReadTypes == Spec => []TypeOK
  BY ReadTypeInit, ReadTypeNext, PTL DEF Spec

-----------------------------------------------------------------------------
(* Each command takes its own answer.                                      *)

\* No report has been made and no read has failed.
Quiet == reports + fails = 0

\* What an earlier exchange may leave of its answer.
AllRests == {<< >>, <<"eol">>, <<"OK", "eol">>}
Rests == IF Errors THEN AllRests ELSE {<< >>}

\* The texts of s.
Reads(s, texts) ==
  Len(s) = Len(texts) /\ \A k \in 1..Len(texts) : s[k].text = texts[k]

Stream == buffer \o port \o wire
Answer == IF good THEN Good[kind] ELSE Bad

\* A rest, then an answer to this command.
Follows(rest, answer) ==
  /\ Reads(Stream, rest \o answer)
  /\ \A k \in 1..Len(Stream) : k > Len(rest) => Stream[k].age = 0

StreamIsWhole == \E rest \in Rests : Follows(rest, Answer)

StreamIsRest == \E rest \in Rests : Reads(port \o wire, rest)

\* What the caller is about to take, and ought to.
Finds == IF kind = "CGLA" THEN First(buffer, {"CGLA"}) ELSE First(buffer, Texts \ {"eol"})
Own == IF ~ good THEN Nothing ELSE Token(IF kind = "CCHC" THEN "OK" ELSE kind, 0)

\* A command in use, answered with ERROR only when the modem does so.
CommandInUse == pc # "idle" => kind \in Kinds /\ (good \/ Errors)

OwnAnswerInv ==
  /\ TypeOK
  /\ CommandInUse
  /\ Quiet =>
       /\ pc # "failed"
       /\ pc = "idle" => StreamIsRest
       /\ pc \in {"reading", "draining"} => StreamIsWhole
       /\ pc = "draining" => CountLines(buffer) = Lines[kind] \/ Mentions(buffer, "ERROR")
       /\ pc = "taken" => /\ StreamIsRest /\ Finds = Own
                          /\ kind = "CCHO" => ~ Mentions(buffer, "ERROR")

\* The modem answers with no ERROR, or the commands in use are the file
\* commands.
FileCommandsOrNoErrors == Errors = FALSE \/ Kinds = {"CGLA"}

\* A rest is a text of at most two tokens.
LEMMA RestType ==
  ASSUME NEW rest \in AllRests
  PROVE  rest \in Seq(Texts) /\ Len(rest) \in 0..2
<1>1. CASE rest = << >>
  BY <1>1, EmptySeq
<1>2. CASE rest = <<"eol">>
  BY <1>2 DEF Texts
<1>3. CASE rest = <<"OK", "eol">>
  BY <1>3 DEF Texts
<1>. QED
  BY <1>1, <1>2, <1>3 DEF AllRests

\* The elements of two sequences joined.
LEMMA Joined ==
  ASSUME NEW S, NEW s \in Seq(S), NEW t \in Seq(S)
  PROVE  /\ s \o t \in Seq(S) /\ Len(s \o t) = Len(s) + Len(t)
         /\ Len(s) \in Nat /\ Len(t) \in Nat
         /\ \A k \in 1..Len(s) : (s \o t)[k] = s[k]
         /\ \A k \in 1..Len(t) : (s \o t)[Len(s) + k] = t[k]
<1>1. Len(s) \in Nat /\ Len(t) \in Nat
  BY LenProperties
<1>2. /\ s \o t \in Seq(S) /\ Len(s \o t) = Len(s) + Len(t)
      /\ \A k \in 1..Len(s) + Len(t) : (s \o t)[k] = IF k <= Len(s) THEN s[k] ELSE t[k - Len(s)]
  BY ConcatProperties
<1>3. ASSUME NEW k \in 1..Len(s) PROVE (s \o t)[k] = s[k]
  BY <1>1, <1>2
<1>4. ASSUME NEW k \in 1..Len(t) PROVE (s \o t)[Len(s) + k] = t[k]
  <2>1. Len(s) + k \in 1..Len(s) + Len(t) /\ ~ (Len(s) + k <= Len(s)) /\ Len(s) + k - Len(s) = k
    BY <1>1
  <2>. QED
    BY <2>1, <1>2
<1>. QED
  BY <1>1, <1>2, <1>3, <1>4

\* The texts of the answer to a file command after a rest of r tokens.
LEMMA WholeGood ==
  ASSUME NEW rest \in AllRests
  PROVE  LET r == Len(rest)
             W == rest \o Good["CGLA"]
         IN  /\ r \in 0..2 /\ Len(W) = r + 8
             /\ \A k \in 1..r+8 : W[k] = IF k = r + 2 THEN "CGLA"
                                        ELSE IF k = r + 7 \/ (r = 2 /\ k = 1) THEN "OK" ELSE "eol"
<1>. DEFINE a == Good["CGLA"]
            W == rest \o a
            r == Len(rest)
<1>1. a \in Seq(Texts) /\ Len(a) = 8
  BY DEF Good, Texts
<1>2. \A k \in 1..8 : a[k] = IF k = 2 THEN "CGLA" ELSE IF k = 7 THEN "OK" ELSE "eol"
  BY DEF Good
<1>3. \A k \in 1..r : rest[k] = IF r = 2 /\ k = 1 THEN "OK" ELSE "eol"
  BY DEF AllRests
<1>4. rest \in Seq(Texts) /\ r \in 0..2
  BY RestType
<1>. HIDE DEF a
<1>5. /\ Len(W) = r + 8
      /\ \A k \in 1..r : W[k] = rest[k]
      /\ \A k \in 1..8 : W[r + k] = a[k]
  <2>1. /\ Len(W) = r + Len(a)
        /\ \A k \in 1..r : W[k] = rest[k]
        /\ \A k \in 1..Len(a) : W[r + k] = a[k]
    <3>1. a \in Seq(Texts) /\ rest \in Seq(Texts)
      BY <1>1, <1>4
    <3>. QED
      BY <3>1, Joined
  <2>. QED
    BY <1>1, <2>1
<1>. HIDE DEF W, r
<1>6. ASSUME NEW k \in 1..r+8
      PROVE  W[k] = IF k = r + 2 THEN "CGLA"
                    ELSE IF k = r + 7 \/ (r = 2 /\ k = 1) THEN "OK" ELSE "eol"
  <2>1. CASE k <= r
    BY <2>1, <1>3, <1>4, <1>5
  <2>2. CASE k > r
    <3>. DEFINE j == k - r
    <3>1. j \in 1..8 /\ k = r + j
      BY <2>2, <1>4
    <3>2. W[k] = a[j]
      BY <3>1, <1>5
    <3>. QED
      BY <2>2, <3>1, <3>2, <1>2, <1>4
  <2>. QED
    BY <2>1, <2>2, <1>4
<1>. QED
  BY <1>4, <1>5, <1>6 DEF W, r, a

\* The texts of an error after a rest of r tokens.
LEMMA WholeBad ==
  ASSUME NEW rest \in AllRests
  PROVE  LET r == Len(rest)
             W == rest \o Bad
         IN  /\ r \in 0..2 /\ Len(W) = r + 3
             /\ \A k \in 1..r+3 : /\ W[k] \in {"eol", "OK", "ERROR"}
                                  /\ W[k] = "ERROR" <=> k = r + 2
                                  /\ k > r /\ k # r + 2 => W[k] = "eol"
<1>. DEFINE a == Bad
            W == rest \o a
            r == Len(rest)
<1>1. a \in Seq(Texts) /\ Len(a) = 3
  BY DEF Bad, Texts
<1>2. \A k \in 1..3 : a[k] = IF k = 2 THEN "ERROR" ELSE "eol"
  BY DEF Bad
<1>3. \A k \in 1..r : rest[k] \in {"eol", "OK"}
  BY DEF AllRests
<1>4. rest \in Seq(Texts) /\ r \in 0..2
  BY RestType
<1>. HIDE DEF a
<1>5. /\ Len(W) = r + 3
      /\ \A k \in 1..r : W[k] = rest[k]
      /\ \A k \in 1..3 : W[r + k] = a[k]
  <2>1. /\ Len(W) = r + Len(a)
        /\ \A k \in 1..r : W[k] = rest[k]
        /\ \A k \in 1..Len(a) : W[r + k] = a[k]
    <3>1. a \in Seq(Texts) /\ rest \in Seq(Texts)
      BY <1>1, <1>4
    <3>. QED
      BY <3>1, Joined
  <2>. QED
    BY <1>1, <2>1
<1>. HIDE DEF W, r
<1>6. ASSUME NEW k \in 1..r+3
      PROVE  /\ W[k] \in {"eol", "OK", "ERROR"}
             /\ W[k] = "ERROR" <=> k = r + 2
             /\ k > r /\ k # r + 2 => W[k] = "eol"
  <2>1. CASE k <= r
    BY <2>1, <1>3, <1>4, <1>5
  <2>2. CASE k > r
    <3>. DEFINE j == k - r
    <3>1. j \in 1..3 /\ k = r + j
      BY <2>2, <1>4
    <3>2. W[k] = a[j]
      BY <3>1, <1>5
    <3>. QED
      BY <2>2, <3>1, <3>2, <1>2, <1>4
  <2>. QED
    BY <2>1, <2>2, <1>4
<1>. QED
  BY <1>4, <1>5, <1>6 DEF W, r, a

\* The parts of the stream.
LEMMA StreamParts ==
  ASSUME TypeOK
  PROVE  /\ Stream \in Seq(Tokens) /\ Len(Stream) = Len(buffer) + Len(port) + Len(wire)
         /\ Len(buffer) \in Nat /\ Len(port) \in Nat /\ Len(wire) \in Nat
         /\ \A k \in 1..Len(buffer) : buffer[k] = Stream[k]
         /\ \A k \in 1..Len(port) : port[k] = Stream[Len(buffer) + k]
         /\ \A k \in 1..Len(wire) : wire[k] = Stream[Len(buffer) + Len(port) + k]
<1>1. /\ buffer \in Seq(Tokens) /\ port \in Seq(Tokens) /\ wire \in Seq(Tokens)
      /\ Len(buffer) \in Nat /\ Len(port) \in Nat /\ Len(wire) \in Nat
  BY LenProperties DEF TypeOK
<1>. DEFINE bp == buffer \o port
<1>2. /\ bp \in Seq(Tokens) /\ Len(bp) = Len(buffer) + Len(port)
      /\ \A k \in 1..Len(buffer) : bp[k] = buffer[k]
      /\ \A k \in 1..Len(port) : bp[Len(buffer) + k] = port[k]
  BY <1>1, Joined
<1>3. Stream = bp \o wire
  BY DEF Stream
<1>. HIDE DEF bp
<1>4. /\ Stream \in Seq(Tokens) /\ Len(Stream) = Len(bp) + Len(wire)
      /\ \A k \in 1..Len(bp) : Stream[k] = bp[k]
      /\ \A k \in 1..Len(wire) : Stream[Len(bp) + k] = wire[k]
  <2>1. /\ bp \o wire \in Seq(Tokens) /\ Len(bp \o wire) = Len(bp) + Len(wire)
        /\ \A k \in 1..Len(bp) : (bp \o wire)[k] = bp[k]
        /\ \A k \in 1..Len(wire) : (bp \o wire)[Len(bp) + k] = wire[k]
    <3>1. bp \in Seq(Tokens) /\ wire \in Seq(Tokens)
      BY <1>1, <1>2
    <3>. QED
      BY <3>1, Joined
  <2>. QED
    BY <1>3, <2>1
<1>5. ASSUME NEW k \in 1..Len(buffer) PROVE buffer[k] = Stream[k]
  BY <1>1, <1>2, <1>4
<1>6. ASSUME NEW k \in 1..Len(port) PROVE port[k] = Stream[Len(buffer) + k]
  BY <1>1, <1>2, <1>4
<1>. QED
  BY <1>1, <1>2, <1>4, <1>5, <1>6
\* A text followed by another reads as their texts joined.
LEMMA ReadsJoined ==
  ASSUME NEW s \in Seq(Tokens), NEW t \in Seq(Tokens),
         NEW x \in Seq(Texts), NEW y \in Seq(Texts), Reads(s, x), Reads(t, y)
  PROVE  Reads(s \o t, x \o y)
<1>. DEFINE st == s \o t
            xy == x \o y
<1>1. /\ Len(st) = Len(s) + Len(t) /\ Len(s) \in Nat /\ Len(t) \in Nat
      /\ \A k \in 1..Len(s) : st[k] = s[k]
      /\ \A k \in 1..Len(t) : st[Len(s) + k] = t[k]
  BY Joined
<1>2. /\ Len(xy) = Len(x) + Len(y) /\ Len(x) \in Nat /\ Len(y) \in Nat
      /\ \A k \in 1..Len(x) : xy[k] = x[k]
      /\ \A k \in 1..Len(y) : xy[Len(x) + k] = y[k]
  BY Joined
<1>3. /\ Len(s) = Len(x) /\ \A k \in 1..Len(x) : s[k].text = x[k]
      /\ Len(t) = Len(y) /\ \A k \in 1..Len(y) : t[k].text = y[k]
  BY DEF Reads
<1>. HIDE DEF st, xy
<1>4. ASSUME NEW k \in 1..Len(xy) PROVE st[k].text = xy[k]
  <2>1. CASE k <= Len(x)
    <3>1. k \in 1..Len(x) /\ k \in 1..Len(s)
      BY <2>1, <1>2, <1>3
    <3>2. st[k] = s[k] /\ xy[k] = x[k] /\ s[k].text = x[k]
      BY <3>1, <1>1, <1>2, <1>3
    <3>. QED
      BY <3>2
  <2>2. CASE k > Len(x)
    <3>. DEFINE j == k - Len(x)
    <3>1. j \in 1..Len(y) /\ j \in 1..Len(t) /\ k = Len(x) + j /\ k = Len(s) + j
      BY <2>2, <1>2, <1>3
    <3>. HIDE DEF j
    <3>2. st[Len(s) + j] = t[j] /\ xy[Len(x) + j] = y[j] /\ t[j].text = y[j]
      BY <3>1, <1>1, <1>2, <1>3
    <3>. QED
      BY <3>1, <3>2
  <2>. QED
    BY <2>1, <2>2, <1>2
<1>5. Reads(st, xy)
  BY <1>1, <1>2, <1>3, <1>4 DEF Reads
<1>. QED
  BY <1>5 DEF st, xy

\* Line ends that stand at positions in P alone are no more than P has.
LEMMA LinesWithin ==
  ASSUME NEW s \in Seq(Tokens), NEW P, IsFiniteSet(P),
         \A k \in 1..Len(s) : s[k].text = "eol" => k \in P
  PROVE  CountLines(s) <= Cardinality(P)
<1>1. {k \in DOMAIN s : s[k].text \in {"eol"}} \in SUBSET P
  BY LenProperties
<1>. QED
  BY <1>1, FS_Subset DEF CountLines, Times

\* Two tokens of two bytes at the start take four bytes.
LEMMA TwoTokens ==
  ASSUME NEW s \in Seq(Tokens), Len(s) >= 2,
         s[1].text \in {"eol", "OK"}, s[2].text \in {"eol", "OK"}
  PROVE  Bytes(s) >= 4
<1>. DEFINE D == {k \in DOMAIN s : s[k].text \in {"eol", "OK"}}
<1>1. DOMAIN s = 1..Len(s) /\ Len(s) \in Nat
  BY LenProperties
<1>2. IsFiniteSet(D)
  BY PositionsAreFinite, D \in SUBSET DOMAIN s
<1>3. (1..2) \in SUBSET D
  BY <1>1
<1>4. Cardinality(1..2) = 2
  BY UpTo
<1>5. Cardinality(D) >= 2
  <2>. HIDE DEF D
  <2>1. Cardinality(1..2) <= Cardinality(D)
    BY <1>2, <1>3, FS_Subset
  <2>. QED
    BY <2>1, <1>2, <1>4, FS_CardinalityType
<1>6. /\ Times(s, {"eol", "OK"}) >= 2 /\ Times(s, {"eol", "OK"}) \in Nat
      /\ Times(s, {"ERROR"}) \in Nat /\ Times(s, {"CCHO"}) \in Nat
      /\ Times(s, {"CGLA", "report"}) \in Nat
  BY <1>5, TimesType DEF Times
<1>. QED
  BY <1>6 DEF Bytes

\* A text of line ends and OKs has two bytes a token.
LEMMA ShortTokens ==
  ASSUME NEW s \in Seq(Tokens), \A k \in 1..Len(s) : s[k].text \in {"eol", "OK"}
  PROVE  Bytes(s) <= 2 * Len(s)
<1>1. DOMAIN s = 1..Len(s) /\ Len(s) \in Nat
  BY LenProperties
<1>2. Times(s, {"eol", "OK"}) \in Nat /\ Times(s, {"eol", "OK"}) <= Len(s)
  <2>. DEFINE D == {k \in DOMAIN s : s[k].text \in {"eol", "OK"}}
  <2>1. D \in SUBSET DOMAIN s
    OBVIOUS
  <2>2. Cardinality(D) \in Nat /\ Cardinality(D) <= Len(s)
    BY <2>1, PositionsAreFinite
  <2>. QED
    BY <2>2 DEF Times
<1>3. ASSUME NEW T, "eol" \notin T, "OK" \notin T PROVE Times(s, T) = 0
  <2>1. {k \in DOMAIN s : s[k].text \in T} = {}
    BY <1>1, <1>3
  <2>. QED
    BY <2>1, FS_EmptySet DEF Times
<1>4. Times(s, {"ERROR"}) = 0 /\ Times(s, {"CCHO"}) = 0 /\ Times(s, {"CGLA", "report"}) = 0
  BY <1>3
<1>. QED
  BY <1>1, <1>2, <1>4 DEF Bytes

\* A caller finds the only token it looks for.
LEMMA FirstOnly ==
  ASSUME NEW s \in Seq(Tokens), NEW texts, NEW j \in 1..Len(s), s[j].text \in texts,
         \A k \in 1..Len(s) : s[k].text \in texts => k >= j
  PROVE  First(s, texts) = s[j]
<1>. DEFINE hits == {k \in DOMAIN s : s[k].text \in texts}
<1>1. DOMAIN s = 1..Len(s) /\ Len(s) \in Nat
  BY LenProperties
<1>2. j \in hits /\ hits # {} /\ hits \in SUBSET Nat /\ \A k \in hits : k >= j
  BY <1>1
<1>3. Min(hits) = j
  <2>. HIDE DEF hits
  <2>1. Min(hits) \in hits /\ \A k \in hits : Min(hits) <= k
    BY <1>2, LeastPosition
  <2>2. Min(hits) \in Nat /\ Min(hits) >= j /\ Min(hits) <= j
    BY <2>1, <1>2
  <2>. QED
    BY <2>2
<1>. QED
  BY <1>2, <1>3 DEF First

\* A caller that looks for what is not there finds nothing.
LEMMA FirstNone ==
  ASSUME NEW s \in Seq(Tokens), NEW texts, \A k \in 1..Len(s) : s[k].text \notin texts
  PROVE  First(s, texts) = Nothing
<1>1. {k \in DOMAIN s : s[k].text \in texts} = {}
  BY LenProperties
<1>. QED
  BY <1>1 DEF First
\* Up to two tokens, a line end last and OK before it, are a rest.
LEMMA TailIsRest ==
  ASSUME NEW s \in Seq(Tokens), Len(s) \in 0..2,
         Len(s) = 1 => s[1].text = "eol",
         Len(s) = 2 => s[1].text = "OK" /\ s[2].text = "eol"
  PROVE  \E rest \in AllRests : Reads(s, rest)
<1>1. CASE Len(s) = 0
  <2>1. Reads(s, << >>)
    BY <1>1 DEF Reads
  <2>. QED
    BY <2>1 DEF AllRests
<1>2. CASE Len(s) = 1
  <2>1. Reads(s, <<"eol">>)
    BY <1>2 DEF Reads
  <2>. QED
    BY <2>1 DEF AllRests
<1>3. CASE Len(s) = 2
  <2>1. Reads(s, <<"OK", "eol">>)
    BY <1>3 DEF Reads
  <2>. QED
    BY <2>1 DEF AllRests
<1>. QED
  BY <1>1, <1>2, <1>3

\* read_message stops in the answer to a file command no earlier than six line
\* ends have come, and these are six only after CGLA and four line ends more;
\* where nothing has been left before, at the end of the answer.
LEMMA StopsAfterCgla ==
  ASSUME TypeOK, NEW rest \in AllRests, Follows(rest, Good["CGLA"]),
         CountLines(buffer) = 6 \/ Mentions(buffer, "ERROR")
  PROVE  /\ Len(buffer) >= Len(rest) + 6
         /\ Len(rest) = 0 => Len(buffer) = 8
<1>. DEFINE r == Len(rest)
            n == Len(buffer)
            W == rest \o Good["CGLA"]
            low == IF r = 0 THEN 1 ELSE r
            P == (low..low+5) \ {r + 2}
<1>1. /\ r \in 0..2 /\ Len(W) = r + 8
      /\ \A k \in 1..r+8 : W[k] = IF k = r + 2 THEN "CGLA"
                                 ELSE IF k = r + 7 \/ (r = 2 /\ k = 1) THEN "OK" ELSE "eol"
  BY WholeGood
<1>2. /\ Len(Stream) = r + 8 /\ \A k \in 1..r+8 : Stream[k].text = W[k]
      /\ n \in 0..r+8 /\ \A k \in 1..n : buffer[k] = Stream[k]
  BY <1>1, StreamParts DEF Reads, Follows
<1>3. DOMAIN buffer = 1..n /\ buffer \in Seq(Tokens)
  BY LenProperties DEF TypeOK
<1>. HIDE DEF W, n, r
<1>4. ~ Mentions(buffer, "ERROR")
  BY <1>1, <1>2, <1>3 DEF Mentions
<1>5. IsFiniteSet(P) /\ Cardinality(P) = 5
  <2>1. IsFiniteSet(low..low+5) /\ Cardinality(low..low+5) = 6
    BY <1>1, FS_Interval
  <2>. DEFINE I == low..low+5
              x == r + 2
  <2>2. x \in I
    BY <1>1
  <2>3. P = I \ {x}
    OBVIOUS
  <2>. HIDE DEF P, I, x, low
  <2>4. IsFiniteSet(I) /\ Cardinality(I) = 6
    BY <2>1 DEF I
  <2>5. IsFiniteSet(I \ {x}) /\ Cardinality(I \ {x}) = 5
    BY <2>2, <2>4, FS_RemoveElement
  <2>. QED
    BY <2>3, <2>5
<1>6. ASSUME n < r + 6 \/ (r = 0 /\ n < 8) PROVE FALSE
  <2>1. ASSUME NEW k \in 1..n, buffer[k].text = "eol" PROVE k \in P
    <3>1. k \in 1..r+8 /\ W[k] = "eol"
      BY <2>1, <1>2
    <3>2. k # r + 2 /\ k # r + 7 /\ (r = 2 => k # 1)
      BY <3>1, <1>1
    <3>3. CASE r = 0
      BY <3>1, <3>2, <3>3, <1>2, <1>6
    <3>4. CASE r = 1
      BY <3>1, <3>2, <3>4, <1>2, <1>6
    <3>5. CASE r = 2
      BY <3>1, <3>2, <3>5, <1>2, <1>6
    <3>. QED
      BY <3>3, <3>4, <3>5, <1>1
  <2>2. CountLines(buffer) <= 5
    <3>. HIDE DEF P
    <3>. QED
      BY <2>1, <1>3, <1>5, LinesWithin DEF n
  <2>. QED
    BY <2>2, <1>4
<1>. QED
  <2>1. r \in 0..2 /\ n \in 0..r+8
    BY <1>1, <1>2
  <2>2. n >= r + 6 /\ (r = 0 => n = 8)
    BY <2>1, <1>6
  <2>. QED
    BY <2>2 DEF n, r

\* The read after the loop then writes over at most the two tokens before the
\* answer, so that CGLA is found, and what has not come yet is a rest.
LEMMA DrainsCgla ==
  ASSUME TypeOK, NEW rest \in AllRests, Follows(rest, Good["CGLA"]),
         CountLines(buffer) = 6 \/ Mentions(buffer, "ERROR")
  PROVE  /\ First(port \o LeftOf(buffer, Bytes(port)), {"CGLA"}) = Token("CGLA", 0)
         /\ \E next \in AllRests : Reads(wire, next)
         /\ rest = << >> => Reads(wire, << >>)
<1>. DEFINE r == Len(rest)
            n == Len(buffer)
            q == Len(port)
            W == rest \o Good["CGLA"]
            b == Bytes(port)
<1>1. /\ r \in 0..2 /\ Len(W) = r + 8
      /\ \A k \in 1..r+8 : W[k] = IF k = r + 2 THEN "CGLA"
                                 ELSE IF k = r + 7 \/ (r = 2 /\ k = 1) THEN "OK" ELSE "eol"
  BY WholeGood
<1>2. /\ Len(Stream) = r + 8 /\ \A k \in 1..r+8 : Stream[k].text = W[k] /\ Stream[k] \in Tokens
      /\ \A k \in 1..n : buffer[k] = Stream[k]
      /\ \A k \in 1..q : port[k] = Stream[n + k]
      /\ \A k \in 1..Len(wire) : wire[k] = Stream[n + q + k]
      /\ n \in Nat /\ q \in Nat /\ Len(wire) \in Nat /\ n + q + Len(wire) = r + 8
  BY <1>1, StreamParts, ElementOfSeq DEF Reads, Follows
<1>3. n >= r + 6 /\ (r = 0 => n = 8)
  BY StopsAfterCgla
<1>4. /\ buffer \in Seq(Tokens) /\ port \in Seq(Tokens) /\ wire \in Seq(Tokens)
  BY DEF TypeOK
<1>5. \A k \in 1..r+8 : k > r => Stream[k].age = 0
  BY <1>2 DEF Follows
<1>6. b \in Nat /\ b <= 4 /\ (r = 0 => b = 0)
  <2>1. \A k \in 1..q : port[k].text \in {"eol", "OK"}
    <3>. HIDE DEF W, n, r, q
    <3>. SUFFICES ASSUME NEW k \in 1..q PROVE port[k].text \in {"eol", "OK"}
      OBVIOUS
    <3>1. n + k \in 1..r+8 /\ n + k # r + 2
      BY <1>1, <1>2, <1>3
    <3>. QED
      BY <3>1, <1>1, <1>2
  <2>2. b \in Nat /\ b <= 2 * q
    BY <2>1, <1>4, ShortTokens, BytesType
  <2>. HIDE DEF b, n, q, r
  <2>. QED
    BY <2>2, <1>1, <1>2, <1>3
<1>7. PICK d \in 0..n :
        /\ LeftOf(buffer, b) = SubSeq(buffer, 1 + d, n)
        /\ \A p \in 0..n : (\A k \in p+1..n : Bytes(SubSeq(buffer, 1, k - 1)) >= b) => d <= p
  BY <1>4, <1>6, LeftOfShape
<1>8. d <= r + 1
  <2>1. CASE r = 0
    <3>1. \A k \in 1..n : Bytes(SubSeq(buffer, 1, k - 1)) >= b
      <4>1. ASSUME NEW k \in 1..n PROVE Bytes(SubSeq(buffer, 1, k - 1)) \in Nat
        <5>1. SubSeq(buffer, 1, k - 1) \in Seq(Tokens)
          BY <1>4, SubSeqProperties, ElementOfSeq
        <5>. QED
          BY <5>1, BytesType
      <4>. QED
        BY <4>1, <1>6, <2>1
    <3>2. 0 \in 0..n /\ 0 + 1 = 1
      BY <1>2
    <3>3. d <= 0
      BY <3>1, <3>2, <1>7
    <3>. QED
      BY <3>3, <2>1
  <2>2. CASE r # 0
    <3>1. ASSUME NEW k \in 3..n PROVE Bytes(SubSeq(buffer, 1, k - 1)) >= b
      <4>. DEFINE s == SubSeq(buffer, 1, k - 1)
      <4>1. s \in Seq(Tokens) /\ Len(s) = k - 1 /\ \A i \in 1..k-1 : s[i] = buffer[i]
        BY <1>4, SubSeqProperties, ElementOfSeq
      <4>2. s[1] = buffer[1] /\ s[2] = buffer[2] /\ Len(s) >= 2
        BY <4>1
      <4>. HIDE DEF s, W, r, n, q, b
      <4>3. /\ 1 \in 1..n /\ 2 \in 1..n /\ 1 \in 1..r+8 /\ 2 \in 1..r+8
            /\ 1 # r + 2 /\ 2 # r + 2
        BY <2>2, <1>1, <1>3, <1>2
      <4>4. buffer[1].text \in {"eol", "OK"} /\ buffer[2].text \in {"eol", "OK"}
        BY <4>3, <1>1, <1>2
      <4>5. Bytes(s) >= 4 /\ Bytes(s) \in Nat
        BY <4>1, <4>2, <4>4, TwoTokens, BytesType
      <4>6. Bytes(s) >= b
        BY <4>5, <1>6
      <4>. QED
        BY <4>6 DEF s
    <3>2. 2 \in 0..n /\ 2 + 1 = 3
      BY <1>1, <1>2, <1>3
    <3>3. d <= 2
      BY <3>1, <3>2, <1>7
    <3>. QED
      BY <3>3, <2>2, <1>1
  <2>. QED
    BY <2>1, <2>2
<1>. DEFINE left == SubSeq(buffer, 1 + d, n)
            s == port \o left
            j == q + (r + 2 - d)
<1>9. /\ left \in Seq(Tokens) /\ Len(left) = n - d
      /\ \A i \in 1..n-d : left[i] = buffer[d + i]
  <2>1. \A i \in 1 + d..n : buffer[i] \in Tokens
    BY <1>4, ElementOfSeq
  <2>2. /\ left \in Seq(Tokens) /\ Len(left) = IF 1 + d <= n THEN n - (1 + d) + 1 ELSE 0
        /\ \A i \in 1..n-(1+d)+1 : left[i] = buffer[1 + d + i - 1]
    BY <2>1, <1>2, SubSeqProperties
  <2>. HIDE DEF left
  <2>3. n - (1 + d) + 1 = n - d /\ d \in 0..n /\ n \in Nat
    BY <1>2
  <2>4. Len(left) = n - d
    <3>1. Len(left) = IF 1 + d <= n THEN n - (1 + d) + 1 ELSE 0
      BY <2>2
    <3>2. CASE 1 + d <= n
      BY <3>1, <3>2, <2>3
    <3>3. CASE d = n
      BY <3>1, <3>3, <2>3
    <3>4. 1 + d <= n \/ d = n
      <4>1. d \in 0..n /\ n \in Nat
        BY <2>3
      <4>. HIDE DEF n
      <4>. QED
        BY <4>1
    <3>. QED
      BY <3>2, <3>3, <3>4
  <2>5. ASSUME NEW i \in 1..n-d PROVE left[i] = buffer[d + i]
    <3>1. i \in 1..n-(1+d)+1 /\ 1 + d + i - 1 = d + i
      BY <2>3, <2>5
    <3>2. left[i] = buffer[1 + d + i - 1]
      BY <3>1, <2>2
    <3>. QED
      BY <3>1, <3>2
  <2>. QED
    BY <2>2, <2>4, <2>5
<1>10. /\ s \in Seq(Tokens) /\ Len(s) = q + (n - d)
       /\ \A k \in 1..q : s[k] = port[k]
       /\ \A k \in 1..n-d : s[q + k] = buffer[d + k]
  <2>. HIDE DEF left
  <2>1. /\ s \in Seq(Tokens) /\ Len(s) = Len(port) + Len(left)
        /\ \A k \in 1..Len(port) : s[k] = port[k]
        /\ \A k \in 1..Len(left) : s[Len(port) + k] = left[k]
    <3>1. port \in Seq(Tokens) /\ left \in Seq(Tokens)
      BY <1>4, <1>9
    <3>. QED
      BY <3>1, Joined
  <2>. HIDE DEF s
  <2>. QED
    BY <2>1, <1>9
<1>. HIDE DEF s, left, W, r, n, q, b
<1>11. j \in 1..Len(s) /\ r + 2 - d \in 1..n-d /\ r + 2 \in 1..n /\ d + (r + 2 - d) = r + 2
  BY <1>1, <1>2, <1>3, <1>8, <1>10
<1>12. s[j] = Stream[r + 2] /\ Stream[r + 2].text = "CGLA"
  <2>1. s[q + (r + 2 - d)] = buffer[d + (r + 2 - d)]
    BY <1>11, <1>10
  <2>2. buffer[r + 2] = Stream[r + 2] /\ r + 2 \in 1..r+8
    BY <1>11, <1>1, <1>2
  <2>3. Stream[r + 2].text = "CGLA"
    BY <2>2, <1>1, <1>2
  <2>. QED
    BY <2>1, <2>2, <2>3, <1>11
<1>13. ASSUME NEW k \in 1..Len(s), s[k].text = "CGLA" PROVE k >= j
  <2>1. CASE k <= q
    <3>1. k \in 1..q /\ n + k \in 1..r+8 /\ n + k # r + 2
      BY <2>1, <1>1, <1>2, <1>3
    <3>2. s[k].text = W[n + k]
      BY <3>1, <1>10, <1>2
    <3>. QED
      BY <3>1, <3>2, <1>1, <1>13
  <2>2. CASE k > q
    <3>. DEFINE i == k - q
    <3>1. i \in 1..n-d /\ k = q + i /\ d + i \in 1..n /\ d + i \in 1..r+8
      BY <2>2, <1>1, <1>2, <1>10
    <3>. HIDE DEF i
    <3>2. s[q + i].text = W[d + i]
      BY <3>1, <1>10, <1>2
    <3>3. d + i = r + 2
      BY <3>1, <3>2, <1>1, <1>13
    <3>. QED
      BY <3>1, <3>3, <1>1, <1>2
  <2>. QED
    BY <2>1, <2>2, <1>2, <1>10
<1>14. First(s, {"CGLA"}) = Token("CGLA", 0)
  <2>1. First(s, {"CGLA"}) = s[j]
    <3>. HIDE DEF j
    <3>1. s[j].text \in {"CGLA"} /\ j \in 1..Len(s) /\ s \in Seq(Tokens)
      BY <1>10, <1>11, <1>12
    <3>2. \A k \in 1..Len(s) : s[k].text \in {"CGLA"} => k >= j
      BY <1>13
    <3>. QED
      BY <3>1, <3>2, FirstOnly
  <2>2. s[j] \in Tokens /\ s[j].text = "CGLA" /\ s[j].age = 0
    BY <1>12, <1>11, <1>5, <1>2, <1>1
  <2>. QED
    BY <2>1, <2>2 DEF Token, Tokens
<1>15. \E next \in AllRests : Reads(wire, next)
  <2>1. Len(wire) \in 0..2
    <3>1. /\ r \in 0..2 /\ n \in Nat /\ q \in Nat /\ Len(wire) \in Nat
          /\ n + q + Len(wire) = r + 8 /\ n >= r + 6
      BY <1>1, <1>2, <1>3
    <3>. DEFINE w == Len(wire)
    <3>. HIDE DEF w
    <3>2. w \in Nat
      BY <3>1 DEF w
    <3>3. n + q + w = r + 8
      BY <3>1 DEF w
    <3>4. w <= 2
      BY <3>1, <3>2, <3>3
    <3>5. w \in 0..2
      BY <3>2, <3>4
    <3>. QED
      BY <3>5 DEF w
  <2>2. ASSUME Len(wire) = 1 PROVE wire[1].text = "eol"
    <3>1. n + q + 1 = r + 8 /\ 1 \in 1..Len(wire)
      BY <2>2, <1>1, <1>2
    <3>. QED
      BY <3>1, <1>1, <1>2
  <2>3. ASSUME Len(wire) = 2 PROVE wire[1].text = "OK" /\ wire[2].text = "eol"
    <3>1. n + q + 1 = r + 7 /\ n + q + 2 = r + 8 /\ 1 \in 1..Len(wire) /\ 2 \in 1..Len(wire)
      BY <2>3, <1>1, <1>2
    <3>2. wire[1] = Stream[r + 7] /\ wire[2] = Stream[r + 8]
      BY <3>1, <1>2
    <3>. QED
      BY <3>2, <1>1, <1>2
  <2>. QED
    BY <2>1, <2>2, <2>3, <1>4, TailIsRest
<1>16. ASSUME rest = << >> PROVE Reads(wire, << >>)
  <2>1. r = 0
    BY <1>16 DEF r
  <2>2. Len(wire) = 0
    BY <2>1, <1>2, <1>3
  <2>. QED
    BY <2>2 DEF Reads
<1>. QED
  BY <1>7, <1>14, <1>15, <1>16 DEF s, left, b, n
\* Every token of the buffer after the last read is one that has come.
LEMMA DrainedTokens ==
  ASSUME TypeOK
  PROVE  LET s == port \o LeftOf(buffer, Bytes(port))
         IN  /\ s \in Seq(Tokens)
             /\ \A k \in 1..Len(s) : \E i \in 1..Len(buffer) + Len(port) : s[k] = Stream[i]
<1>. DEFINE n == Len(buffer)
            q == Len(port)
            left == LeftOf(buffer, Bytes(port))
            s == port \o left
<1>1. buffer \in Seq(Tokens) /\ port \in Seq(Tokens) /\ n \in Nat /\ q \in Nat
  BY LenProperties DEF TypeOK
<1>2. PICK d \in 0..n : left = SubSeq(buffer, 1 + d, n)
  BY <1>1, LeftOfShape, BytesType
<1>3. /\ left \in Seq(Tokens) /\ Len(left) = IF 1 + d <= n THEN n - (1 + d) + 1 ELSE 0
      /\ \A i \in 1..n-(1+d)+1 : left[i] = buffer[1 + d + i - 1]
  <2>1. \A i \in 1 + d..n : buffer[i] \in Tokens
    BY <1>1, ElementOfSeq
  <2>. HIDE DEF left
  <2>. QED
    BY <2>1, <1>1, <1>2, SubSeqProperties
<1>. HIDE DEF left
<1>4. /\ s \in Seq(Tokens) /\ Len(s) = q + Len(left) /\ Len(left) \in Nat
      /\ \A k \in 1..q : s[k] = port[k]
      /\ \A k \in 1..Len(left) : s[q + k] = left[k]
  <2>1. port \in Seq(Tokens) /\ left \in Seq(Tokens)
    BY <1>1, <1>3
  <2>. QED
    BY <2>1, Joined
<1>5. /\ \A k \in 1..n : buffer[k] = Stream[k]
      /\ \A k \in 1..q : port[k] = Stream[n + k]
  BY StreamParts
<1>. HIDE DEF s, n, q
<1>6. ASSUME NEW k \in 1..Len(s) PROVE \E i \in 1..n+q : s[k] = Stream[i]
  <2>1. CASE k <= q
    <3>1. k \in 1..q /\ n + k \in 1..n+q
      BY <2>1, <1>1, <1>4
    <3>2. s[k] = Stream[n + k]
      BY <3>1, <1>4, <1>5
    <3>. QED
      BY <3>1, <3>2
  <2>2. CASE k > q
    <3>. DEFINE j == k - q
    <3>1. j \in 1..Len(left) /\ k = q + j
      BY <2>2, <1>1, <1>4
    <3>. HIDE DEF j
    <3>2. 1 + d <= n
      BY <3>1, <1>3, <1>1
    <3>3. j \in 1..n-(1+d)+1
      BY <3>1, <3>2, <1>3
    <3>. DEFINE i == 1 + d + j - 1
    <3>4. i \in 1..n /\ i \in 1..n+q
      BY <3>2, <3>3, <1>1
    <3>5. s[k] = left[j] /\ left[j] = buffer[i]
      BY <3>1, <3>3, <1>3, <1>4
    <3>. HIDE DEF i
    <3>6. s[k] = Stream[i]
      BY <3>4, <3>5, <1>5
    <3>. QED
      BY <3>4, <3>6
  <2>. QED
    BY <2>1, <2>2, <1>1, <1>4
<1>. QED
  BY <1>4, <1>6 DEF s, left, n, q

\* After an error a file command finds nothing, whatever came before it, and at
\* most the line end behind ERROR is still to come.
LEMMA DrainsError ==
  ASSUME TypeOK, NEW rest \in AllRests, Follows(rest, Bad),
         CountLines(buffer) = 6 \/ Mentions(buffer, "ERROR")
  PROVE  /\ First(port \o LeftOf(buffer, Bytes(port)), {"CGLA"}) = Nothing
         /\ \E next \in AllRests : Reads(wire, next)
<1>. DEFINE r == Len(rest)
            n == Len(buffer)
            q == Len(port)
            W == rest \o Bad
            s == port \o LeftOf(buffer, Bytes(port))
<1>1. /\ r \in 0..2 /\ Len(W) = r + 3
      /\ \A k \in 1..r+3 : /\ W[k] \in {"eol", "OK", "ERROR"}
                           /\ W[k] = "ERROR" <=> k = r + 2
                           /\ k > r /\ k # r + 2 => W[k] = "eol"
  BY WholeBad
<1>2. /\ Len(Stream) = r + 3 /\ \A k \in 1..r+3 : Stream[k].text = W[k]
      /\ \A k \in 1..n : buffer[k] = Stream[k]
      /\ \A k \in 1..Len(wire) : wire[k] = Stream[n + q + k]
      /\ n \in Nat /\ q \in Nat /\ Len(wire) \in Nat /\ n + q + Len(wire) = r + 3
  BY <1>1, StreamParts DEF Reads, Follows
<1>3. buffer \in Seq(Tokens) /\ wire \in Seq(Tokens) /\ DOMAIN buffer = 1..n
  BY LenProperties DEF TypeOK
<1>. HIDE DEF W
<1>4. CountLines(buffer) <= n
  <2>1. /\ IsFiniteSet(1..n) /\ Cardinality(1..n) = n
    BY <1>2, UpTo
  <2>2. \A k \in 1..Len(buffer) : buffer[k].text = "eol" => k \in 1..n
    OBVIOUS
  <2>3. CountLines(buffer) <= Cardinality(1..n)
    BY <2>1, <2>2, <1>3, LinesWithin
  <2>. QED
    BY <2>1, <2>3
<1>5. s \in Seq(Tokens) /\ \A k \in 1..Len(s) : \E i \in 1..n+q : s[k] = Stream[i]
  BY DrainedTokens
<1>. HIDE DEF n, q, r, s
<1>6. n <= 5
  BY <1>1, <1>2
<1>7. Mentions(buffer, "ERROR")
  BY <1>2, <1>4, <1>6
<1>8. n >= r + 2
  <2>1. PICK k \in 1..n : buffer[k].text = "ERROR"
    BY <1>3, <1>7 DEF Mentions
  <2>2. k \in 1..r+3 /\ W[k] = "ERROR"
    BY <2>1, <1>1, <1>2
  <2>. QED
    BY <2>1, <2>2, <1>1, <1>2
<1>9. First(s, {"CGLA"}) = Nothing
  <2>1. ASSUME NEW k \in 1..Len(s) PROVE s[k].text \notin {"CGLA"}
    <3>1. PICK i \in 1..n+q : s[k] = Stream[i]
      BY <1>5
    <3>2. i \in 1..r+3
      BY <3>1, <1>1, <1>2
    <3>. QED
      BY <3>1, <3>2, <1>1, <1>2
  <2>. QED
    BY <2>1, <1>5, FirstNone
<1>10. \E next \in AllRests : Reads(wire, next)
  <2>. DEFINE w == Len(wire)
  <2>1. w \in Nat /\ n + q + w = r + 3
    BY <1>2
  <2>. HIDE DEF w
  <2>2. w \in 0..1
    <3>1. w \in Nat /\ w <= 1
      BY <2>1, <1>1, <1>2, <1>8
    <3>. QED
      BY <3>1
  <2>3. ASSUME w = 1 PROVE wire[1].text = "eol"
    <3>1. n + q + 1 = r + 3 /\ 1 \in 1..w
      BY <2>3, <2>1
    <3>2. wire[1] = Stream[r + 3] /\ r + 3 \in 1..r+3
      BY <3>1, <1>2, <1>1 DEF w
    <3>. QED
      BY <3>2, <1>1, <1>2
  <2>4. Len(wire) \in 0..2 /\ (Len(wire) = 1 => wire[1].text = "eol") /\ Len(wire) # 2
    BY <2>2, <2>3 DEF w
  <2>. QED
    BY <2>4, <1>3, TailIsRest
<1>. QED
  BY <1>9, <1>10 DEF s

\* Without a rest an answer to AT+CCHO or AT+CCHC is read to its end.
LEMMA DrainsWhole ==
  ASSUME TypeOK, NEW k \in {"CCHO", "CCHC"}, Follows(<< >>, Good[k]),
         CountLines(buffer) = Lines[k] \/ Mentions(buffer, "ERROR")
  PROVE  LET s == port \o LeftOf(buffer, Bytes(port))
         IN  /\ First(s, Texts \ {"eol"}) = Token(IF k = "CCHC" THEN "OK" ELSE k, 0)
             /\ ~ Mentions(s, "ERROR") /\ Reads(wire, << >>)
<1>. DEFINE n == Len(buffer)
            q == Len(port)
            W == Good[k]
            size == IF k = "CCHC" THEN 3 ELSE 6
            P == IF k = "CCHC" THEN 1..1 ELSE (1..4) \ {2}
<1>1. /\ Len(W) = size /\ W[2] = (IF k = "CCHC" THEN "OK" ELSE k) /\ W[1] = "eol"
      /\ \A i \in 1..size : W[i] = IF i = 2 THEN IF k = "CCHC" THEN "OK" ELSE k
                               ELSE IF k = "CCHO" /\ i = 5 THEN "OK" ELSE "eol"
  <2>1. CASE k = "CCHC"
    BY <2>1 DEF Good
  <2>2. CASE k = "CCHO"
    BY <2>2 DEF Good
  <2>. QED
    BY <2>1, <2>2
<1>2. W \in Seq(Texts) /\ << >> \o W = W /\ Len(<< >>) = 0
  BY AnswersAreTexts, ConcatEmptySeq, EmptySeq DEF AllKinds
<1>3. /\ Len(Stream) = size
      /\ \A i \in 1..size : Stream[i].text = W[i] /\ Stream[i].age = 0 /\ Stream[i] \in Tokens
  BY <1>1, <1>2, StreamParts, ElementOfSeq DEF Reads, Follows
<1>4. /\ \A i \in 1..n : buffer[i] = Stream[i]
      /\ n \in Nat /\ q \in Nat /\ Len(wire) \in Nat /\ n + q + Len(wire) = size
  BY <1>3, StreamParts
<1>5. /\ buffer \in Seq(Tokens) /\ port \in Seq(Tokens) /\ DOMAIN buffer = 1..n
      /\ DOMAIN port = 1..q
  BY LenProperties DEF TypeOK
<1>. HIDE DEF W, n, q
<1>6. n <= size
  BY <1>4
<1>7. ~ Mentions(buffer, "ERROR")
  BY <1>1, <1>3, <1>4, <1>5, <1>6 DEF Mentions
<1>8. IsFiniteSet(P) /\ Cardinality(P) = Lines[k] - 1
  <2>1. IsFiniteSet(1..1) /\ Cardinality(1..1) = 1 /\ IsFiniteSet(1..4) /\ Cardinality(1..4) = 4
    BY UpTo
  <2>2. IsFiniteSet((1..4) \ {2}) /\ Cardinality((1..4) \ {2}) = 3
    <3>. DEFINE I == 1..4
                x == 2
    <3>1. IsFiniteSet(I) /\ Cardinality(I) = 4 /\ x \in I
      BY <2>1
    <3>. HIDE DEF I, x
    <3>2. IsFiniteSet(I \ {x}) /\ Cardinality(I \ {x}) = 3
      BY <3>1, FS_RemoveElement
    <3>. QED
      BY <3>2 DEF I, x
  <2>. QED
    BY <2>1, <2>2 DEF Lines
<1>9. n = size
  <2>. SUFFICES ASSUME n < size PROVE FALSE
    BY <1>4, <1>6
  <2>1. ASSUME NEW i \in 1..Len(buffer), buffer[i].text = "eol" PROVE i \in P
    <3>1. i \in 1..size /\ i < size /\ W[i] = "eol"
      BY <2>1, <1>3, <1>4 DEF n
    <3>. QED
      BY <3>1, <1>1
  <2>2. CountLines(buffer) <= Cardinality(P)
    <3>. HIDE DEF P
    <3>. QED
      BY <2>1, <1>5, <1>8, LinesWithin
  <2>3. Lines[k] \in Nat
    BY DEF Lines
  <2>. QED
    BY <2>2, <2>3, <1>7, <1>8
<1>10. q = 0 /\ Len(wire) = 0
  BY <1>4, <1>9
<1>11. port = << >>
  BY <1>10, <1>5, EmptySeq DEF q
<1>12. Bytes(port) <= 0 /\ Bytes(port) \in Nat
  <2>1. \A i \in 1..Len(port) : port[i].text \in {"eol", "OK"}
    BY <1>10 DEF q
  <2>. QED
    <3>1. Bytes(port) <= 2 * Len(port) /\ Bytes(port) \in Nat
      BY <2>1, <1>5, ShortTokens, BytesType
    <3>2. Len(port) = 0
      BY <1>10 DEF q
    <3>. QED
      BY <3>1, <3>2
<1>13. LeftOf(buffer, Bytes(port)) = buffer
  <2>. DEFINE b == Bytes(port)
  <2>1. b = 0
    BY <1>12
  <2>. HIDE DEF b
  <2>2. PICK d \in 0..n :
          /\ LeftOf(buffer, b) = SubSeq(buffer, 1 + d, n)
          /\ \A p \in 0..n : (\A i \in p+1..n : Bytes(SubSeq(buffer, 1, i - 1)) >= b) => d <= p
    BY <1>5, <2>1, LeftOfShape DEF n
  <2>3. ASSUME NEW i \in 1..n PROVE Bytes(SubSeq(buffer, 1, i - 1)) >= b
    <3>1. SubSeq(buffer, 1, i - 1) \in Seq(Tokens)
      BY <1>4, <1>5, SubSeqProperties, ElementOfSeq DEF n
    <3>2. Bytes(SubSeq(buffer, 1, i - 1)) \in Nat
      BY <3>1, BytesType
    <3>. QED
      BY <3>2, <2>1
  <2>4. 0 \in 0..n /\ 0 + 1 = 1
    BY <1>4
  <2>5. d = 0
    BY <2>2, <2>3, <2>4
  <2>. QED
    BY <2>2, <2>5, <1>5, SubSeqFull DEF b, n
<1>14. port \o LeftOf(buffer, Bytes(port)) = buffer
  BY <1>5, <1>11, <1>13, ConcatEmptySeq
<1>15. First(buffer, Texts \ {"eol"}) = Token(IF k = "CCHC" THEN "OK" ELSE k, 0)
  <2>1. /\ 2 \in 1..Len(buffer) /\ buffer[2].text = (IF k = "CCHC" THEN "OK" ELSE k)
        /\ buffer[2].age = 0 /\ buffer[2] \in Tokens /\ buffer[1].text = "eol"
    BY <1>1, <1>3, <1>4, <1>9 DEF n
  <2>2. buffer[2].text \in Texts \ {"eol"}
    BY <2>1 DEF Texts
  <2>3. \A i \in 1..Len(buffer) : buffer[i].text \in Texts \ {"eol"} => i >= 2
    BY <2>1, <1>4 DEF n
  <2>4. First(buffer, Texts \ {"eol"}) = buffer[2]
    BY <2>1, <2>2, <2>3, <1>5, FirstOnly
  <2>. QED
    BY <2>1, <2>4 DEF Token, Tokens
<1>16. Reads(wire, << >>)
  BY <1>10 DEF Reads
<1>. QED
  BY <1>7, <1>14, <1>15, <1>16
\* The stream at the beginning of an exchange.
LEMMA SentStream ==
  ASSUME TypeOK, TypeOK', Send, StreamIsRest
  PROVE  StreamIsWhole'
<1>. DEFINE A == Spoken(Answer')
            op == Older(port)
            ow == Older(wire)
<1>1. PICK rest \in Rests : Reads(port \o wire, rest)
  BY DEF StreamIsRest
<1>2. rest \in Seq(Texts) /\ Answer' \in Seq(Texts)
  <2>1. rest \in AllRests
    BY DEF Rests, AllRests
  <2>2. Answer' \in Seq(Texts)
    BY AnswersAreTexts DEF Answer, TypeOK
  <2>. QED
    BY <2>1, <2>2, RestType
<1>3. /\ A \in Seq(Tokens) /\ Len(A) = Len(Answer')
      /\ \A k \in 1..Len(Answer') : A[k] = Token(Answer'[k], 0)
  BY <1>2, SpokenType
<1>4. Reads(A, Answer') /\ \A k \in 1..Len(A) : A[k].age = 0
  <2>. DEFINE x == Answer'
  <2>1. Len(A) = Len(x) /\ \A k \in 1..Len(x) : A[k] = Token(x[k], 0)
    BY <1>3
  <2>. HIDE DEF A, x
  <2>2. ASSUME NEW k \in 1..Len(x) PROVE A[k].text = x[k] /\ A[k].age = 0
    <3>1. A[k] = [text |-> x[k], age |-> 0]
      BY <2>1 DEF Token
    <3>. QED
      BY <3>1
  <2>. QED
    BY <2>1, <2>2 DEF Reads, x
<1>5. port \in Seq(Tokens) /\ wire \in Seq(Tokens)
  BY DEF TypeOK
<1>6. /\ op \in Seq(Tokens) /\ Len(op) = Len(port) /\ \A k \in 1..Len(port) : op[k].text = port[k].text
      /\ ow \in Seq(Tokens) /\ Len(ow) = Len(wire) /\ \A k \in 1..Len(wire) : ow[k].text = wire[k].text
  BY <1>5, OlderType
<1>. HIDE DEF A, op, ow
<1>7. op \o ow \in Seq(Tokens) /\ Reads(op \o ow, rest)
  <2>1. /\ op \o ow \in Seq(Tokens) /\ Len(op \o ow) = Len(op) + Len(ow)
        /\ \A k \in 1..Len(op) : (op \o ow)[k] = op[k]
        /\ \A k \in 1..Len(ow) : (op \o ow)[Len(op) + k] = ow[k]
    <3>1. op \in Seq(Tokens) /\ ow \in Seq(Tokens)
      BY <1>6
    <3>. QED
      BY <3>1, Joined
  <2>2. /\ Len(port \o wire) = Len(port) + Len(wire) /\ Len(port) \in Nat /\ Len(wire) \in Nat
        /\ \A k \in 1..Len(port) : (port \o wire)[k] = port[k]
        /\ \A k \in 1..Len(wire) : (port \o wire)[Len(port) + k] = wire[k]
    BY <1>5, Joined
  <2>. DEFINE new == op \o ow
              old == port \o wire
  <2>. HIDE DEF new, old
  <2>3. Len(old) = Len(rest) /\ \A k \in 1..Len(rest) : old[k].text = rest[k]
    BY <1>1 DEF Reads, old
  <2>4. ASSUME NEW k \in 1..Len(old) PROVE new[k].text = old[k].text
    <3>1. CASE k <= Len(port)
      <4>1. k \in 1..Len(port) /\ k \in 1..Len(op)
        BY <3>1, <1>6, <2>2
      <4>. QED
        BY <4>1, <1>6, <2>1, <2>2 DEF new, old
    <3>2. CASE k > Len(port)
      <4>. DEFINE j == k - Len(port)
      <4>1. j \in 1..Len(wire) /\ j \in 1..Len(ow) /\ k = Len(port) + j /\ k = Len(op) + j
        BY <3>2, <1>6, <2>2 DEF old
      <4>. HIDE DEF j
      <4>2. new[Len(op) + j] = ow[j] /\ old[Len(port) + j] = wire[j] /\ ow[j].text = wire[j].text
        BY <4>1, <1>6, <2>1, <2>2 DEF new, old
      <4>. QED
        BY <4>1, <4>2
    <3>. QED
      BY <3>1, <3>2, <2>2
  <2>5. Len(new) = Len(old)
    BY <1>6, <2>1, <2>2 DEF new, old
  <2>6. Reads(new, rest)
    BY <2>3, <2>4, <2>5 DEF Reads
  <2>. QED
    BY <2>1, <2>6 DEF new
<1>8. Stream' = (op \o ow) \o A
  <2>1. buffer' = << >> /\ port' = op /\ wire' = ow \o A
    BY DEF Send, Answer, A, op, ow
  <2>2. Stream' = (<< >> \o op) \o (ow \o A)
    BY <2>1 DEF Stream
  <2>3. << >> \o op = op
    BY <1>6, ConcatEmptySeq
  <2>4. op \o (ow \o A) = (op \o ow) \o A
    BY <1>3, <1>6, ConcatAssociative
  <2>. QED
    BY <2>2, <2>3, <2>4
<1>9. Reads(Stream', rest \o Answer')
  BY <1>2, <1>3, <1>4, <1>7, <1>8, ReadsJoined
<1>10. \A k \in 1..Len(Stream') : k > Len(rest) => Stream'[k].age = 0
  <2>. DEFINE x == op \o ow
              y == x \o A
  <2>1. x \in Seq(Tokens) /\ A \in Seq(Tokens)
    BY <1>3, <1>7
  <2>. HIDE DEF x
  <2>2. /\ Len(y) = Len(x) + Len(A) /\ Len(x) \in Nat /\ Len(A) \in Nat
        /\ \A k \in 1..Len(A) : y[Len(x) + k] = A[k]
    BY <2>1, Joined
  <2>3. Len(x) = Len(rest)
    BY <1>7 DEF x, Reads
  <2>. HIDE DEF y
  <2>4. ASSUME NEW k \in 1..Len(y), k > Len(rest) PROVE y[k].age = 0
    <3>. DEFINE j == k - Len(x)
    <3>1. j \in 1..Len(A) /\ k = Len(x) + j
      BY <2>2, <2>3, <2>4
    <3>. HIDE DEF j
    <3>2. y[Len(x) + j] = A[j]
      BY <3>1, <2>2
    <3>3. A[j].age = 0
      BY <3>1, <1>4
    <3>. QED
      BY <3>1, <3>2, <3>3
  <2>. QED
    BY <1>8, <2>4 DEF x, y
<1>. QED
  BY <1>9, <1>10 DEF StreamIsWhole, Follows, Rests

\* Deliver and Read move tokens on and leave the stream as it is.
LEMMA StreamMoves ==
  ASSUME TypeOK, Deliver \/ Read
  PROVE  /\ Stream' = Stream
         /\ Deliver => port' \o wire' = port \o wire
<1>1. /\ buffer \in Seq(Tokens) /\ port \in Seq(Tokens) /\ wire \in Seq(Tokens)
  BY DEF TypeOK
<1>2. CASE Deliver
  <2>1. buffer' = buffer /\ port' = Append(port, Head(wire)) /\ wire' = Tail(wire) /\ wire # << >>
    BY <1>2 DEF Deliver
  <2>. DEFINE h == Head(wire)
              t == Tail(wire)
  <2>2. h \in Tokens /\ t \in Seq(Tokens)
    BY <1>1, <2>1, HeadTailProperties
  <2>3. wire = <<h>> \o t
    BY <1>1, <2>1
  <2>4. Append(port, h) = port \o <<h>> /\ <<h>> \in Seq(Tokens)
    BY <1>1, <2>2, AppendIsConcat
  <2>. HIDE DEF h, t
  <2>5. (port \o <<h>>) \o t = port \o (<<h>> \o t)
    BY <1>1, <2>2, <2>4, ConcatAssociative
  <2>6. port' \o wire' = port \o wire
    BY <2>1, <2>3, <2>4, <2>5 DEF h, t
  <2>7. port' \in Seq(Tokens) /\ wire' \in Seq(Tokens)
    BY <1>1, <2>1, <2>2, AppendProperties DEF h, t
  <2>8. Stream' = buffer \o (port' \o wire') /\ Stream = buffer \o (port \o wire)
    <3>. DEFINE p == port'
                w == wire'
    <3>1. p \in Seq(Tokens) /\ w \in Seq(Tokens)
      BY <2>7
    <3>2. Stream' = (buffer \o p) \o w
      BY <2>1 DEF Stream
    <3>. HIDE DEF p, w
    <3>3. (buffer \o p) \o w = buffer \o (p \o w)
      BY <3>1, <1>1, ConcatAssociative
    <3>4. Stream = buffer \o (port \o wire)
      BY <1>1, ConcatAssociative DEF Stream
    <3>. QED
      BY <3>2, <3>3, <3>4 DEF p, w
  <2>. QED
    BY <2>6, <2>8
<1>3. CASE Read
  <2>1. buffer' = buffer \o port /\ port' = << >> /\ wire' = wire
    BY <1>3 DEF Read
  <2>2. (buffer \o port) \o << >> = buffer \o port
    BY <1>1, ConcatProperties, ConcatEmptySeq
  <2>3. Stream' = Stream
    BY <2>1, <2>2 DEF Stream
  <2>. QED
    BY <1>3, <2>3 DEF Deliver, Read
<1>. QED
  BY <1>2, <1>3

\* The commands with rests are the file commands alone.
LEMMA RestsOfFileCommands ==
  ASSUME FileCommandsOrNoErrors, TypeOK, CommandInUse, pc # "idle"
  PROVE  /\ kind # "CGLA" => Rests = {<< >>} /\ good
         /\ Rests \subseteq AllRests
         /\ kind \in AllKinds
<1>1. kind \in AllKinds /\ kind \in Kinds /\ (good \/ Errors)
  BY DEF CommandInUse, TypeOK
<1>2. kind # "CGLA" => Errors = FALSE
  BY <1>1 DEF FileCommandsOrNoErrors
<1>. QED
  BY <1>1, <1>2 DEF Rests, AllRests

\* The read after the loop leaves the caller its own answer.
LEMMA DrainFindsOwn ==
  ASSUME FileCommandsOrNoErrors, OwnAnswerInv, Quiet, Drain
  PROVE  /\ StreamIsRest' /\ Finds' = Own
         /\ kind = "CCHO" => ~ Mentions(buffer', "ERROR")
<1>1. /\ TypeOK /\ CommandInUse /\ pc = "draining" /\ StreamIsWhole
      /\ CountLines(buffer) = Lines[kind] \/ Mentions(buffer, "ERROR")
  BY DEF OwnAnswerInv, Drain
<1>2. PICK rest \in Rests : Follows(rest, Answer)
  BY <1>1 DEF StreamIsWhole
<1>3. /\ kind # "CGLA" => Rests = {<< >>} /\ good
      /\ rest \in AllRests /\ kind \in AllKinds
  BY <1>1, RestsOfFileCommands
<1>4. /\ buffer' = port \o LeftOf(buffer, Bytes(port)) /\ port' = << >>
      /\ kind' = kind /\ good' = good /\ wire' = wire
  BY DEF Drain
<1>5. port' \o wire' = wire
  BY <1>1, <1>4, ConcatEmptySeq DEF TypeOK
<1>6. CASE kind = "CGLA" /\ good
  <2>1. Follows(rest, Good["CGLA"])
    BY <1>2, <1>6 DEF Answer
  <2>2. CountLines(buffer) = 6 \/ Mentions(buffer, "ERROR")
    BY <1>1, <1>6 DEF Lines
  <2>3. /\ First(port \o LeftOf(buffer, Bytes(port)), {"CGLA"}) = Token("CGLA", 0)
        /\ \E next \in AllRests : Reads(wire, next)
        /\ rest = << >> => Reads(wire, << >>)
    BY <1>1, <1>3, <2>1, <2>2, DrainsCgla
  <2>4. \E next \in Rests : Reads(wire, next)
    BY <2>3, <1>2 DEF Rests
  <2>5. StreamIsRest'
    BY <2>4, <1>5 DEF StreamIsRest, Rests
  <2>. QED
    BY <2>3, <2>5, <1>4, <1>6 DEF Finds, Own
<1>7. CASE kind = "CGLA" /\ ~ good
  <2>1. Follows(rest, Bad) /\ Errors
    BY <1>1, <1>2, <1>7 DEF Answer, CommandInUse
  <2>2. CountLines(buffer) = 6 \/ Mentions(buffer, "ERROR")
    BY <1>1, <1>7 DEF Lines
  <2>3. /\ First(port \o LeftOf(buffer, Bytes(port)), {"CGLA"}) = Nothing
        /\ \E next \in AllRests : Reads(wire, next)
    BY <1>1, <1>3, <2>1, <2>2, DrainsError
  <2>4. \E next \in Rests : Reads(wire, next)
    BY <2>1, <2>3 DEF Rests
  <2>5. StreamIsRest'
    BY <2>4, <1>5 DEF StreamIsRest, Rests
  <2>. QED
    BY <2>3, <2>5, <1>4, <1>7 DEF Finds, Own
<1>8. CASE kind # "CGLA"
  <2>1. good /\ rest = << >> /\ Rests = {<< >>} /\ kind \in {"CCHO", "CCHC"}
    BY <1>2, <1>3, <1>8 DEF AllKinds
  <2>2. Follows(<< >>, Good[kind])
    BY <1>2, <2>1 DEF Answer
  <2>3. LET s == port \o LeftOf(buffer, Bytes(port))
        IN  /\ First(s, Texts \ {"eol"}) = Token(IF kind = "CCHC" THEN "OK" ELSE kind, 0)
            /\ ~ Mentions(s, "ERROR") /\ Reads(wire, << >>)
    BY <1>1, <2>1, <2>2, DrainsWhole
  <2>4. StreamIsRest'
    BY <2>1, <2>3, <1>5 DEF StreamIsRest, Rests
  <2>. QED
    BY <2>1, <2>3, <2>4, <1>4, <1>8 DEF Finds, Own
<1>. QED
  BY <1>6, <1>7, <1>8

\* No step breaks the invariant.
LEMMA OwnAnswerNext ==
  ASSUME FileCommandsOrNoErrors, OwnAnswerInv, [Next]_vars
  PROVE  OwnAnswerInv'
<1>1. TypeOK /\ TypeOK' /\ CommandInUse
  BY ReadTypeNext DEF OwnAnswerInv
<1>2. Quiet' => Quiet
  <2>1. /\ reports \in Nat /\ fails \in Nat /\ reports' \in Nat /\ fails' \in Nat
    BY <1>1, ReadAssumption DEF TypeOK
  <2>2. reports' >= reports /\ fails' >= fails
    <3>1. CASE Report
      BY <2>1, <3>1 DEF Report
    <3>2. CASE ReadFails
      BY <2>1, <3>2 DEF ReadFails
    <3>3. CASE ~ Report /\ ~ ReadFails
      <4>1. reports' = reports /\ fails' = fails
        BY <3>3 DEF Next, Send, Deliver, Read, Drain, Take, vars
      <4>. QED
        BY <2>1, <4>1
    <3>. QED
      BY <3>1, <3>2, <3>3
  <2>3. ASSUME reports' + fails' = 0 PROVE reports + fails = 0
    <3>. DEFINE a == reports'
                b == fails'
    <3>1. a \in Nat /\ b \in Nat /\ a >= reports /\ b >= fails /\ a + b = 0
      BY <2>1, <2>2, <2>3
    <3>. HIDE DEF a, b
    <3>2. a = 0 /\ b = 0
      BY <3>1
    <3>. QED
      BY <2>1, <3>1, <3>2
  <2>. QED
    BY <2>3 DEF Quiet
<1>3. CASE Send
  <2>1. pc = "idle" /\ pc' = "reading" /\ CommandInUse'
    BY <1>3, ReadAssumption DEF Send, CommandInUse
  <2>2. Quiet => StreamIsWhole'
    BY <1>1, <1>3, <2>1, SentStream DEF OwnAnswerInv
  <2>. QED
    BY <1>1, <1>2, <2>1, <2>2 DEF OwnAnswerInv
<1>4. CASE Report
  <2>1. ~ Quiet'
    BY <1>1, <1>4, ReadAssumption DEF Quiet, Report, TypeOK
  <2>2. CommandInUse'
    BY <1>1, <1>4 DEF CommandInUse, Report
  <2>. QED
    BY <1>1, <2>1, <2>2 DEF OwnAnswerInv
<1>5. CASE Deliver
  <2>1. UNCHANGED <<buffer, pc, kind, good>> /\ CommandInUse'
    BY <1>1, <1>5 DEF Deliver, CommandInUse
  <2>2. Stream' = Stream /\ port' \o wire' = port \o wire
    BY <1>1, <1>5, StreamMoves
  <2>3. StreamIsRest => StreamIsRest'
    BY <2>2 DEF StreamIsRest, Rests
  <2>4. StreamIsWhole => StreamIsWhole'
    BY <2>1, <2>2 DEF StreamIsWhole, Follows, Answer, Rests
  <2>5. Finds' = Finds /\ Own' = Own
    BY <2>1 DEF Finds, Own
  <2>. QED
    BY <1>1, <1>2, <2>1, <2>3, <2>4, <2>5 DEF OwnAnswerInv
<1>6. CASE Read
  <2>1. /\ pc = "reading" /\ pc' \in {"reading", "draining"} /\ UNCHANGED <<kind, good>>
        /\ CommandInUse'
        /\ pc' = "draining" => CountLines(buffer') = Lines[kind] \/ Mentions(buffer', "ERROR")
    BY <1>1, <1>6 DEF Read, CommandInUse
  <2>2. Stream' = Stream
    BY <1>1, <1>6, StreamMoves
  <2>3. StreamIsWhole => StreamIsWhole'
    BY <2>1, <2>2 DEF StreamIsWhole, Follows, Answer, Rests
  <2>. QED
    BY <1>1, <1>2, <2>1, <2>3 DEF OwnAnswerInv
<1>7. CASE ReadFails
  <2>1. ~ Quiet'
    BY <1>1, <1>7, ReadAssumption DEF Quiet, ReadFails, TypeOK
  <2>2. CommandInUse'
    BY <1>1, <1>7 DEF CommandInUse, ReadFails
  <2>. QED
    BY <1>1, <2>1, <2>2 DEF OwnAnswerInv
<1>8. CASE Drain
  <2>1. pc' = "taken" /\ UNCHANGED <<kind, good>> /\ CommandInUse' /\ Own' = Own
    BY <1>1, <1>8 DEF Drain, CommandInUse, Own
  <2>2. Quiet => /\ StreamIsRest' /\ Finds' = Own
                 /\ kind = "CCHO" => ~ Mentions(buffer', "ERROR")
    BY <1>8, DrainFindsOwn
  <2>. QED
    BY <1>1, <1>2, <2>1, <2>2 DEF OwnAnswerInv
<1>9. CASE Take
  <2>1. pc' = "idle" /\ UNCHANGED <<port, wire>> /\ CommandInUse' /\ pc \in {"taken", "failed"}
    BY <1>9 DEF Take, CommandInUse
  <2>2. StreamIsRest => StreamIsRest'
    BY <2>1 DEF StreamIsRest, Rests
  <2>. QED
    BY <1>1, <1>2, <2>1, <2>2 DEF OwnAnswerInv
<1>10. CASE UNCHANGED vars
  BY <1>1, <1>2, <1>10 DEF OwnAnswerInv, vars, CommandInUse, Quiet, StreamIsRest, StreamIsWhole,
     Follows, Stream, Answer, Finds, Own, Rests
<1>. QED
  BY <1>3, <1>4, <1>5, <1>6, <1>7, <1>8, <1>9, <1>10 DEF Next

\* At first nothing has been said.
LEMMA OwnAnswerInit == Init => OwnAnswerInv
<1>. SUFFICES ASSUME Init PROVE OwnAnswerInv
  OBVIOUS
<1>1. TypeOK /\ pc = "idle" /\ port = << >> /\ wire = << >>
  BY ReadTypeInit DEF Init
<1>2. Reads(port \o wire, << >>)
  BY <1>1 DEF Reads
<1>3. StreamIsRest
  BY <1>2 DEF StreamIsRest, Rests, AllRests
<1>. QED
  BY <1>1, <1>3 DEF OwnAnswerInv, CommandInUse

\* In whatever pieces the modem's output arrives, each command takes its own
\* answer, and nothing when that is ERROR, until the first report or failed
\* read, when no command is answered with ERROR or the commands are the file
\* commands (read_message, receive_response_from_cgla and its kind).
THEOREM AnswersAreOwn == FileCommandsOrNoErrors /\ Spec => TakesOwnAnswer
<1>. SUFFICES ASSUME FileCommandsOrNoErrors PROVE Spec => TakesOwnAnswer
  OBVIOUS
<1>1. ASSUME OwnAnswerInv, [Next]_vars
      PROVE  [pc # "idle" /\ pc' = "idle" /\ reports + fails = 0 =>
                taken' = IF ~ good THEN Nothing
                         ELSE Token(IF kind = "CCHC" THEN "OK" ELSE kind, 0)]_vars
  <2>. SUFFICES ASSUME pc # "idle", pc' = "idle", Quiet PROVE taken' = Own
    BY DEF Quiet, Own
  <2>1. Take
    BY <1>1 DEF Next, Send, Report, Deliver, Read, ReadFails, Drain, vars
  <2>2. pc = "taken" /\ Finds = Own /\ (kind = "CCHO" => ~ Mentions(buffer, "ERROR"))
    BY <1>1, <2>1 DEF OwnAnswerInv, Take
  <2>3. kind \in AllKinds
    BY <1>1 DEF OwnAnswerInv, TypeOK
  <2>4. taken' = Finds
    BY <2>1, <2>2, <2>3 DEF Take, Finds, AllKinds
  <2>. QED
    BY <2>2, <2>4
<1>2. OwnAnswerInv /\ [Next]_vars => OwnAnswerInv'
  BY OwnAnswerNext
<1>. QED
  BY <1>1, <1>2, OwnAnswerInit, PTL DEF Spec, TakesOwnAnswer

-----------------------------------------------------------------------------
(* No command waits for ever when no answer is an ERROR.                   *)

NoErrors == Errors = FALSE

\* While no report has been made and no read has failed, a client that reads
\* has something to come: its read() does not block for ever.
AnswerIsDue == Quiet /\ pc = "reading" => port # << >> \/ wire # << >>

\* The loop stops at the line count, whenever it meets it.
CountIsOpen == pc = "reading" => CountLines(buffer) # Lines[kind]

\* One more element.
LEMMA OneMore ==
  ASSUME NEW P, IsFiniteSet(P), NEW n \in Nat, Cardinality(P) = n, NEW x, x \notin P
  PROVE  IsFiniteSet(P \cup {x}) /\ Cardinality(P \cup {x}) = n + 1
<1>1. /\ IsFiniteSet(P \cup {x})
      /\ x \notin P => Cardinality(P \cup {x}) = Cardinality(P) + 1
  BY FS_AddElement
<1>. QED
  BY <1>1

\* How many line ends the answers have.
LEMMA LinesOfAnswers ==
  ASSUME NEW s \in Seq(Tokens), NEW k \in AllKinds, Reads(s, Good[k])
  PROVE  CountLines(s) = Lines[k]
<1>1. DOMAIN s = 1..Len(s)
  BY LenProperties
<1>. DEFINE O == {1}
            A == O \cup {3}
            B == A \cup {4}
            C == B \cup {6}
<1>2. /\ Cardinality(A) = 2 /\ IsFiniteSet(A)
      /\ Cardinality(B) = 3 /\ IsFiniteSet(B)
      /\ Cardinality(C) = 4 /\ IsFiniteSet(C)
  <2>1. Cardinality(O) = 1 /\ IsFiniteSet(O)
    BY FS_Singleton
  <2>2. 3 \notin O /\ 4 \notin A /\ 6 \notin B
    OBVIOUS
  <2>. HIDE DEF O
  <2>3. Cardinality(A) = 1 + 1 /\ IsFiniteSet(A)
    BY <2>1, <2>2, OneMore
  <2>4. Cardinality(A) = 2
    BY <2>3
  <2>. HIDE DEF A
  <2>5. Cardinality(B) = 2 + 1 /\ IsFiniteSet(B)
    BY <2>2, <2>3, <2>4, OneMore
  <2>6. Cardinality(B) = 3
    BY <2>5
  <2>. HIDE DEF B
  <2>7. Cardinality(C) = 3 + 1 /\ IsFiniteSet(C)
    BY <2>2, <2>5, <2>6, OneMore
  <2>. QED
    BY <2>3, <2>4, <2>5, <2>6, <2>7
<1>3. CASE k = "CCHC"
  <2>1. Len(s) = 3 /\ \A j \in 1..3 : s[j].text = <<"eol", "OK", "eol">>[j]
    BY <1>3 DEF Reads, Good
  <2>2. {j \in DOMAIN s : s[j].text \in {"eol"}} = A
    BY <1>1, <2>1
  <2>. QED
    BY <1>2, <1>3, <2>2 DEF CountLines, Times, Lines
<1>4. CASE k = "CCHO"
  <2>1. Len(s) = 6 /\ \A j \in 1..6 : s[j].text = <<"eol", "CCHO", "eol", "eol", "OK", "eol">>[j]
    BY <1>4 DEF Reads, Good
  <2>2. {j \in DOMAIN s : s[j].text \in {"eol"}} = C
    BY <1>1, <2>1
  <2>. QED
    BY <1>2, <1>4, <2>2 DEF CountLines, Times, Lines
<1>5. CASE k = "CGLA"
  <2>1. /\ Len(s) = 8
        /\ \A j \in 1..8 :
             s[j].text = <<"eol", "CGLA", "eol", "eol", "eol", "eol", "OK", "eol">>[j]
    BY <1>5 DEF Reads, Good
  <2>. DEFINE D == B \cup {5}
              E == D \cup {6}
              F == E \cup {8}
  <2>2. {j \in DOMAIN s : s[j].text \in {"eol"}} = F
    BY <1>1, <2>1
  <2>3. 5 \notin B /\ 6 \notin D /\ 8 \notin E
    OBVIOUS
  <2>. HIDE DEF A, B, C
  <2>4. Cardinality(D) = 3 + 1 /\ IsFiniteSet(D)
    BY <1>2, <2>3, OneMore
  <2>5. Cardinality(D) = 4
    BY <2>4
  <2>. HIDE DEF D
  <2>6. Cardinality(E) = 4 + 1 /\ IsFiniteSet(E)
    BY <2>3, <2>4, <2>5, OneMore
  <2>7. Cardinality(E) = 5
    BY <2>6
  <2>. HIDE DEF E
  <2>8. Cardinality(F) = 5 + 1
    BY <2>3, <2>6, <2>7, OneMore
  <2>9. Cardinality(F) = 6
    BY <2>8
  <2>. QED
    BY <2>2, <2>9, <1>5 DEF CountLines, Times, Lines
<1>. QED
  BY <1>3, <1>4, <1>5 DEF AllKinds

\* What has been read never holds the number of line ends at which the loop
\* would have stopped.
LEMMA CountIsOpenNext ==
  ASSUME TypeOK, TypeOK', CountIsOpen, [Next]_vars
  PROVE  CountIsOpen'
<1>1. CASE Send
  <2>1. buffer' = << >> /\ kind' \in AllKinds
    BY <1>1 DEF Send, TypeOK
  <2>2. {j \in DOMAIN << >> : << >>[j].text \in {"eol"}} = {}
    OBVIOUS
  <2>3. CountLines(<< >>) = 0
    BY <2>2, FS_EmptySet DEF CountLines, Times
  <2>4. Lines[kind'] # 0
    BY <2>1 DEF Lines, AllKinds
  <2>. QED
    BY <2>1, <2>3, <2>4 DEF CountIsOpen
<1>2. CASE Read
  BY <1>2 DEF Read, CountIsOpen
<1>3. CASE Report \/ Deliver
  BY <1>3 DEF Report, Deliver, CountIsOpen
<1>4. CASE ReadFails \/ Drain \/ Take
  BY <1>4 DEF ReadFails, Drain, Take, CountIsOpen
<1>5. CASE UNCHANGED vars
  BY <1>5 DEF vars, CountIsOpen
<1>. QED
  BY <1>1, <1>2, <1>3, <1>4, <1>5 DEF Next

\* The line counts of at_commands.c fit the answers of all three kinds: when the
\* modem answers without ERROR, no read of read_message blocks for ever before
\* the first report or failed read.
THEOREM AnswersCome == NoErrors /\ Spec => []AnswerIsDue
<1>. SUFFICES ASSUME NoErrors PROVE Spec => []AnswerIsDue
  OBVIOUS
<1>1. FileCommandsOrNoErrors /\ Errors = FALSE
  BY DEF FileCommandsOrNoErrors, NoErrors
<1>2. ASSUME OwnAnswerInv, CountIsOpen PROVE AnswerIsDue
  <2>. SUFFICES ASSUME Quiet, pc = "reading", port = << >>, wire = << >> PROVE FALSE
    BY DEF AnswerIsDue
  <2>1. TypeOK /\ StreamIsWhole /\ kind \in AllKinds /\ good
    BY <1>1, <1>2 DEF OwnAnswerInv, TypeOK, CommandInUse
  <2>2. Follows(<< >>, Good[kind])
    BY <1>1, <2>1 DEF StreamIsWhole, Rests, Answer
  <2>3. buffer \in Seq(Tokens) /\ Stream = buffer
    BY <2>1, ConcatEmptySeq DEF TypeOK, Stream
  <2>4. << >> \o Good[kind] = Good[kind]
    BY <2>1, AnswersAreTexts, ConcatEmptySeq
  <2>5. Reads(buffer, Good[kind])
    BY <2>2, <2>3, <2>4 DEF Follows
  <2>6. CountLines(buffer) = Lines[kind]
    BY <2>1, <2>3, <2>5, LinesOfAnswers
  <2>. QED
    BY <2>6, <1>2 DEF CountIsOpen
<1>3. OwnAnswerInv /\ [Next]_vars => OwnAnswerInv'
  BY <1>1, OwnAnswerNext
<1>4. OwnAnswerInv /\ CountIsOpen /\ OwnAnswerInv' /\ [Next]_vars => CountIsOpen'
  BY CountIsOpenNext DEF OwnAnswerInv
<1>5. Init => OwnAnswerInv /\ CountIsOpen
  BY OwnAnswerInit DEF Init, CountIsOpen
<1>. QED
  BY <1>2, <1>3, <1>4, <1>5, PTL DEF Spec

-----------------------------------------------------------------------------
(* How far behind a command's answer can be.                               *)
(*                                                                         *)
(* A line end weighs 1, ERROR and a report 4.  An answer to a file         *)
(* command, good or bad, and a report of the modem's own weigh 6 each, so  *)
(* the weight of what is still to be read counts the answers read_message  *)
(* has left behind, and the weight from a token on counts the answers that *)
(* follow it.                                                              *)

Events == reports + fails

\* How often the texts stand at position k of s or behind it.
From(s, k, texts) == Cardinality({i \in DOMAIN s : i >= k /\ s[i].text \in texts})
Weight(s, k) == From(s, k, {"eol"}) + 4 * From(s, k, {"ERROR", "report"})

\* Every age is another answer behind the token.
FollowedByAge(s) ==
  \A k \in 1..Len(s) :
    /\ s[k].text = "CGLA" => Weight(s, k) >= 6 * s[k].age + 5
    /\ s[k].text = "ERROR" => \E m \in Nat : Weight(s, k) = 6 * m + 5

AgedBy(s, n) == \A k \in 1..Len(s) : s[k].text = "CGLA" => s[k].age <= n

\* What no exchange has read, or this one alone.
Unread == IF pc = "reading" THEN Stream ELSE port \o wire

LagInv ==
  /\ TypeOK
  /\ pc # "idle" => kind = "CGLA"
  /\ FollowedByAge(Unread)
  /\ Weight(Unread, 1) <= 6 * Events + (IF pc = "reading" THEN 7 ELSE 1)
  /\ pc \in {"draining", "taken", "failed"} => AgedBy(buffer, Events)
  /\ taken.age <= Events

\* The commands in use are the file commands.
FileCommands == Kinds = {"CGLA"}

\* A count from a position on is a number, and no greater from a later one; from
\* the first position or before it, it counts all; from behind the last, nothing.
LEMMA FromType ==
  ASSUME NEW s \in Seq(Tokens), NEW texts
  PROVE  /\ \A k \in Int : From(s, k, texts) \in Nat
         /\ \A k, j \in Int : k <= j => From(s, j, texts) <= From(s, k, texts)
         /\ \A k \in Int : k <= 1 => From(s, k, texts) = From(s, 1, texts)
         /\ \A k \in Int : k > Len(s) => From(s, k, texts) = 0
<1>. DEFINE F(k) == {i \in DOMAIN s : i >= k /\ s[i].text \in texts}
<1>1. DOMAIN s = 1..Len(s) /\ Len(s) \in Nat
  BY LenProperties
<1>2. ASSUME NEW k \in Int
      PROVE  F(k) \in SUBSET DOMAIN s /\ IsFiniteSet(F(k)) /\ Cardinality(F(k)) \in Nat
  <2>1. F(k) \in SUBSET DOMAIN s
    OBVIOUS
  <2>. HIDE DEF F
  <2>. QED
    BY <2>1, PositionsAreFinite
<1>3. ASSUME NEW k \in Int, NEW j \in Int, k <= j PROVE Cardinality(F(j)) <= Cardinality(F(k))
  <2>1. F(j) \in SUBSET F(k)
    BY <1>1, <1>3
  <2>. HIDE DEF F
  <2>. QED
    BY <2>1, <1>2, FS_Subset
<1>4. ASSUME NEW k \in Int, k <= 1 PROVE F(k) = F(1)
  BY <1>1, <1>4
<1>5. ASSUME NEW k \in Int, k > Len(s) PROVE Cardinality(F(k)) = 0
  <2>1. F(k) = {}
    BY <1>1, <1>5
  <2>. HIDE DEF F
  <2>. QED
    BY <2>1, FS_EmptySet
<1>6. ASSUME NEW k \in Int PROVE From(s, k, texts) = Cardinality(F(k))
  BY DEF From
<1>. HIDE DEF F
<1>7. \A k \in Int : From(s, k, texts) \in Nat
  BY <1>2, <1>6
<1>8. \A k, j \in Int : k <= j => From(s, j, texts) <= From(s, k, texts)
  BY <1>3, <1>6
<1>9. \A k \in Int : k <= 1 => From(s, k, texts) = From(s, 1, texts)
  BY <1>4, <1>6
<1>10. \A k \in Int : k > Len(s) => From(s, k, texts) = 0
  BY <1>5, <1>6
<1>. QED
  BY <1>7, <1>8, <1>9, <1>10

\* Counts add up where sequences are joined.
LEMMA FromJoined ==
  ASSUME NEW s \in Seq(Tokens), NEW t \in Seq(Tokens), NEW k \in Int, NEW texts
  PROVE  From(s \o t, k, texts) = From(s, k, texts) + From(t, k - Len(s), texts)
<1>. DEFINE st == s \o t
            n == Len(s)
            A == {i \in DOMAIN s : i >= k /\ s[i].text \in texts}
            B == {i \in DOMAIN t : i >= k - n /\ t[i].text \in texts}
            C == {i \in DOMAIN st : i >= k /\ st[i].text \in texts}
            D == {i \in C : i > n}
            f == [i \in B |-> n + i]
<1>1. /\ st \in Seq(Tokens) /\ Len(st) = n + Len(t) /\ n \in Nat /\ Len(t) \in Nat
      /\ \A i \in 1..n : st[i] = s[i]
      /\ \A i \in 1..Len(t) : st[n + i] = t[i]
  BY Joined
<1>2. DOMAIN s = 1..n /\ DOMAIN t = 1..Len(t) /\ DOMAIN st = 1..n + Len(t)
  <2>. HIDE DEF st
  <2>. QED
    BY <1>1, LenProperties
<1>. HIDE DEF st, n
<1>3. IsFiniteSet(A) /\ IsFiniteSet(B) /\ Cardinality(A) \in Nat /\ Cardinality(B) \in Nat
  <2>1. A \in SUBSET DOMAIN s /\ B \in SUBSET DOMAIN t
    OBVIOUS
  <2>. HIDE DEF A, B
  <2>. QED
    BY <2>1, PositionsAreFinite
<1>4. ASSUME NEW i \in B PROVE n + i \in D
  <2>1. i \in 1..Len(t) /\ i >= k - n /\ t[i].text \in texts
    BY <1>2
  <2>2. n + i \in 1..n + Len(t) /\ n + i >= k /\ n + i > n /\ st[n + i] = t[i]
    BY <2>1, <1>1
  <2>. QED
    BY <2>1, <2>2, <1>2
<1>5. ASSUME NEW j \in D PROVE j - n \in B /\ n + (j - n) = j
  <2>1. j \in 1..n + Len(t) /\ j > n /\ j >= k /\ st[j].text \in texts
    BY <1>2
  <2>. DEFINE i == j - n
  <2>2. i \in 1..Len(t) /\ n + i = j /\ i >= k - n
    BY <2>1, <1>1
  <2>. HIDE DEF i
  <2>3. st[n + i] = t[i]
    BY <2>2, <1>1
  <2>4. i \in B
    BY <2>1, <2>2, <2>3, <1>2
  <2>. QED
    BY <2>2, <2>4 DEF i
<1>6. f \in Bijection(B, D)
  <2>1. B \in SUBSET Int
    BY <1>2
  <2>2. D \in SUBSET Int
    BY <1>2, <1>1
  <2>. HIDE DEF B, D
  <2>3. f \in [B -> D]
    BY <1>4
  <2>4. \A i, j \in B : f[i] = f[j] => i = j
    BY <2>1, <1>1
  <2>5. \A j \in D : \E i \in B : f[i] = j
    BY <1>5
  <2>. HIDE DEF f
  <2>. QED
    BY <2>3, <2>4, <2>5, Fun_IsBij
<1>7. IsFiniteSet(D) /\ Cardinality(D) = Cardinality(B)
  <2>1. ExistsBijection(B, D)
    BY <1>6 DEF ExistsBijection
  <2>. HIDE DEF B, D
  <2>. QED
    BY <2>1, <1>3, FS_Bijection
<1>8. C = A \cup D /\ A \cap D = {}
  <2>1. ASSUME NEW i \in A PROVE i \in C /\ i \notin D
    <3>1. i \in 1..n /\ i >= k /\ s[i].text \in texts /\ st[i] = s[i]
      BY <1>1, <1>2
    <3>. QED
      BY <3>1, <1>1, <1>2
  <2>2. ASSUME NEW i \in C, i \notin D PROVE i \in A
    <3>1. i \in 1..n /\ i >= k /\ st[i].text \in texts
      BY <2>2, <1>1, <1>2
    <3>. QED
      BY <3>1, <1>1, <1>2
  <2>. HIDE DEF A
  <2>. QED
    BY <2>1, <2>2
<1>9. Cardinality(C) = Cardinality(A) + Cardinality(B)
  <2>. HIDE DEF A, B, C, D
  <2>1. Cardinality(A \cup D) = Cardinality(A) + Cardinality(D) - Cardinality(A \cap D)
    BY <1>3, <1>7, FS_Union
  <2>2. Cardinality(A \cap D) = 0
    BY <1>8, FS_EmptySet
  <2>. QED
    BY <2>1, <2>2, <1>3, <1>7, <1>8
<1>. QED
  BY <1>9 DEF From, n, st

\* So does what is counted weigh.
LEMMA WeightType ==
  ASSUME NEW s \in Seq(Tokens)
  PROVE  /\ \A k \in Int : Weight(s, k) \in Nat
         /\ \A k, j \in Int : k <= j => Weight(s, j) <= Weight(s, k)
         /\ \A k \in Int : k <= 1 => Weight(s, k) = Weight(s, 1)
         /\ \A k \in Int : k > Len(s) => Weight(s, k) = 0
<1>. DEFINE L(k) == From(s, k, {"eol"})
            H(k) == From(s, k, {"ERROR", "report"})
<1>1. /\ \A k \in Int : L(k) \in Nat
      /\ \A k, j \in Int : k <= j => L(j) <= L(k)
      /\ \A k \in Int : k <= 1 => L(k) = L(1)
      /\ \A k \in Int : k > Len(s) => L(k) = 0
  BY FromType
<1>2. /\ \A k \in Int : H(k) \in Nat
      /\ \A k, j \in Int : k <= j => H(j) <= H(k)
      /\ \A k \in Int : k <= 1 => H(k) = H(1)
      /\ \A k \in Int : k > Len(s) => H(k) = 0
  BY FromType
<1>3. \A k : Weight(s, k) = L(k) + 4 * H(k)
  BY DEF Weight
<1>. HIDE DEF L, H
<1>4. ASSUME NEW k \in Int PROVE Weight(s, k) \in Nat
  <2>1. L(k) \in Nat /\ H(k) \in Nat /\ Weight(s, k) = L(k) + 4 * H(k)
    BY <1>1, <1>2, <1>3
  <2>. QED
    BY <2>1
<1>5. ASSUME NEW k \in Int, NEW j \in Int, k <= j PROVE Weight(s, j) <= Weight(s, k)
  <2>1. /\ L(k) \in Nat /\ H(k) \in Nat /\ Weight(s, k) = L(k) + 4 * H(k)
        /\ L(j) \in Nat /\ H(j) \in Nat /\ Weight(s, j) = L(j) + 4 * H(j)
        /\ L(j) <= L(k) /\ H(j) <= H(k)
    BY <1>1, <1>2, <1>3, <1>5
  <2>. QED
    BY <2>1
<1>6. ASSUME NEW k \in Int, k <= 1 PROVE Weight(s, k) = Weight(s, 1)
  BY <1>1, <1>2, <1>3, <1>6
<1>7. ASSUME NEW k \in Int, k > Len(s) PROVE Weight(s, k) = 0
  <2>1. L(k) = 0 /\ H(k) = 0
    BY <1>1, <1>2, <1>7
  <2>. QED
    BY <2>1, <1>3
<1>. QED
  BY <1>4, <1>5, <1>6, <1>7

\* Weights add up where sequences are joined.
LEMMA WeightJoined ==
  ASSUME NEW s \in Seq(Tokens), NEW t \in Seq(Tokens)
  PROVE  /\ \A k \in 1..Len(s) : Weight(s \o t, k) = Weight(s, k) + Weight(t, 1)
         /\ \A k \in 1..Len(t) : Weight(s \o t, Len(s) + k) = Weight(t, k)
         /\ Weight(s \o t, 1) = Weight(s, 1) + Weight(t, 1)
<1>1. Len(s) \in Nat /\ Len(t) \in Nat
  BY LenProperties
<1>2. ASSUME NEW k \in Int PROVE Weight(s \o t, k) = Weight(s, k) + Weight(t, k - Len(s))
  <2>. DEFINE l == From(s, k, {"eol"})
              h == From(s, k, {"ERROR", "report"})
              l2 == From(t, k - Len(s), {"eol"})
              h2 == From(t, k - Len(s), {"ERROR", "report"})
  <2>1. l \in Nat /\ h \in Nat
    BY FromType
  <2>2. l2 \in Nat /\ h2 \in Nat
    BY FromType, k - Len(s) \in Int, <1>1
  <2>3. /\ From(s \o t, k, {"eol"}) = l + l2
        /\ From(s \o t, k, {"ERROR", "report"}) = h + h2
    BY FromJoined
  <2>4. /\ Weight(s \o t, k) = From(s \o t, k, {"eol"}) + 4 * From(s \o t, k, {"ERROR", "report"})
        /\ Weight(s, k) = l + 4 * h /\ Weight(t, k - Len(s)) = l2 + 4 * h2
    BY DEF Weight
  <2>. HIDE DEF l, h, l2, h2
  <2>. QED
    BY <2>1, <2>2, <2>3, <2>4
<1>3. ASSUME NEW k \in 1..Len(s) PROVE Weight(s \o t, k) = Weight(s, k) + Weight(t, 1)
  <2>1. k \in Int /\ k - Len(s) \in Int /\ k - Len(s) <= 1
    BY <1>1
  <2>2. Weight(t, k - Len(s)) = Weight(t, 1)
    BY <2>1, WeightType
  <2>. QED
    BY <2>1, <2>2, <1>2
<1>4. ASSUME NEW k \in 1..Len(t) PROVE Weight(s \o t, Len(s) + k) = Weight(t, k)
  <2>. DEFINE j == Len(s) + k
  <2>1. j \in Int /\ j > Len(s) /\ j - Len(s) = k
    BY <1>1
  <2>. HIDE DEF j
  <2>2. Weight(s, j) = 0 /\ Weight(t, k) \in Nat
    BY <2>1, WeightType
  <2>3. Weight(s \o t, j) = Weight(s, j) + Weight(t, j - Len(s))
    BY <2>1, <1>2
  <2>. QED
    BY <2>1, <2>2, <2>3 DEF j
<1>5. Weight(s \o t, 1) = Weight(s, 1) + Weight(t, 1)
  <2>1. 1 - Len(s) \in Int /\ 1 - Len(s) <= 1
    BY <1>1
  <2>2. Weight(t, 1 - Len(s)) = Weight(t, 1)
    BY <2>1, WeightType
  <2>. QED
    BY <2>2, <1>2
<1>. QED
  BY <1>3, <1>4, <1>5

\* What stands at the end of such a text is such a text.
LEMMA EndIsFollowed ==
  ASSUME NEW s \in Seq(Tokens), NEW t \in Seq(Tokens), FollowedByAge(s \o t)
  PROVE  FollowedByAge(t)
<1>. DEFINE st == s \o t
<1>1. /\ Len(st) = Len(s) + Len(t) /\ Len(s) \in Nat /\ Len(t) \in Nat
      /\ \A k \in 1..Len(t) : st[Len(s) + k] = t[k]
  BY Joined
<1>2. \A k \in 1..Len(t) : Weight(st, Len(s) + k) = Weight(t, k)
  BY WeightJoined
<1>. HIDE DEF st
<1>3. ASSUME NEW k \in 1..Len(t)
      PROVE  /\ t[k].text = "CGLA" => Weight(t, k) >= 6 * t[k].age + 5
             /\ t[k].text = "ERROR" => \E m \in Nat : Weight(t, k) = 6 * m + 5
  <2>. DEFINE j == Len(s) + k
  <2>1. j \in 1..Len(st) /\ st[j] = t[k] /\ Weight(st, j) = Weight(t, k)
    BY <1>1, <1>2
  <2>. HIDE DEF j
  <2>2. /\ st[j].text = "CGLA" => Weight(st, j) >= 6 * st[j].age + 5
        /\ st[j].text = "ERROR" => \E m \in Nat : Weight(st, j) = 6 * m + 5
    BY <2>1 DEF FollowedByAge, st
  <2>. QED
    BY <2>1, <2>2
<1>. QED
  BY <1>3 DEF FollowedByAge

\* No answer in such a text is older than what follows it weighs.
LEMMA WeightBoundsAge ==
  ASSUME NEW s \in Seq(Tokens), NEW n \in Nat, FollowedByAge(s), Weight(s, 1) <= 6 * n + 7
  PROVE  AgedBy(s, n)
<1>1. ASSUME NEW k \in 1..Len(s), s[k].text = "CGLA" PROVE s[k].age <= n
  <2>1. k \in Int /\ 1 <= k /\ s[k] \in Tokens
    BY ElementOfSeq
  <2>2. Weight(s, k) <= Weight(s, 1) /\ Weight(s, k) \in Nat /\ Weight(s, 1) \in Nat
    BY <2>1, WeightType
  <2>3. Weight(s, k) >= 6 * s[k].age + 5
    BY <1>1 DEF FollowedByAge
  <2>4. s[k].age \in Nat
    BY <2>1, ReadAssumption DEF Tokens, MaxAge
  <2>. QED
    BY <2>2, <2>3, <2>4
<1>. QED
  BY <1>1 DEF AgedBy

\* Such a text stays one when it grows older and another answer comes.
LEMMA AnswerIsAdded ==
  ASSUME NEW s \in Seq(Tokens), NEW o \in Seq(Tokens), NEW u \in Seq(Tokens),
         Len(o) = Len(s),
         \A k \in 1..Len(s) : o[k].text = s[k].text /\ o[k].age <= s[k].age + 1,
         FollowedByAge(s), FollowedByAge(u), Weight(u, 1) = 6
  PROVE  /\ FollowedByAge(o \o u)
         /\ Weight(o \o u, 1) = Weight(s, 1) + 6
<1>. DEFINE ou == o \o u
<1>1. /\ ou \in Seq(Tokens) /\ Len(ou) = Len(o) + Len(u) /\ Len(o) \in Nat /\ Len(u) \in Nat
      /\ \A k \in 1..Len(o) : ou[k] = o[k]
      /\ \A k \in 1..Len(u) : ou[Len(o) + k] = u[k]
  BY Joined
<1>2. /\ \A k \in 1..Len(o) : Weight(ou, k) = Weight(o, k) + Weight(u, 1)
      /\ \A k \in 1..Len(u) : Weight(ou, Len(o) + k) = Weight(u, k)
      /\ Weight(ou, 1) = Weight(o, 1) + Weight(u, 1)
  BY WeightJoined
<1>. HIDE DEF ou
<1>3. ASSUME NEW k \in Int PROVE Weight(o, k) = Weight(s, k)
  <2>1. DOMAIN o = 1..Len(s) /\ DOMAIN s = 1..Len(s)
    BY LenProperties
  <2>2. ASSUME NEW T PROVE From(o, k, T) = From(s, k, T)
    <3>1. {i \in DOMAIN o : i >= k /\ o[i].text \in T} = {i \in DOMAIN s : i >= k /\ s[i].text \in T}
      BY <2>1
    <3>. QED
      BY <3>1 DEF From
  <2>. QED
    BY <2>2 DEF Weight
<1>4. ASSUME NEW k \in 1..Len(s)
      PROVE  /\ ou[k].text = "CGLA" => Weight(ou, k) >= 6 * ou[k].age + 5
             /\ ou[k].text = "ERROR" => \E m \in Nat : Weight(ou, k) = 6 * m + 5
  <2>1. ou[k] = o[k] /\ o[k].text = s[k].text /\ o[k].age <= s[k].age + 1
    BY <1>1
  <2>2. Weight(ou, k) = Weight(s, k) + 6 /\ Weight(s, k) \in Nat
    BY <1>2, <1>3, WeightType
  <2>3. o[k].age \in Nat /\ s[k].age \in Nat
    <3>1. o[k] \in Tokens /\ s[k] \in Tokens
      BY ElementOfSeq
    <3>. QED
      BY <3>1, ReadAssumption DEF Tokens, MaxAge
  <2>4. CASE s[k].text = "CGLA"
    <3>1. Weight(s, k) >= 6 * s[k].age + 5
      BY <2>4 DEF FollowedByAge
    <3>. DEFINE a == s[k].age
                b == o[k].age
    <3>2. a \in Nat /\ b \in Nat /\ b <= a + 1 /\ Weight(s, k) >= 6 * a + 5
      BY <3>1, <2>1, <2>3
    <3>. HIDE DEF a, b
    <3>3. Weight(ou, k) >= 6 * b + 5
      BY <3>2, <2>2
    <3>. QED
      BY <3>3, <2>1, <2>4 DEF b
  <2>5. CASE s[k].text = "ERROR"
    <3>1. PICK m \in Nat : Weight(s, k) = 6 * m + 5
      BY <2>5 DEF FollowedByAge
    <3>2. m + 1 \in Nat /\ Weight(ou, k) = 6 * (m + 1) + 5
      BY <3>1, <2>2
    <3>. QED
      BY <3>2, <2>1, <2>5
  <2>. QED
    BY <2>1, <2>4, <2>5
<1>5. ASSUME NEW k \in 1..Len(ou), k > Len(o)
      PROVE  /\ ou[k].text = "CGLA" => Weight(ou, k) >= 6 * ou[k].age + 5
             /\ ou[k].text = "ERROR" => \E m \in Nat : Weight(ou, k) = 6 * m + 5
  <2>. DEFINE j == k - Len(o)
  <2>1. j \in 1..Len(u) /\ k = Len(o) + j
    BY <1>1, <1>5
  <2>. HIDE DEF j
  <2>2. ou[k] = u[j] /\ Weight(ou, k) = Weight(u, j)
    BY <2>1, <1>1, <1>2
  <2>3. /\ u[j].text = "CGLA" => Weight(u, j) >= 6 * u[j].age + 5
        /\ u[j].text = "ERROR" => \E m \in Nat : Weight(u, j) = 6 * m + 5
    BY <2>1 DEF FollowedByAge
  <2>. QED
    BY <2>2, <2>3
<1>6. FollowedByAge(ou)
  BY <1>1, <1>4, <1>5 DEF FollowedByAge
<1>7. Weight(ou, 1) = Weight(s, 1) + 6
  BY <1>2, <1>3
<1>. QED
  BY <1>6, <1>7 DEF ou

\* How many elements the sets of positions below have.
LEMMA SmallSets ==
  /\ Cardinality({}) = 0 /\ Cardinality({2}) = 1 /\ Cardinality({3}) = 1
  /\ Cardinality({1, 3}) = 2
  /\ Cardinality({3, 4, 5, 6, 8}) = 5 /\ Cardinality({1, 3, 4, 5, 6, 8}) = 6
<1>. DEFINE A == {3}
            B == A \cup {4}
            C == B \cup {5}
            D == C \cup {6}
            E == D \cup {8}
            F == E \cup {1}
            G == A \cup {1}
<1>1. /\ Cardinality({}) = 0 /\ Cardinality({2}) = 1
      /\ IsFiniteSet(A) /\ Cardinality(A) = 1
  BY FS_EmptySet, FS_Singleton
<1>2. 4 \notin A /\ 5 \notin B /\ 6 \notin C /\ 8 \notin D /\ 1 \notin E /\ 1 \notin A
  OBVIOUS
<1>3. /\ {1, 3} = G /\ {3, 4, 5, 6, 8} = E /\ {1, 3, 4, 5, 6, 8} = F
  OBVIOUS
<1>. HIDE DEF A
<1>4. IsFiniteSet(B) /\ Cardinality(B) = 1 + 1
  BY <1>1, <1>2, OneMore
<1>5. Cardinality(B) = 2
  BY <1>4
<1>6. Cardinality(G) = 1 + 1
  BY <1>1, <1>2, OneMore
<1>7. Cardinality(G) = 2
  BY <1>6
<1>. HIDE DEF B, G
<1>8. IsFiniteSet(C) /\ Cardinality(C) = 2 + 1
  BY <1>2, <1>4, <1>5, OneMore
<1>9. Cardinality(C) = 3
  BY <1>8
<1>. HIDE DEF C
<1>10. IsFiniteSet(D) /\ Cardinality(D) = 3 + 1
  BY <1>2, <1>8, <1>9, OneMore
<1>11. Cardinality(D) = 4
  BY <1>10
<1>. HIDE DEF D
<1>12. IsFiniteSet(E) /\ Cardinality(E) = 4 + 1
  BY <1>2, <1>10, <1>11, OneMore
<1>13. Cardinality(E) = 5
  BY <1>12
<1>. HIDE DEF E
<1>14. Cardinality(F) = 5 + 1
  BY <1>2, <1>12, <1>13, OneMore
<1>15. Cardinality(F) = 6
  BY <1>14
<1>. QED
  BY <1>1, <1>3, <1>7, <1>13, <1>15 DEF A

\* What the modem says at a time weighs 6, and 5 from CGLA or ERROR on.
LEMMA SpokenWeight ==
  ASSUME NEW x \in {Good["CGLA"], Bad, <<"eol", "report", "eol">>}
  PROVE  /\ Spoken(x) \in Seq(Tokens)
         /\ Weight(Spoken(x), 1) = 6 /\ FollowedByAge(Spoken(x))
<1>. DEFINE u == Spoken(x)
<1>1. x \in Seq(Texts)
  BY AnswersAreTexts DEF AllKinds
<1>2. u \in Seq(Tokens) /\ Len(u) = Len(x) /\ \A k \in 1..Len(x) : u[k] = Token(x[k], 0)
  BY <1>1, SpokenType
<1>. HIDE DEF u
<1>3. \A k \in 1..Len(x) : u[k].text = x[k] /\ u[k].age = 0
  <2>1. ASSUME NEW k \in 1..Len(x) PROVE u[k].text = x[k] /\ u[k].age = 0
    <3>1. u[k] = [text |-> x[k], age |-> 0]
      BY <1>2 DEF Token
    <3>. QED
      BY <3>1
  <2>. QED
    BY <2>1
<1>4. DOMAIN u = 1..Len(x)
  BY <1>2, LenProperties
<1>5. CASE x = Good["CGLA"]
  <2>1. /\ Len(x) = 8
        /\ \A k \in 1..8 : x[k] = IF k = 2 THEN "CGLA" ELSE IF k = 7 THEN "OK" ELSE "eol"
    BY <1>5 DEF Good
  <2>2. /\ {i \in DOMAIN u : i >= 1 /\ u[i].text \in {"eol"}} = {1, 3, 4, 5, 6, 8}
        /\ {i \in DOMAIN u : i >= 2 /\ u[i].text \in {"eol"}} = {3, 4, 5, 6, 8}
        /\ {i \in DOMAIN u : i >= 1 /\ u[i].text \in {"ERROR", "report"}} = {}
        /\ {i \in DOMAIN u : i >= 2 /\ u[i].text \in {"ERROR", "report"}} = {}
    BY <2>1, <1>3, <1>4
  <2>3. /\ From(u, 1, {"eol"}) = 6 /\ From(u, 2, {"eol"}) = 5
        /\ From(u, 1, {"ERROR", "report"}) = 0 /\ From(u, 2, {"ERROR", "report"}) = 0
    BY <2>2, SmallSets DEF From
  <2>4. Weight(u, 1) = 6 /\ Weight(u, 2) = 5
    BY <2>3 DEF Weight
  <2>5. \A k \in 1..Len(u) : u[k].text # "ERROR" /\ (u[k].text = "CGLA" => k = 2 /\ u[k].age = 0)
    BY <2>1, <1>2, <1>3
  <2>. QED
    BY <2>4, <2>5, <1>2 DEF FollowedByAge, u
<1>6. CASE x = Bad
  <2>1. /\ Len(x) = 3
        /\ x[1] = "eol" /\ x[2] = "ERROR" /\ x[3] = "eol"
    BY <1>6 DEF Bad
  <2>2. /\ {i \in DOMAIN u : i >= 1 /\ u[i].text \in {"eol"}} = {1, 3}
        /\ {i \in DOMAIN u : i >= 2 /\ u[i].text \in {"eol"}} = {3}
        /\ {i \in DOMAIN u : i >= 1 /\ u[i].text \in {"ERROR", "report"}} = {2}
        /\ {i \in DOMAIN u : i >= 2 /\ u[i].text \in {"ERROR", "report"}} = {2}
    BY <2>1, <1>3, <1>4
  <2>3. /\ From(u, 1, {"eol"}) = 2 /\ From(u, 2, {"eol"}) = 1
        /\ From(u, 1, {"ERROR", "report"}) = 1 /\ From(u, 2, {"ERROR", "report"}) = 1
    BY <2>2, SmallSets DEF From
  <2>4. Weight(u, 1) = 6 /\ Weight(u, 2) = 6 * 0 + 5
    BY <2>3 DEF Weight
  <2>5. \A k \in 1..Len(u) : u[k].text # "CGLA" /\ (u[k].text = "ERROR" => k = 2)
    BY <2>1, <1>2, <1>3
  <2>. QED
    BY <2>4, <2>5, <1>2 DEF FollowedByAge, u
<1>7. CASE x = <<"eol", "report", "eol">>
  <2>1. /\ Len(x) = 3
        /\ x[1] = "eol" /\ x[2] = "report" /\ x[3] = "eol"
    BY <1>7
  <2>2. /\ {i \in DOMAIN u : i >= 1 /\ u[i].text \in {"eol"}} = {1, 3}
        /\ {i \in DOMAIN u : i >= 1 /\ u[i].text \in {"ERROR", "report"}} = {2}
    BY <2>1, <1>3, <1>4
  <2>3. From(u, 1, {"eol"}) = 2 /\ From(u, 1, {"ERROR", "report"}) = 1
    BY <2>2, SmallSets DEF From
  <2>4. Weight(u, 1) = 6
    BY <2>3 DEF Weight
  <2>5. \A k \in 1..Len(u) : u[k].text # "CGLA" /\ u[k].text # "ERROR"
    BY <2>1, <1>2, <1>3
  <2>. QED
    BY <2>4, <2>5, <1>2 DEF FollowedByAge, u
<1>. QED
  BY <1>5, <1>6, <1>7

\* Ages grow by one at most.
LEMMA OlderAges ==
  ASSUME NEW s \in Seq(Tokens), NEW k \in 1..Len(s)
  PROVE  Older(s)[k].age <= s[k].age + 1
<1>. DEFINE a == s[k].age
            b == IF a < MaxAge THEN a + 1 ELSE MaxAge
<1>1. k \in DOMAIN s /\ s[k] \in Tokens /\ MaxAge \in Nat
  BY LenProperties, ElementOfSeq, ReadAssumption DEF MaxAge
<1>2. a \in Nat
  BY <1>1 DEF Tokens
<1>3. b <= a + 1
  <2>. HIDE DEF a
  <2>. QED
    BY <1>1, <1>2
<1>4. Older(s)[k] = [text |-> s[k].text, age |-> b]
  BY <1>1 DEF Older, Token
<1>. QED
  BY <1>3, <1>4

\* Two texts growing older are their joined text growing older.
LEMMA OlderJoined ==
  ASSUME NEW p \in Seq(Tokens), NEW w \in Seq(Tokens)
  PROVE  LET o == Older(p) \o Older(w)
             s == p \o w
         IN  /\ o \in Seq(Tokens) /\ s \in Seq(Tokens) /\ Len(o) = Len(s)
             /\ \A k \in 1..Len(s) : o[k].text = s[k].text /\ o[k].age <= s[k].age + 1
<1>. DEFINE op == Older(p)
            ow == Older(w)
            o == op \o ow
            s == p \o w
<1>1. /\ op \in Seq(Tokens) /\ Len(op) = Len(p)
      /\ \A k \in 1..Len(p) : op[k].text = p[k].text
  BY OlderType
<1>2. /\ ow \in Seq(Tokens) /\ Len(ow) = Len(w)
      /\ \A k \in 1..Len(w) : ow[k].text = w[k].text
  BY OlderType
<1>3. /\ \A k \in 1..Len(p) : op[k].age <= p[k].age + 1
      /\ \A k \in 1..Len(w) : ow[k].age <= w[k].age + 1
  BY OlderAges
<1>. HIDE DEF op, ow
<1>4. /\ o \in Seq(Tokens) /\ Len(o) = Len(op) + Len(ow)
      /\ \A k \in 1..Len(op) : o[k] = op[k]
      /\ \A k \in 1..Len(ow) : o[Len(op) + k] = ow[k]
  <2>1. op \in Seq(Tokens) /\ ow \in Seq(Tokens)
    BY <1>1, <1>2
  <2>. QED
    BY <2>1, Joined
<1>5. /\ s \in Seq(Tokens) /\ Len(s) = Len(p) + Len(w) /\ Len(p) \in Nat /\ Len(w) \in Nat
      /\ \A k \in 1..Len(p) : s[k] = p[k]
      /\ \A k \in 1..Len(w) : s[Len(p) + k] = w[k]
  BY Joined
<1>. HIDE DEF o, s
<1>6. ASSUME NEW k \in 1..Len(s) PROVE o[k].text = s[k].text /\ o[k].age <= s[k].age + 1
  <2>1. CASE k <= Len(p)
    <3>1. k \in 1..Len(p) /\ k \in 1..Len(op)
      BY <2>1, <1>1, <1>5
    <3>2. o[k] = op[k] /\ s[k] = p[k]
      BY <3>1, <1>4, <1>5
    <3>. QED
      BY <3>1, <3>2, <1>1, <1>3
  <2>2. CASE k > Len(p)
    <3>. DEFINE j == k - Len(p)
    <3>1. j \in 1..Len(w) /\ j \in 1..Len(ow) /\ k = Len(p) + j /\ k = Len(op) + j
      BY <2>2, <1>1, <1>2, <1>5
    <3>. HIDE DEF j
    <3>2. o[k] = ow[j] /\ s[k] = w[j]
      BY <3>1, <1>4, <1>5
    <3>. QED
      BY <3>1, <3>2, <1>2, <1>3
  <2>. QED
    BY <2>1, <2>2, <1>5
<1>. QED
  BY <1>1, <1>2, <1>4, <1>5, <1>6 DEF o, s, op, ow

\* A bound on the ages holds for the beginning of a text.
LEMMA AgedBeginning ==
  ASSUME NEW s \in Seq(Tokens), NEW t \in Seq(Tokens), NEW n \in Nat, AgedBy(s \o t, n)
  PROVE  AgedBy(s, n)
<1>. DEFINE st == s \o t
<1>1. /\ Len(st) = Len(s) + Len(t) /\ Len(s) \in Nat /\ Len(t) \in Nat
      /\ \A k \in 1..Len(s) : st[k] = s[k]
  BY Joined
<1>2. \A k \in 1..Len(st) : st[k].text = "CGLA" => st[k].age <= n
  BY DEF AgedBy
<1>. HIDE DEF st
<1>3. \A k \in 1..Len(s) : k \in 1..Len(st)
  BY <1>1
<1>. QED
  BY <1>1, <1>2, <1>3 DEF AgedBy

\* And a greater bound holds.
LEMMA AgedByMore ==
  ASSUME NEW s \in Seq(Tokens), NEW n \in Nat, AgedBy(s, n)
  PROVE  AgedBy(s, n + 1)
<1>1. ASSUME NEW k \in 1..Len(s), s[k].text = "CGLA" PROVE s[k].age <= n + 1
  <2>. DEFINE a == s[k].age
  <2>1. s[k] \in Tokens
    BY ElementOfSeq
  <2>2. a \in Nat
    BY <2>1, ReadAssumption DEF Tokens, MaxAge
  <2>3. a <= n
    BY <1>1 DEF AgedBy
  <2>. HIDE DEF a
  <2>4. a <= n + 1
    BY <2>2, <2>3
  <2>. QED
    BY <2>4 DEF a
<1>. QED
  BY <1>1 DEF AgedBy

\* A caller finds nothing, or a token of the text.
LEMMA FirstIsThere ==
  ASSUME NEW s \in Seq(Tokens), NEW texts
  PROVE  \/ First(s, texts) = Nothing
         \/ \E k \in 1..Len(s) : First(s, texts) = s[k] /\ s[k].text \in texts
<1>. DEFINE hits == {k \in DOMAIN s : s[k].text \in texts}
<1>1. First(s, texts) = IF hits = {} THEN Nothing ELSE s[Min(hits)]
  BY DEF First
<1>2. ASSUME hits # {} PROVE Min(hits) \in hits
  <2>1. hits \in SUBSET Nat
    BY LenProperties
  <2>. HIDE DEF hits
  <2>. QED
    BY <2>1, <1>2, LeastPosition
<1>. QED
  BY <1>1, <1>2, LenProperties

\* The number of events is a number.
LEMMA EventsType ==
  ASSUME TypeOK
  PROVE  reports \in Nat /\ fails \in Nat /\ Events \in Nat
<1>1. reports \in Nat /\ fails \in Nat
  BY ReadAssumption DEF TypeOK
<1>. QED
  BY <1>1 DEF Events

\* What is left behind gets older with a command, and its answer comes on top.
LEMMA LagBySend ==
  ASSUME FileCommands, LagInv, TypeOK', Send
  PROVE  LagInv'
<1>. DEFINE x == IF good' THEN Good[kind'] ELSE Bad
            u == Spoken(x)
            o == Older(port) \o Older(wire)
            s == port \o wire
<1>1. /\ TypeOK /\ pc = "idle" /\ pc' = "reading" /\ kind' = "CGLA"
      /\ buffer' = << >> /\ port' = Older(port) /\ wire' = Older(wire) \o u
      /\ taken' = taken /\ Events' = Events
  BY DEF LagInv, Send, FileCommands, Events
<1>2. u \in Seq(Tokens) /\ Weight(u, 1) = 6 /\ FollowedByAge(u)
  <2>1. x \in {Good["CGLA"], Bad, <<"eol", "report", "eol">>}
    BY <1>1
  <2>. HIDE DEF x
  <2>. QED
    BY <2>1, SpokenWeight
<1>3. port \in Seq(Tokens) /\ wire \in Seq(Tokens)
  BY <1>1 DEF TypeOK
<1>4. /\ o \in Seq(Tokens) /\ s \in Seq(Tokens) /\ Len(o) = Len(s)
      /\ \A k \in 1..Len(s) : o[k].text = s[k].text /\ o[k].age <= s[k].age + 1
  BY <1>3, OlderJoined
<1>5. Older(port) \in Seq(Tokens) /\ Older(wire) \in Seq(Tokens)
  BY <1>3, OlderType
<1>. HIDE DEF u
<1>6. Stream' = o \o u
  <2>1. Stream' = (<< >> \o Older(port)) \o (Older(wire) \o u)
    BY <1>1 DEF Stream
  <2>2. << >> \o Older(port) = Older(port)
    BY <1>5, ConcatEmptySeq
  <2>3. \A a, b, c \in Seq(Tokens) : a \o (b \o c) = (a \o b) \o c
    BY ConcatAssociative
  <2>4. Older(port) \o (Older(wire) \o u) = o \o u
    BY <1>2, <1>5, <2>3, Zenon
  <2>. QED
    BY <2>1, <2>2, <2>4
<1>7. FollowedByAge(s) /\ Weight(s, 1) <= 6 * Events + 1
  BY <1>1 DEF LagInv, Unread
<1>. HIDE DEF o, s
<1>8. FollowedByAge(o \o u) /\ Weight(o \o u, 1) = Weight(s, 1) + 6
  BY <1>2, <1>4, <1>7, AnswerIsAdded
<1>9. Weight(s, 1) \in Nat /\ Events \in Nat
  BY <1>1, <1>4, WeightType, EventsType
<1>10. Weight(o \o u, 1) <= 6 * Events + 7
  BY <1>7, <1>8, <1>9
<1>11. Unread' = o \o u
  BY <1>1, <1>6 DEF Unread
<1>. QED
  BY <1>1, <1>8, <1>10, <1>11 DEF LagInv

\* A report weighs what it counts.
LEMMA LagByReport ==
  ASSUME LagInv, TypeOK', Report
  PROVE  LagInv'
<1>. DEFINE x == <<"eol", "report", "eol">>
            u == Spoken(x)
            s == Unread
<1>1. /\ TypeOK /\ pc' = pc /\ kind' = kind /\ buffer' = buffer /\ port' = port
      /\ wire' = wire \o u /\ taken' = taken
      /\ reports' = reports + 1 /\ fails' = fails
  BY DEF LagInv, Report
<1>2. reports \in Nat /\ fails \in Nat /\ Events \in Nat
  BY <1>1, EventsType
<1>3. Events' = Events + 1
  BY <1>1, <1>2 DEF Events
<1>4. u \in Seq(Tokens) /\ Weight(u, 1) = 6 /\ FollowedByAge(u)
  BY SpokenWeight
<1>. HIDE DEF u
<1>5. buffer \in Seq(Tokens) /\ port \in Seq(Tokens) /\ wire \in Seq(Tokens)
      /\ buffer \o port \in Seq(Tokens) /\ port \o wire \in Seq(Tokens)
  BY <1>1, ConcatProperties DEF TypeOK
<1>6. s \in Seq(Tokens) /\ Unread' = s \o u
  <2>1. Stream \in Seq(Tokens) /\ Stream' = Stream \o u
    <3>. DEFINE bp == buffer \o port
    <3>0. bp \in Seq(Tokens) /\ wire \in Seq(Tokens) /\ u \in Seq(Tokens)
      BY <1>4, <1>5
    <3>1. bp \o (wire \o u) = (bp \o wire) \o u
      <4>. HIDE DEF bp
      <4>. QED
        BY <3>0, ConcatAssociative
    <3>2. Stream \in Seq(Tokens)
      BY <1>1, StreamParts
    <3>. QED
      BY <3>1, <3>2, <1>1 DEF Stream
  <2>2. port' \o wire' = (port \o wire) \o u
    <3>1. port \o (wire \o u) = (port \o wire) \o u
      BY <1>4, <1>5, ConcatAssociative
    <3>. QED
      BY <3>1, <1>1
  <2>. QED
    BY <2>1, <2>2, <1>1, <1>5 DEF Unread
<1>7. /\ FollowedByAge(s)
      /\ Weight(s, 1) <= 6 * Events + (IF pc = "reading" THEN 7 ELSE 1)
  BY DEF LagInv
<1>. HIDE DEF s
<1>8. FollowedByAge(s \o u) /\ Weight(s \o u, 1) = Weight(s, 1) + 6
  <2>1. \A k \in 1..Len(s) : s[k].text = s[k].text /\ s[k].age <= s[k].age + 1
    <3>1. ASSUME NEW k \in 1..Len(s) PROVE s[k].age <= s[k].age + 1
      <4>. DEFINE a == s[k].age
      <4>1. s[k] \in Tokens
        BY <1>6, ElementOfSeq
      <4>2. a \in Nat
        BY <4>1, ReadAssumption DEF Tokens, MaxAge
      <4>. HIDE DEF a
      <4>3. a <= a + 1
        BY <4>2
      <4>. QED
        BY <4>3 DEF a
    <3>. QED
      BY <3>1
  <2>. QED
    BY <2>1, <1>4, <1>6, <1>7, AnswerIsAdded
<1>9. Weight(s, 1) \in Nat
  BY <1>6, WeightType
<1>10. Weight(s \o u, 1) <= 6 * Events' + (IF pc' = "reading" THEN 7 ELSE 1)
  BY <1>1, <1>2, <1>3, <1>7, <1>8, <1>9
<1>11. pc \in {"draining", "taken", "failed"} => AgedBy(buffer, Events + 1)
  BY <1>2, <1>5, AgedByMore DEF LagInv
<1>12. taken.age <= Events + 1
  <2>1. taken.age \in Nat /\ taken.age <= Events
    BY <1>1, ReadAssumption DEF LagInv, TypeOK, Tokens, MaxAge
  <2>. QED
    BY <2>1, <1>2
<1>. QED
  BY <1>1, <1>3, <1>6, <1>8, <1>10, <1>11, <1>12 DEF LagInv

\* What an exchange has read when its loop ends weighs an answer at least: six
\* line ends, or all up to an ERROR, which is whole answers and an ERROR's
\* beginning.
LEMMA EndedReading ==
  ASSUME NEW b \in Seq(Tokens), NEW w \in Seq(Tokens), NEW n \in Nat,
         FollowedByAge(b \o w), Weight(b \o w, 1) <= 6 * n + 7,
         CountLines(b) = 6 \/ Mentions(b, "ERROR")
  PROVE  Weight(w, 1) <= 6 * n + 1
<1>. DEFINE bw == b \o w
<1>1. DOMAIN b = 1..Len(b) /\ Len(b) \in Nat /\ bw \in Seq(Tokens)
  BY LenProperties, Joined
<1>2. /\ \A k \in 1..Len(b) : Weight(bw, k) = Weight(b, k) + Weight(w, 1)
      /\ Weight(bw, 1) = Weight(b, 1) + Weight(w, 1)
  BY WeightJoined
<1>3. /\ \A k \in Int : Weight(b, k) \in Nat
      /\ Weight(w, 1) \in Nat /\ Weight(bw, 1) \in Nat
      /\ \A k \in 1..Len(b) : Weight(bw, k) \in Nat /\ Weight(bw, k) <= Weight(bw, 1)
  <2>1. \A k \in Int : Weight(b, k) \in Nat
    BY WeightType
  <2>0. Weight(w, 1) \in Nat
    BY WeightType
  <2>. HIDE DEF bw
  <2>2. /\ \A k \in Int : Weight(bw, k) \in Nat
        /\ \A k, j \in Int : k <= j => Weight(bw, j) <= Weight(bw, k)
    BY <1>1, WeightType
  <2>3. \A k \in 1..Len(b) : k \in Int /\ 1 <= k
    BY <1>1
  <2>. QED
    BY <2>0, <2>1, <2>2, <2>3
<1>4. CASE CountLines(b) = 6
  <2>1. {i \in DOMAIN b : i >= 1 /\ b[i].text \in {"eol"}} = {i \in DOMAIN b : b[i].text \in {"eol"}}
    BY <1>1
  <2>2. From(b, 1, {"eol"}) = 6
    BY <2>1, <1>4 DEF From, CountLines, Times
  <2>3. From(b, 1, {"ERROR", "report"}) \in Nat
    BY FromType
  <2>4. Weight(b, 1) >= 6 /\ Weight(b, 1) \in Nat
    BY <2>2, <2>3 DEF Weight
  <2>. HIDE DEF bw
  <2>5. Weight(bw, 1) <= 6 * n + 7
    BY DEF bw
  <2>. QED
    BY <2>4, <2>5, <1>2, <1>3
<1>5. CASE Mentions(b, "ERROR")
  <2>1. PICK k \in 1..Len(b) : b[k].text = "ERROR"
    BY <1>1, <1>5 DEF Mentions
  <2>2. bw[k] = b[k] /\ k \in 1..Len(bw)
    <3>1. bw[k] = b[k] /\ Len(bw) = Len(b) + Len(w) /\ Len(w) \in Nat
      BY Joined
    <3>. QED
      BY <3>1, <1>1
  <2>3. PICK m \in Nat : Weight(bw, k) = 6 * m + 5
    BY <2>1, <2>2 DEF FollowedByAge
  <2>4. Weight(b, k) >= 4
    <3>. DEFINE P == {i \in DOMAIN b : i >= k /\ b[i].text \in {"ERROR", "report"}}
    <3>1. k \in P /\ P \in SUBSET DOMAIN b
      BY <2>1, <1>1
    <3>2. IsFiniteSet(P) /\ Cardinality(P) \in Nat /\ {k} \in SUBSET P /\ Cardinality({k}) = 1
      <4>. HIDE DEF P
      <4>. QED
        BY <3>1, PositionsAreFinite, FS_Singleton
    <3>3. Cardinality(P) >= 1
      <4>. HIDE DEF P
      <4>1. Cardinality({k}) <= Cardinality(P)
        BY <3>2, FS_Subset
      <4>. QED
        BY <3>2, <4>1
    <3>4. From(b, k, {"ERROR", "report"}) >= 1 /\ From(b, k, {"ERROR", "report"}) \in Nat
      BY <3>2, <3>3 DEF From
    <3>5. From(b, k, {"eol"}) \in Nat
      BY FromType, k \in Int, <1>1
    <3>. QED
      BY <3>4, <3>5 DEF Weight
  <2>5. /\ Weight(bw, k) = Weight(b, k) + Weight(w, 1) /\ Weight(bw, k) <= Weight(bw, 1)
        /\ Weight(b, k) \in Nat /\ Weight(w, 1) \in Nat /\ Weight(bw, 1) \in Nat
    BY <1>2, <1>3, <2>1, k \in Int
  <2>6. Weight(bw, 1) <= 6 * n + 7
    OBVIOUS
  <2>. HIDE DEF bw
  <2>7. m <= n
    BY <2>3, <2>5, <2>6
  <2>. QED
    BY <2>3, <2>4, <2>5, <2>7
<1>. QED
  BY <1>4, <1>5

\* The stream is buffer, and what is behind it.
LEMMA StreamSplit ==
  ASSUME TypeOK
  PROVE  /\ buffer \in Seq(Tokens) /\ port \in Seq(Tokens) /\ wire \in Seq(Tokens)
         /\ buffer \o port \in Seq(Tokens) /\ port \o wire \in Seq(Tokens)
         /\ Stream \in Seq(Tokens)
         /\ Stream = (buffer \o port) \o wire /\ Stream = buffer \o (port \o wire)
<1>1. /\ buffer \in Seq(Tokens) /\ port \in Seq(Tokens) /\ wire \in Seq(Tokens)
  BY DEF TypeOK
<1>2. buffer \o port \in Seq(Tokens) /\ port \o wire \in Seq(Tokens)
  BY <1>1, ConcatProperties
<1>3. (buffer \o port) \o wire = buffer \o (port \o wire)
  BY <1>1, ConcatAssociative
<1>4. Stream \in Seq(Tokens)
  BY StreamParts
<1>. QED
  BY <1>1, <1>2, <1>3, <1>4 DEF Stream

\* A turn of the loop, whether it ends it or not.
LEMMA LagByRead ==
  ASSUME LagInv, TypeOK', Read
  PROVE  LagInv'
<1>. DEFINE b == buffer \o port
<1>1. /\ TypeOK /\ pc = "reading" /\ kind = "CGLA" /\ kind' = kind
      /\ buffer' = b /\ port' = << >> /\ wire' = wire /\ taken' = taken
      /\ Events' = Events
  BY DEF LagInv, Read, Events
<1>2. Events \in Nat
  BY <1>1, EventsType
<1>3. b \in Seq(Tokens) /\ wire \in Seq(Tokens) /\ Stream \in Seq(Tokens) /\ Stream = b \o wire
  BY <1>1, StreamSplit
<1>4. FollowedByAge(Stream) /\ Weight(Stream, 1) <= 6 * Events + 7
  BY <1>1 DEF LagInv, Unread
<1>5. CASE pc' = "reading"
  <2>1. Unread' = Unread
    <3>1. Stream' = Stream
      BY <1>1, StreamMoves
    <3>. QED
      BY <3>1, <1>1, <1>5 DEF Unread
  <2>. QED
    BY <2>1, <1>1, <1>5 DEF LagInv
<1>6. CASE pc' = "draining"
  <2>1. CountLines(b) = 6 \/ Mentions(b, "ERROR")
    BY <1>1, <1>6 DEF Read, Lines
  <2>2. Unread' = wire
    <3>1. << >> \o wire = wire
      BY <1>3, ConcatEmptySeq
    <3>. QED
      BY <3>1, <1>1, <1>6 DEF Unread
  <2>. HIDE DEF b
  <2>3. FollowedByAge(wire)
    BY <1>3, <1>4, EndIsFollowed
  <2>4. Weight(wire, 1) <= 6 * Events + 1
    BY <1>2, <1>3, <1>4, <2>1, EndedReading
  <2>5. AgedBy(Stream, Events)
    BY <1>2, <1>3, <1>4, WeightBoundsAge
  <2>6. AgedBy(b, Events)
    BY <2>5, <1>2, <1>3, AgedBeginning
  <2>. QED
    BY <2>2, <2>3, <2>4, <2>6, <1>1, <1>6 DEF LagInv
<1>. QED
  BY <1>5, <1>6 DEF Read

\* A failed read leaves an answer behind, and counts.
LEMMA LagByReadFails ==
  ASSUME LagInv, TypeOK', ReadFails
  PROVE  LagInv'
<1>. DEFINE t == port \o wire
<1>1. /\ TypeOK /\ pc = "reading" /\ kind = "CGLA" /\ kind' = kind /\ pc' = "failed"
      /\ buffer' = buffer /\ port' = port /\ wire' = wire /\ taken' = taken
      /\ reports' = reports /\ fails' = fails + 1
  BY DEF LagInv, ReadFails
<1>2. reports \in Nat /\ fails \in Nat /\ Events \in Nat
  BY <1>1, EventsType
<1>3. Events' = Events + 1
  BY <1>1, <1>2 DEF Events
<1>4. /\ buffer \in Seq(Tokens) /\ t \in Seq(Tokens) /\ Stream \in Seq(Tokens)
      /\ Stream = buffer \o t
  BY <1>1, StreamSplit
<1>5. FollowedByAge(Stream) /\ Weight(Stream, 1) <= 6 * Events + 7
  BY <1>1 DEF LagInv, Unread
<1>6. Unread' = t
  BY <1>1 DEF Unread
<1>. HIDE DEF t
<1>7. FollowedByAge(t)
  BY <1>4, <1>5, EndIsFollowed
<1>8. Weight(t, 1) <= 6 * (Events + 1) + 1
  <2>1. Weight(Stream, 1) = Weight(buffer, 1) + Weight(t, 1)
    BY <1>4, WeightJoined
  <2>2. Weight(buffer, 1) \in Nat /\ Weight(t, 1) \in Nat
    BY <1>4, WeightType
  <2>. QED
    BY <2>1, <2>2, <1>2, <1>5
<1>9. AgedBy(buffer, Events + 1)
  <2>1. AgedBy(Stream, Events)
    BY <1>2, <1>4, <1>5, WeightBoundsAge
  <2>2. AgedBy(buffer, Events)
    BY <2>1, <1>2, <1>4, AgedBeginning
  <2>. QED
    BY <2>2, <1>2, <1>4, AgedByMore
<1>10. taken.age <= Events + 1
  <2>1. taken.age \in Nat /\ taken.age <= Events
    BY <1>1, ReadAssumption DEF LagInv, TypeOK, Tokens, MaxAge
  <2>. QED
    BY <2>1, <1>2
<1>. QED
  BY <1>1, <1>3, <1>6, <1>7, <1>8, <1>9, <1>10 DEF LagInv

\* The read after the loop brings nothing older.
LEMMA LagByDrain ==
  ASSUME LagInv, TypeOK', Drain
  PROVE  LagInv'
<1>. DEFINE s == port \o LeftOf(buffer, Bytes(port))
            t == port \o wire
<1>1. /\ TypeOK /\ pc = "draining" /\ kind = "CGLA" /\ kind' = kind /\ pc' = "taken"
      /\ buffer' = s /\ port' = << >> /\ wire' = wire /\ taken' = taken
      /\ Events' = Events
  BY DEF LagInv, Drain, Events
<1>2. Events \in Nat
  BY <1>1, EventsType
<1>3. port \in Seq(Tokens) /\ wire \in Seq(Tokens) /\ t \in Seq(Tokens)
  BY <1>1, StreamSplit
<1>4. FollowedByAge(t) /\ Weight(t, 1) <= 6 * Events + 1
  BY <1>1 DEF LagInv, Unread
<1>5. Unread' = wire
  <2>1. << >> \o wire = wire
    BY <1>3, ConcatEmptySeq
  <2>. QED
    BY <2>1, <1>1 DEF Unread
<1>6. FollowedByAge(wire)
  BY <1>3, <1>4, EndIsFollowed
<1>7. Weight(wire, 1) <= 6 * Events + 1
  <2>1. Weight(t, 1) = Weight(port, 1) + Weight(wire, 1)
    BY <1>3, WeightJoined
  <2>2. Weight(port, 1) \in Nat /\ Weight(wire, 1) \in Nat
    BY <1>3, WeightType
  <2>. HIDE DEF t
  <2>. QED
    BY <2>1, <2>2, <1>2, <1>4
<1>8. AgedBy(buffer, Events)
  BY <1>1 DEF LagInv
<1>9. AgedBy(port, Events)
  <2>1. Weight(t, 1) <= 6 * Events + 7
    <3>1. Weight(t, 1) \in Nat
      <4>. HIDE DEF t
      <4>. QED
        BY <1>3, WeightType
    <3>. HIDE DEF t
    <3>. QED
      BY <3>1, <1>2, <1>4
  <2>2. AgedBy(t, Events)
    <3>. HIDE DEF t
    <3>. QED
      BY <2>1, <1>2, <1>3, <1>4, WeightBoundsAge
  <2>. QED
    BY <2>2, <1>2, <1>3, AgedBeginning
<1>10. AgedBy(s, Events)
  <2>1. \A k \in 1..Len(s) : \E i \in 1..Len(buffer) + Len(port) : s[k] = Stream[i]
    BY <1>1, DrainedTokens
  <2>2. /\ \A k \in 1..Len(buffer) : buffer[k] = Stream[k]
        /\ \A k \in 1..Len(port) : port[k] = Stream[Len(buffer) + k]
        /\ Len(buffer) \in Nat /\ Len(port) \in Nat
    BY <1>1, StreamParts
  <2>. HIDE DEF s
  <2>3. ASSUME NEW k \in 1..Len(s), s[k].text = "CGLA" PROVE s[k].age <= Events
    <3>1. PICK i \in 1..Len(buffer) + Len(port) : s[k] = Stream[i]
      BY <2>1
    <3>2. CASE i <= Len(buffer)
      <4>1. i \in 1..Len(buffer) /\ s[k] = buffer[i]
        BY <3>1, <3>2, <2>2
      <4>. QED
        BY <4>1, <2>3, <1>8 DEF AgedBy
    <3>3. CASE i > Len(buffer)
      <4>. DEFINE j == i - Len(buffer)
      <4>1. j \in 1..Len(port) /\ i = Len(buffer) + j
        BY <3>3, <2>2
      <4>. HIDE DEF j
      <4>2. s[k] = port[j]
        BY <4>1, <3>1, <2>2
      <4>. QED
        BY <4>1, <4>2, <2>3, <1>9 DEF AgedBy
    <3>. QED
      BY <3>2, <3>3, <2>2
  <2>. QED
    BY <2>3 DEF AgedBy
<1>. QED
  BY <1>1, <1>5, <1>6, <1>7, <1>10 DEF LagInv

\* What the caller takes is as old as its text.
LEMMA LagByTake ==
  ASSUME LagInv, TypeOK', Take
  PROVE  LagInv'
<1>1. /\ TypeOK /\ pc \in {"taken", "failed"} /\ kind = "CGLA" /\ pc' = "idle"
      /\ taken' = First(buffer, {"CGLA"})
      /\ buffer' = buffer /\ port' = port /\ wire' = wire /\ Events' = Events
  BY DEF LagInv, Take, Events
<1>2. Events \in Nat /\ buffer \in Seq(Tokens)
  BY <1>1, EventsType DEF TypeOK
<1>3. AgedBy(buffer, Events)
  BY <1>1 DEF LagInv
<1>4. First(buffer, {"CGLA"}).age <= Events
  <2>1. CASE First(buffer, {"CGLA"}) = Nothing
    <3>1. Nothing.age = 0
      BY DEF Nothing, Token
    <3>. QED
      BY <2>1, <3>1, <1>2
  <2>2. CASE \E k \in 1..Len(buffer) :
               First(buffer, {"CGLA"}) = buffer[k] /\ buffer[k].text \in {"CGLA"}
    BY <2>2, <1>3 DEF AgedBy
  <2>. QED
    BY <2>1, <2>2, <1>2, FirstIsThere
<1>5. Unread' = Unread
  BY <1>1 DEF Unread
<1>. QED
  BY <1>1, <1>4, <1>5 DEF LagInv

\* No step breaks the invariant.
LEMMA LagNext ==
  ASSUME FileCommands, LagInv, [Next]_vars
  PROVE  LagInv'
<1>1. TypeOK /\ TypeOK'
  BY ReadTypeNext DEF LagInv
<1>2. CASE Deliver
  <2>1. /\ pc' = pc /\ kind' = kind /\ buffer' = buffer /\ taken' = taken /\ Events' = Events
    BY <1>2 DEF Deliver, Events
  <2>2. Unread' = Unread
    BY <2>1, <1>1, <1>2, StreamMoves DEF Unread
  <2>. QED
    BY <2>1, <2>2, <1>1 DEF LagInv
<1>3. CASE UNCHANGED vars
  BY <1>1, <1>3 DEF vars, LagInv, Unread, Stream, Events
<1>. QED
  BY <1>1, <1>2, <1>3, LagBySend, LagByReport, LagByRead, LagByReadFails, LagByDrain, LagByTake
     DEF Next

\* Nothing is left of anything at first.
LEMMA LagInit == Init => LagInv
<1>. SUFFICES ASSUME Init PROVE LagInv
  OBVIOUS
<1>1. TypeOK
  BY ReadTypeInit
<1>2. pc = "idle" /\ port = << >> /\ wire = << >> /\ taken.age = 0 /\ Events = 0
  BY DEF Init, Events, Nothing, Token
<1>3. Unread = << >>
  BY <1>2, ConcatEmptySeq DEF Unread
<1>4. << >> \in Seq(Tokens) /\ Len(<< >>) = 0
  BY EmptySeq
<1>5. Weight(<< >>, 1) = 0
  <2>1. ASSUME NEW s \in Seq(Tokens), Len(s) = 0 PROVE Weight(s, 1) = 0
    <3>1. \A k \in Int : k > Len(s) => Weight(s, k) = 0
      BY WeightType
    <3>. QED
      BY <3>1, <2>1
  <2>. QED
    BY <2>1, <1>4
<1>6. FollowedByAge(<< >>)
  BY <1>4 DEF FollowedByAge
<1>. QED
  BY <1>1, <1>2, <1>3, <1>5, <1>6 DEF LagInv

\* A file command takes the answer to a command that many back, at most, as
\* there have been reports of the modem's own and failed reads: each of them
\* leaves one more answer behind, and neither an ERROR nor the last read of
\* read_message, wherever it cuts, adds to that.
THEOREM LagIsKnown == FileCommands /\ Spec => []LagIsBounded
<1>. SUFFICES ASSUME FileCommands PROVE Spec => []LagIsBounded
  OBVIOUS
<1>1. LagInv /\ [Next]_vars => LagInv'
  BY LagNext
<1>2. LagInv => LagIsBounded
  BY DEF LagInv, LagIsBounded, Events
<1>. QED
  BY <1>1, <1>2, LagInit, PTL DEF Spec
=============================================================================
