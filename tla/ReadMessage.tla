---------------------------- MODULE ReadMessage ----------------------------
(***************************************************************************)
(* How src/src/at_commands.c cuts the modem's output into answers.         *)
(* read_message reads until the number of line ends in its buffer EQUALS   *)
(* the number the command's answer has, or until the buffer contains       *)
(* ERROR; it then reads over the start of the buffer whatever has come     *)
(* meanwhile.  What it leaves in the port is the start of the next answer. *)
(*                                                                         *)
(* Text is a sequence of tokens: a line end, ERROR, OK, the data of an     *)
(* answer, a report of the modem's own.  A token's age is the number of    *)
(* commands sent since the one it answers.                                 *)
(***************************************************************************)
EXTENDS Integers, Sequences, FiniteSets, FiniteSetsExt

CONSTANTS Kinds,       \* commands in use, among AllKinds
          Errors,      \* the modem may answer ERROR
          MaxReports,  \* bound on reports of the modem's own
          MaxFails     \* bound on failed read() calls

AllKinds == {"CCHO", "CCHC", "CGLA"}

ASSUME ReadAssumption ==
  /\ Kinds \subseteq AllKinds /\ Kinds # {} /\ Errors \in BOOLEAN
  /\ MaxReports \in Nat /\ MaxFails \in Nat

VARIABLES wire,     \* what the modem has still to deliver
          port,     \* what has arrived and is not read
          buffer,   \* buffer_out
          pc, kind, \* where the exchange stands, and its command
          good,     \* the modem does not answer it with ERROR
          taken,    \* what the caller takes for the answer
          reports, fails

vars == <<wire, port, buffer, pc, kind, good, taken, reports, fails>>

\* num_response_lines_...
Lines == [CCHO |-> 4, CCHC |-> 2, CGLA |-> 6]

Texts == {"eol", "OK", "ERROR", "CCHO", "CGLA", "report"}
MaxAge == MaxReports + MaxFails + 1
Token(text, age) == [text |-> text, age |-> age]
Tokens == [text : Texts, age : 0..MaxAge]
Nothing == Token("eol", 0)   \* no answer found

TypeOK ==
  /\ wire \in Seq(Tokens) /\ port \in Seq(Tokens) /\ buffer \in Seq(Tokens)
  /\ pc \in {"idle", "reading", "draining", "taken", "failed"}
  /\ kind \in AllKinds /\ good \in BOOLEAN /\ taken \in Tokens
  /\ reports \in 0..MaxReports /\ fails \in 0..MaxFails

Init ==
  /\ wire = << >> /\ port = << >> /\ buffer = << >>
  /\ pc = "idle" /\ kind = "CCHC" /\ good = TRUE /\ taken = Nothing
  /\ reports = 0 /\ fails = 0

-----------------------------------------------------------------------------
(* The modem *)

Spoken(texts) == [k \in DOMAIN texts |-> Token(texts[k], 0)]

Good == [CCHC |-> <<"eol", "OK", "eol">>,
         CCHO |-> <<"eol", "CCHO", "eol", "eol", "OK", "eol">>,
         CGLA |-> <<"eol", "CGLA", "eol", "eol", "eol", "eol", "OK", "eol">>]

Bad == <<"eol", "ERROR", "eol">>

Older(s) == [k \in DOMAIN s |->
               Token(s[k].text, IF s[k].age < MaxAge THEN s[k].age + 1 ELSE MaxAge)]

\* send_message, and the modem's answer after all it has said before.
Send ==
  /\ pc = "idle"
  /\ kind' \in Kinds /\ good' \in {TRUE, ~ Errors}
  /\ wire' = Older(wire) \o Spoken(IF good' THEN Good[kind'] ELSE Bad)
  /\ port' = Older(port) /\ buffer' = << >> /\ pc' = "reading"
  /\ UNCHANGED <<taken, reports, fails>>

Report ==
  /\ reports < MaxReports /\ reports' = reports + 1
  /\ wire' = wire \o Spoken(<<"eol", "report", "eol">>)
  /\ UNCHANGED <<port, buffer, pc, kind, good, taken, fails>>

Deliver ==
  /\ wire # << >>
  /\ port' = Append(port, Head(wire)) /\ wire' = Tail(wire)
  /\ UNCHANGED <<buffer, pc, kind, good, taken, reports, fails>>

(* read_message *)

Mentions(s, text) == \E k \in DOMAIN s : s[k].text = text
Times(s, texts) == Cardinality({k \in DOMAIN s : s[k].text \in texts})
CountLines(s) == Times(s, {"eol"})

\* Mutant: the lines of the last read alone are counted.
ReadCountsChunk ==
  /\ pc = "reading" /\ port # << >>
  /\ buffer' = buffer \o port /\ port' = << >>
  /\ pc' = IF CountLines(port) = Lines[kind] \/ Mentions(buffer', "ERROR")
           THEN "draining" ELSE "reading"
  /\ UNCHANGED <<wire, kind, good, taken, reports, fails>>

\* Mutant: two lines are enough.
ReadStopsEarly ==
  /\ pc = "reading" /\ port # << >>
  /\ buffer' = buffer \o port /\ port' = << >>
  /\ pc' = IF CountLines(buffer') >= 2 THEN "draining" ELSE "reading"
  /\ UNCHANGED <<wire, kind, good, taken, reports, fails>>

\* One turn of the loop; read() blocks while nothing has come.
Read ==
  /\ pc = "reading" /\ port # << >>
  /\ buffer' = buffer \o port /\ port' = << >>
  /\ pc' = IF CountLines(buffer') = Lines[kind] \/ Mentions(buffer', "ERROR")
           THEN "draining" ELSE "reading"
  /\ UNCHANGED <<wire, kind, good, taken, reports, fails>>

\* read() returns 0 or -1: what has been read stays in buffer_out.
ReadFails ==
  /\ pc = "reading"
  /\ fails < MaxFails /\ fails' = fails + 1
  /\ pc' = "failed"
  /\ UNCHANGED <<wire, port, buffer, kind, good, taken, reports>>

Bytes(s) == 2 * Times(s, {"eol", "OK"}) + 5 * Times(s, {"ERROR"})
              + Times(s, {"CCHO"}) + 15 * Times(s, {"CGLA", "report"})

\* The tokens of s left when n bytes of its start are written over.
LeftOf(s, n) ==
  SubSeq(s, 1 + Cardinality({k \in DOMAIN s : Bytes(SubSeq(s, 1, k - 1)) < n}), Len(s))

\* FIONREAD, and the read that writes over the start of the buffer.
Drain ==
  /\ pc = "draining"
  /\ buffer' = port \o LeftOf(buffer, Bytes(port)) /\ port' = << >>
  /\ pc' = "taken"
  /\ UNCHANGED <<wire, kind, good, taken, reports, fails>>

First(s, texts) ==
  LET hits == {k \in DOMAIN s : s[k].text \in texts}
  IN  IF hits = {} THEN Nothing ELSE s[Min(hits)]

\* A read that fails leaves the line ends in the buffer, and OK is looked for at
\* the very start of it.
AtStart(s) == IF s # << >> /\ s[1].text # "eol" THEN s[1] ELSE Nothing

\* What the callers look for: a number, or OK, at the start once the line ends
\* are gone; CGLA anywhere.  Only the reader of AT+CCHO heeds a failed read.
Take ==
  /\ pc \in {"taken", "failed"}
  /\ taken' = CASE kind = "CGLA" -> First(buffer, {"CGLA"})
                [] kind = "CCHC" /\ pc = "failed" -> AtStart(buffer)
                [] kind = "CCHO" /\ (pc = "failed" \/ Mentions(buffer, "ERROR")) -> Nothing
                [] OTHER -> First(buffer, Texts \ {"eol"})
  /\ pc' = "idle"
  /\ UNCHANGED <<wire, port, buffer, kind, good, reports, fails>>

Next == Send \/ Report \/ Deliver \/ Read \/ ReadFails \/ Drain \/ Take

Spec == Init /\ [][Next]_vars

\* The modem delivers what it has, and the client's thread runs on.
FairSpec == Spec /\ WF_vars(Deliver) /\ WF_vars(Read \/ Drain \/ Take)

-----------------------------------------------------------------------------
\* Whatever pieces the output arrives in, each command takes its own answer,
\* and nothing when that is ERROR, until the first report or failed read.  For
\* the file commands (AT+CGLA) this holds although read_message may leave the
\* line end after ERROR to the next read, which then stops one line early, and
\* so on.
TakesOwnAnswer ==
  [][pc # "idle" /\ pc' = "idle" /\ reports + fails = 0 =>
       taken' = IF ~ good THEN Nothing
                ELSE Token(IF kind = "CCHC" THEN "OK" ELSE kind, 0)]_vars

\* Reports of the modem and failed reads shift every later answer: what a
\* command takes is then the answer to an earlier one, but never to one more
\* commands back than there were such events.
LagIsBounded == taken.age <= reports + fails

\* Nothing of an earlier answer and no report is left before this answer.
StartsClean ==
  /\ pc = "reading" /\ buffer = << >>
  /\ port \o wire = Spoken(IF good THEN Good[kind] ELSE Bad)

\* The line counts fit: an exchange that finds nothing left before its answer
\* ends, ERROR or not, unless a report comes meanwhile.  (After an ERROR or a
\* report the count may jump past the expected number, and the loop reads on.)
ReadEnds ==
  \A n \in 0..MaxReports : StartsClean /\ reports = n ~> pc = "idle" \/ reports > n
=============================================================================
