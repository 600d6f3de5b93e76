----------------------------- MODULE MCAnswers -----------------------------
(* The files of user 4, and short texts before the answer, for TLC. *)
EXTENDS Answers

AnyFile == [life_cycle_state |-> 3, efarr_fid |-> \hEF04]

MCFiles ==
  {[type |-> "df", fid |-> \hDF04, efarr_line_number |-> 1] @@ AnyFile}
  \cup {[type |-> "efarr", fid |-> \hEF04, efarr_line_number |-> 2, file_size |-> 2255,
      record_size |-> 21, sfi |-> \hF8] @@ AnyFile}
  \cup {[type |-> "kf", fid |-> \hCD04, efarr_line_number |-> 3, key_algo |-> 0,
         key_purpose |-> 0, key_id |-> \hC4, kf_flags |-> 0] @@ AnyFile}
  \cup {[type |-> "bf", fid |-> \hBF02, efarr_line_number |-> 4, file_size |-> 300] @@ AnyFile}

\* A few letters of ERROR, and up to six line ends.
Letters == {<< >>, <<69>>, <<69, 82>>}
MCNoises == {l \o FlattenSeq([k \in 1..n |-> Eol]) : l \in Letters, n \in 0..6}
=============================================================================
