------------------------------ MODULE StrUtils ------------------------------
(***************************************************************************)
(* The functions of src/src/str_utils.c that at_commands.c reads answers   *)
(* with, and count_lines.  A text is a sequence of character codes; 0 ends *)
(* a string of C and is what lies behind the text in the buffer, which     *)
(* read_message clears.                                                    *)
(***************************************************************************)
EXTENDS Integers, SequencesExt

CR == 13
NL == 10

\* str[i], counted from 0.
At(str, i) == IF i < Len(str) THEN str[i + 1] ELSE 0

\* What the buffer holds when a function has written text over its start and a
\* 0 behind it: the characters moved stay where they were.
Overwritten(str, text) ==
  text \o (IF Len(text) < Len(str)
           THEN <<0>> \o SubSeq(str, Len(text) + 2, Len(str)) ELSE << >>)

\* strlen, and the text up to there.
Text(str) == SubSeq(str, 1, Min({k - 1 : k \in {j \in DOMAIN str : str[j] = 0}} \cup {Len(str)}))

remove_symb(str, s) == Overwritten(str, SelectSeq(Text(str), LAMBDA c : c # s))

\* The positions that hold other symbols.
Others(str, s) == {k \in DOMAIN Text(str) : str[k] # s}

remove_symb_from_start(str, s) ==
  Overwritten(str, IF Others(str, s) = {} THEN << >>
                   ELSE SubSeq(Text(str), Min(Others(str, s)), Len(Text(str))))

\* Of an empty text, or of one that is nothing but s, it reads the bytes before
\* the buffer: not defined.
EndsInBuffer(str, s) == Others(str, s) # {}
remove_symb_from_end(str, s) == Overwritten(str, SubSeq(str, 1, Max(Others(str, s))))

is_digit(c) == c \in 48..57
get_digit(c) == c - 48

get_digit_from_hex(c) ==
  CASE is_digit(c) -> get_digit(c)
    [] c \in 65..70 -> 10 + c - 65
    [] c \in 97..102 -> 10 + c - 97
    [] OTHER -> 0

\* The byte of the two digits from position i on.
get_byte_from_hex(str, i) ==
  16 * get_digit_from_hex(At(str, i)) + get_digit_from_hex(At(str, i + 1))

\* "%X" of a digit, "%02X" of a byte, "%d" of a number up to 999.
HexDigit(d) == IF d < 10 THEN 48 + d ELSE 55 + d
append_symbol_asbyte_hex(str, n) == str \o <<HexDigit(n \div 16), HexDigit(n % 16)>>
append_number(str, n) ==
  str \o (IF n >= 100 THEN <<48 + (n \div 100)>> ELSE << >>)
      \o (IF n >= 10 THEN <<48 + ((n \div 10) % 10)>> ELSE << >>)
      \o <<48 + (n % 10)>>

count_lines(str) ==
  Cardinality({k \in 2..Len(str) : str[k - 1] = CR /\ str[k] = NL})

\* Mutant: size_diff is size1 - size2 - 1.
FindsEarlier(str1, str2) ==
  LET n == Len(str1)
      m == Len(str2)
      Finds[i1 \in 0..n, i2 \in 0..m] ==
        CASE i2 = m -> TRUE
          [] i2 < m /\ At(str1, i1) = str2[i2 + 1] -> Finds[i1 + 1, i2 + 1]
          [] OTHER -> i1 < n - m - 2 /\ Finds[i1 + 1, i2]
  IN n >= m /\ Finds[0, 0]

\* i2 is not reset after a mismatch: the symbols of str2 count wherever they
\* stand, as long as they come in order.
check_if_contains(str1, str2) ==
  LET n == Len(str1)
      m == Len(str2)
      Finds[i1 \in 0..n, i2 \in 0..m] ==
        CASE i2 = m -> TRUE
          [] i2 < m /\ At(str1, i1) = str2[i2 + 1] -> Finds[i1 + 1, i2 + 1]
          [] OTHER -> i1 < n - m /\ Finds[i1 + 1, i2]
  IN n >= m /\ Finds[0, 0]
=============================================================================
