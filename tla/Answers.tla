------------------------------ MODULE Answers ------------------------------
(***************************************************************************)
(* The answer to a SELECT, character by character: read in any portions by *)
(* read_message (src/src/at_commands.c), with other text of the modem      *)
(* before it, cleaned of its line ends, turned into bytes and a status by  *)
(* get_cgla_response (apdu_response_parser.c) and into the descriptor of a *)
(* file by config_fcp_dscr (fcp_parser.c).  ReadMessage follows whole      *)
(* answers through many commands; here it is one answer, cut anywhere.     *)
(***************************************************************************)
EXTENDS FileControl, StrUtils

CONSTANTS Files,   \* descriptors of the files the element may hold
          Noises   \* texts that may stand before the answer

VARIABLES file,    \* the file that is selected
          reply,   \* "fcp", "refused" or "error"
          noise,   \* the other text
          line,    \* all that the modem sends
          got,     \* characters of it that have been read
          buffer,  \* buffer_out
          pc,
          rsp,     \* apdu_rsp
          tags,    \* struct FcpDscr
          is_kf_flag,
          offset, stop  \* where a loop over tags stands, and where it ends

vars == <<file, reply, noise, line, got, buffer, pc, rsp, tags, is_kf_flag, offset, stop>>

Eol == <<CR, NL>>
ERROR_STR == <<69, 82, 82, 79, 82>>
cgla_tag == <<67, 71, 76, 65>>
Space == 32
Quote == 34
Comma == 44
Colon == 58

\* The 9000 of the command before, without data.
Earlier == [sw |-> \h9000, rsp |-> << >>]

TypeOK ==
  /\ file \in Files /\ reply \in {"fcp", "refused", "error"} /\ noise \in Noises
  /\ \A text \in {line, buffer} : \A k \in DOMAIN text : text[k] \in Byte
  /\ got \in 0..Len(line)
  /\ pc \in {"reading", "draining", "parsing", "checking", "walking", "in_A5",
             "done", "failed", "undefined"}
  /\ rsp.sw \in 0..65535 /\ \A k \in DOMAIN rsp.rsp : rsp.rsp[k] \in Byte
  /\ DOMAIN tags = Slots /\ \A s \in Slots : \A k \in DOMAIN tags[s] : tags[s][k] \in Byte
  /\ is_kf_flag \in BOOLEAN
  /\ offset \in Nat /\ stop \in Nat

-----------------------------------------------------------------------------
(* The element and the modem *)

\* The file's tags, in the order of their creation or of the answer quoted in
\* config_fcp_dscr: all of them only if the length given for them is right.
Kept(d) == SubSeq(FlattenSeq(CreateFcp(d).tags), 1, CreateFcp(d).length)
Rank == [t \in TopTags \cup {\hA5} |->
           CASE t = \h82 -> 0 [] t = \h80 -> 2 [] t = \h88 -> 3 [] t = \hA5 -> 4 [] OTHER -> 1]
Answered(d) ==
  LET whole == Len(FlattenSeq(CreateFcp(d).tags)) = CreateFcp(d).length
      sorted == SortSeq(CreateFcp(d).tags, LAMBDA s, t : Rank[s[1]] < Rank[t[1]])
  IN {<<\h62, Len(Kept(d))>> \o v :
        v \in {Kept(d)} \cup (IF whole THEN {FlattenSeq(sorted)} ELSE {})}

Hex(bytes) == FoldLeft(append_symbol_asbyte_hex, << >>, bytes)

CglaText(bytes) ==
  Eol \o <<43>> \o cgla_tag
    \o append_number(<<Colon, Space>>, 2 * Len(bytes)) \o <<Comma, Quote>> \o Hex(bytes)
    \o <<Quote>> \o Eol \o Eol \o Eol \o Eol \o <<79, 75>> \o Eol

Said(r, bytes) ==
  CASE r = "fcp" -> CglaText(bytes \o <<\h90, 0>>)
    [] r = "refused" -> CglaText(<<\h6A, \h82>>)
    [] r = "error" -> Eol \o ERROR_STR \o Eol

Init ==
  /\ file \in Files /\ reply \in {"fcp", "refused", "error"} /\ noise \in Noises
  /\ \E bytes \in Answered(file) : line = noise \o Said(reply, bytes)
  /\ got = 0 /\ buffer = << >> /\ pc = "reading"
  /\ rsp = Earlier /\ tags = init_fcp_dscr /\ is_kf_flag = FALSE
  /\ offset = 0 /\ stop = 0

-----------------------------------------------------------------------------
(* read_message *)

num_response_lines == 6

\* Mutant: two lines are enough.
StopsAtTwo(text) == count_lines(text) >= 2 \/ check_if_contains(text, ERROR_STR)

Complete(text) ==
  count_lines(text) = num_response_lines \/ check_if_contains(text, ERROR_STR)

\* One more character.  The loop looks at the text at the end of a read(),
\* which may be anywhere, and at the latest where nothing more comes.
Read ==
  /\ pc = "reading" /\ got < Len(line)
  /\ got' = got + 1 /\ buffer' = Append(buffer, line[got + 1])
  /\ LET complete == Complete(SubSeq(line, 1, got + 1))
     IN \/ complete /\ pc' = "draining"
        \/ (complete => got + 1 < Len(line)) /\ pc' = "reading"
  /\ UNCHANGED <<file, reply, noise, line, rsp, tags, is_kf_flag, offset, stop>>

\* The second read writes what has come since over the start of the buffer;
\* then the line ends are removed.
Drain ==
  /\ pc = "draining"
  /\ \E n \in 0..Len(line) - got :
       LET all == SubSeq(line, got + 1, got + n) \o SubSeq(buffer, n + 1, got)
           text == remove_symb_from_start(remove_symb(all, CR), NL)
       IN /\ got' = got + n
          /\ IF EndsInBuffer(text, NL)
             THEN buffer' = remove_symb_from_end(text, NL) /\ pc' = "parsing"
             ELSE buffer' = text /\ pc' = "undefined"
  /\ UNCHANGED <<file, reply, noise, line, rsp, tags, is_kf_flag, offset, stop>>

-----------------------------------------------------------------------------
(* get_cgla_response *)

\* Where the tag stands in the text, -1 when it is not there (strstr).
TagAt ==
  LET hits == {k \in 0..Len(Text(buffer)) - 4 : SubSeq(buffer, k + 1, k + 4) = cgla_tag}
  IN IF hits = {} THEN -1 ELSE Min(hits)

\* The first comma after position i, be it behind the text, -1 for none.
CommaAfter(i) ==
  LET hits == {k \in i..Len(buffer) - 1 : At(buffer, k) = Comma}
  IN IF hits = {} THEN -1 ELSE Min(hits)

\* Mutant: only the low byte of the status is compared.
is_low_byte_ok == rsp.sw % 256 = 0

is_rsp_status_ok == rsp.sw = \h9000

HasHeader ==
  TagAt # -1 /\ At(buffer, TagAt + 4) = Colon /\ At(buffer, TagAt + 5) = Space

LengthEnds == CommaAfter(TagAt + 6)
IsQuoted == LengthEnds # -1 /\ At(buffer, LengthEnds + 1) = Quote

\* The length of the data in digits, that of the status included.
response_size ==
  FoldLeft(LAMBDA n, c : 10 * n + get_digit(c), 0,
           SubSeq(buffer, TagAt + 7, LengthEnds))

\* APDU_RSP_BUFFER_SIZE, in digits and with the status.
FitsRsp(n) == n \in 4..2 * 600 + 4

\* It returns 1; no caller but the one of GET CHALLENGE looks, and apdu_rsp is
\* what it was.
ParseFails ==
  /\ pc = "parsing"
  /\ ~ HasHeader \/ (LengthEnds # -1 /\ ~ IsQuoted)
  /\ pc' = "checking" /\ UNCHANGED rsp

\* It looks for the comma behind the buffer, or counts data that is not there.
ParseRunsOff ==
  /\ pc = "parsing" /\ HasHeader
  /\ LengthEnds = -1 \/ (IsQuoted /\ ~ FitsRsp(response_size))
  /\ pc' = "undefined" /\ UNCHANGED rsp

\* As many digits as the length says, wherever the text ends.
ParseData ==
  /\ pc = "parsing" /\ HasHeader /\ IsQuoted /\ FitsRsp(response_size)
  /\ LET byte(i) == get_byte_from_hex(buffer, LengthEnds + 2 + i)
         size == response_size
     IN rsp' = [sw |-> 256 * byte(size - 4) + byte(size - 2),
                rsp |-> [k \in 1..(size - 4) \div 2 |-> byte(2 * (k - 1))]]
  /\ pc' = "checking"

get_cgla_response ==
  /\ ParseFails \/ ParseRunsOff \/ ParseData
  /\ UNCHANGED <<file, reply, noise, line, got, buffer, tags, is_kf_flag, offset, stop>>

\* do_select_files_cur_dir, do_read_data_from_bf_file: the tags are looked at
\* only when the status is 9000.
CheckStatus ==
  /\ pc = "checking"
  /\ pc' = IF is_rsp_status_ok THEN "walking" ELSE "failed"
  /\ UNCHANGED <<file, reply, noise, line, got, buffer, rsp, tags, is_kf_flag, offset, stop>>

-----------------------------------------------------------------------------
(* config_fcp_dscr *)

TagByte == At(rsp.rsp, offset)
TagSize == At(rsp.rsp, offset + 1)
Value == [k \in 1..TagSize |-> At(rsp.rsp, offset + 1 + k)]

\* Mutant: the value of every tag is skipped, that of 0x62 too.
SkipsTemplate ==
  /\ pc = "walking" /\ offset < Len(rsp.rsp)
  /\ tags' = IF TagByte \in TopTags THEN [tags EXCEPT ![TagByte] = Value] ELSE tags
  /\ is_kf_flag' = IF TagByte = \h82 THEN At(rsp.rsp, offset + 2) \in {\h11, \h51}
                   ELSE is_kf_flag
  /\ offset' = IF TagByte = \hA5 THEN offset + 2 ELSE offset + 2 + TagSize
  /\ stop' = IF TagByte = \hA5 THEN offset + 2 + TagSize ELSE stop
  /\ pc' = IF TagByte = \hA5 THEN "in_A5" ELSE "walking"
  /\ UNCHANGED <<file, reply, noise, line, got, buffer, rsp>>

\* One turn of the loop.  The tags inside 0x62 are tags of this loop; those of
\* a key file inside 0xA5 can be told from others only once 0x82 was seen.
NextTag ==
  /\ pc = "walking" /\ offset < Len(rsp.rsp)
  /\ tags' = IF TagByte \in TopTags THEN [tags EXCEPT ![TagByte] = Value] ELSE tags
  /\ is_kf_flag' = IF TagByte = \h82 THEN At(rsp.rsp, offset + 2) \in {\h11, \h51}
                   ELSE is_kf_flag
  /\ offset' = IF TagByte \in {\h62, \hA5} THEN offset + 2 ELSE offset + 2 + TagSize
  /\ stop' = IF TagByte = \hA5 THEN offset + 2 + TagSize ELSE stop
  /\ pc' = IF TagByte = \hA5 THEN "in_A5" ELSE "walking"
  /\ UNCHANGED <<file, reply, noise, line, got, buffer, rsp>>

\* One turn of config_0xA5_KF_dscr or config_0xA5_BF_FRF_CRF.
NextInnerTag ==
  /\ pc = "in_A5" /\ offset < stop
  /\ LET slot == IF is_kf_flag THEN InKey(TagByte) ELSE InOther(TagByte)
     IN tags' = IF slot \in Slots THEN [tags EXCEPT ![slot] = Value] ELSE tags
  /\ offset' = offset + 2 + TagSize
  /\ UNCHANGED <<file, reply, noise, line, got, buffer, pc, rsp, is_kf_flag, stop>>

EndOfInnerTags ==
  /\ pc = "in_A5" /\ offset >= stop
  /\ pc' = "walking" /\ offset' = stop
  /\ UNCHANGED <<file, reply, noise, line, got, buffer, rsp, tags, is_kf_flag, stop>>

EndOfTags ==
  /\ pc = "walking" /\ offset >= Len(rsp.rsp)
  /\ pc' = "done"
  /\ UNCHANGED <<file, reply, noise, line, got, buffer, rsp, tags, is_kf_flag, offset, stop>>

Next ==
  \/ Read \/ Drain
  \/ get_cgla_response \/ CheckStatus
  \/ NextTag \/ NextInnerTag \/ EndOfInnerTags \/ EndOfTags

Spec == Init /\ [][Next]_vars

-----------------------------------------------------------------------------
Parsed == pc \in {"walking", "in_A5", "done"} /\ rsp # Earlier

\* An answer that passes for 9000 is the whole answer of the element, however
\* it was cut, whatever stood before it and whatever the second read wrote over
\* the buffer: what is missing reads as digits 0, and the status comes last.
OkIsWhole == Parsed => reply = "fcp" /\ rsp.rsp \in Answered(file)

\* What config_fcp_dscr finds in the answer is what the file was created with:
\* get_list_of_registered_users and get_list_of_user_bf_files tell files apart
\* by it, and do_read_data_from_bf_file takes the size of the file from it.
TagsComeBack ==
  pc = "done" /\ Parsed =>
    /\ is_df_md_file_type(tags) <=> file.type = "df"
    /\ is_bf_file_type(tags) <=> file.type = "bf"
    /\ get_fid(tags) = file.fid
    /\ file.type \in {"efarr", "bf"} => get_file_size(tags) = file.file_size
    /\ file.type = "kf" => /\ tags[InKey(\h87)] = <<file.key_id>>
                           /\ tags[InKey(\h8B)] = <<\h81, 1, file.kf_flags>>

\* Neither loop over tags reads a byte behind the answer, or behind its 0xA5.
StaysInside ==
  /\ offset <= Len(rsp.rsp)
  /\ pc = "in_A5" => offset <= stop /\ stop <= Len(rsp.rsp)

\* read_message tells ERROR from answers that are full of the letter E.  Once
\* ERROR and its line end have been read it waits no longer, unless a text before
\* it had the letters E, R in this order; and an answer is cut short as an ERROR
\* only when some text before it has the letter R.
ErrorIsTold ==
  /\ reply = "error" /\ pc = "reading" /\ got = Len(line) =>
       \E j, k \in DOMAIN noise : j < k /\ noise[j] = 69 /\ noise[k] = 82
  /\ pc # "reading" /\ reply # "error" /\ (\A k \in DOMAIN noise : noise[k] # 82) =>
       count_lines(SubSeq(line, 1, got)) >= num_response_lines

\* The client leaves its buffer only after five line ends or more of other text.
NoRunaway == pc = "undefined" => count_lines(noise) >= 5
=============================================================================
