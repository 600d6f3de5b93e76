---------------------------- MODULE FileControl ----------------------------
(***************************************************************************)
(* The file control parameters (FCP) that do_create_df, _efarr_file,       *)
(* _kf_file and _bf_file of src/src/at_commands.c build for CREATE FILE,   *)
(* and what src/src/fcp_parser.c says of the ones a SELECT answers with.   *)
(* A byte is a number below 256, a tag the sequence of its bytes.          *)
(***************************************************************************)
EXTENDS Integers, SequencesExt

Byte == 0..255

\* A tag with its length and value; two bytes of a number; the byte a number is
\* cut to.
Tlv(tag, value) == <<tag, Len(value)>> \o value
Word(n) == <<n \div 256, n % 256>>
Cut(n) == n % 256

Fid(d) == Tlv(\h83, Word(d.fid))
LifeCycle(d) == Tlv(\h8A, <<d.life_cycle_state>>)
AccessRules(d) == Tlv(\h8B, Word(d.efarr_fid) \o <<d.efarr_line_number>>)

\* The tags of the four kinds of file, each with the length its 0x62 names.
do_create_df(d) ==
  [length |-> \h10,
   tags |-> <<Tlv(\h82, <<\h38, \h21>>), Fid(d), LifeCycle(d), AccessRules(d)>>]

\* The low byte of the size is taken modulo 2256.
do_create_efarr_file(d) ==
  [length |-> \h19,
   tags |-> <<Tlv(\h80, <<d.file_size \div 256, Cut(d.file_size % 2256)>>),
              Tlv(\h82, <<\h02, \h21, 0, d.record_size>>), Fid(d),
              Tlv(\h88, <<d.sfi>>), LifeCycle(d), AccessRules(d)>>]

KeyTags(d) ==
  Tlv(\h85, <<d.key_algo>>) \o Tlv(\h86, Word(Cut(d.key_purpose)))
    \o Tlv(\h87, <<d.key_id>>) \o Tlv(\h8B, <<\h81, \h01, d.kf_flags>>)

\* Mutant: the length of the key's tag counts its own header.
LongKeyTag(d) ==
  [length |-> \h21,
   tags |-> <<Tlv(\h82, <<\h51, \h21>>), Fid(d), LifeCycle(d), AccessRules(d),
              <<\hA5, \h11>> \o KeyTags(d)>>]

do_create_kf_file(d) ==
  [length |-> \h21,
   tags |-> <<Tlv(\h82, <<\h51, \h21>>), Fid(d), LifeCycle(d), AccessRules(d),
              <<\hA5, \h0F>> \o KeyTags(d)>>]

do_create_bf_file(d) ==
  [length |-> \h14,
   tags |-> <<Tlv(\h80, Word(d.file_size)), Tlv(\h82, <<\h01, \h21>>), Fid(d),
              LifeCycle(d), AccessRules(d)>>]

CreateFcp(d) ==
  CASE d.type = "df" -> do_create_df(d)
    [] d.type = "efarr" -> do_create_efarr_file(d)
    [] d.type = "kf" -> do_create_kf_file(d)
    [] d.type = "bf" -> do_create_bf_file(d)

-----------------------------------------------------------------------------
(* struct FcpDscr: the values of the tags, << >> for a tag that is missing.  *)

\* A tag of the 0xA5 of a key file, and of another file.
InKey(tag) == \hA500 + tag
InOther(tag) == \hB500 + tag

TopTags == {\h80, \h82, \h83, \h84, \h88, \h8A, \h8B}
KeyFileTags == {\h85, \h86, \h87, \h89, \h8B, \h8E}
Slots == TopTags \cup {InKey(t) : t \in KeyFileTags} \cup {InOther(\h81)}

init_fcp_dscr == [s \in Slots |-> << >>]

is_df_md_file_type(dscr) == dscr[\h82] # << >> /\ dscr[\h82][1] \in {\h38, \h78}
is_bf_file_type(dscr) == dscr[\h82] # << >> /\ dscr[\h82][1] \in {\h01, \h41}

Number(value) == IF value = << >> THEN 0 ELSE value[1] * 256 + value[2]
get_fid(dscr) == Number(dscr[\h83])
get_file_size(dscr) == Number(dscr[\h80])
=============================================================================
