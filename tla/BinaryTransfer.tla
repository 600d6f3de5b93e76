--------------------------- MODULE BinaryTransfer ---------------------------
(***************************************************************************)
(* The bytes of a binary file on their way to the element and back: the    *)
(* loops of do_write_data_into_bf_file and do_read_data_from_bf_file       *)
(* (src/src/at_commands.c) with the widths of their numbers.  The caller's *)
(* size is a size_t; the FCP and the offset of an APDU have 16 bits; the   *)
(* top bit of P1 makes the element look for another file.  SecStorage has  *)
(* the same loops over whole chunks.                                       *)
(*                                                                         *)
(* A byte is the position it has in the caller's data, Unwritten where the *)
(* element's file holds none of it, Foreign when it is a byte of an FCP.   *)
(***************************************************************************)
EXTENDS Integers

CONSTANTS Word,      \* 2^16
          Half,      \* 2^15: offsets from here on set the top bit of P1
          Chunk,     \* BINARY_FILE_CHUNK
          FcpSize,   \* bytes of the FCP a SELECT answers with
          MaxSize,   \* bound on the sizes the caller asks for
          MaxFaults  \* bound on refused commands and lost answers

ASSUME TransferAssumption ==
  /\ Word \in Nat /\ Half \in Nat /\ Chunk \in Nat /\ FcpSize \in Nat
  /\ MaxSize \in Nat /\ MaxFaults \in Nat
  /\ 0 < Half /\ Half < Word
  /\ 0 < Chunk /\ FcpSize <= Chunk

VARIABLES pc,
          size,    \* data_size of the call that created the file
          length,  \* length of the element's file, -1 when there is none
          file,    \* its bytes
          offset,
          count,   \* *data_size of the read
          out,     \* the caller's buffer, and what lies behind it
          rsp,     \* apdu_rsp: what its bytes are, and how many
          faults

vars == <<pc, size, length, file, offset, count, out, rsp, faults>>

Unwritten == -1
Foreign == -2
Bytes == {Unwritten, Foreign} \cup 0..MaxSize - 1
Positions == 0..Word + Chunk
NoBytes == [k \in Positions |-> Unwritten]

\* The bytes of apdu_rsp: those of the element's file from a position on, or
\* those of its FCP.
Rsps == [fcp : BOOLEAN, bytes : [Positions -> Bytes], size : 0..Chunk]
Fcp == [fcp |-> TRUE, bytes |-> [k \in Positions |-> Foreign], size |-> FcpSize]
NoRsp == [fcp |-> FALSE, bytes |-> NoBytes, size |-> 0]

TypeOK ==
  /\ pc \in {"idle", "select", "update", "written", "refused",
             "select_fcp", "read_binary", "read", "unread"}
  /\ size \in 0..MaxSize /\ length \in -1..Word - 1
  /\ file \in [Positions -> Bytes]
  /\ offset \in 0..MaxSize + Word
  /\ count \in 0..Word - 1
  /\ out \in [Positions -> Bytes]
  /\ rsp \in Rsps
  /\ faults \in 0..MaxFaults

Init ==
  /\ pc = "idle" /\ size = 0 /\ length = -1 /\ file = NoBytes
  /\ offset = 0 /\ count = 0 /\ out = NoBytes /\ rsp = NoRsp
  /\ faults = 0

-----------------------------------------------------------------------------
Fault == faults < MaxFaults /\ faults' = faults + 1

Smaller(a, b) == IF a <= b THEN a ELSE b

\* READ and UPDATE BINARY of n bytes at offset o: within the file, and not in
\* another one.
Accepts(o, n) == o < Half /\ o + n <= length

\* The offset of an APDU is a uint16_t.
Offset16 == offset % Word

\* Mutant: the size in the FCP is not cut.
Uncut(s) == s

\* The size in the FCP is a uint16_t.
FileLength(s) == s % Word

\* do_create_bf_file; a lost answer leaves the 9000 of VERIFY.
Create ==
  /\ pc = "idle" /\ length = -1
  /\ size' \in 0..MaxSize
  /\ LET Made == length' = FileLength(size') IN
       \/ Made /\ pc' = "select" /\ UNCHANGED faults
       \/ Fault /\ pc' = "refused" /\ UNCHANGED length
       \/ Fault /\ pc' = "select" /\ (Made \/ UNCHANGED length)
  /\ rsp' = NoRsp
  /\ UNCHANGED <<file, offset, count, out>>

\* The SELECT before the loop; a lost answer leaves the 9000 of the creation.
Select ==
  /\ pc = "select"
  /\ LET next == IF 0 < size THEN "update" ELSE "written" IN
       \/ length # -1 /\ pc' = next /\ UNCHANGED faults
       \/ length = -1 /\ pc' = "refused" /\ UNCHANGED faults
       \/ Fault /\ pc' \in {next, "refused"}
  /\ UNCHANGED <<size, length, file, offset, count, out, rsp>>

WriteLength == Smaller(Chunk, size - offset)

Updated == [k \in Positions |->
              IF Offset16 <= k /\ k < Offset16 + WriteLength
              THEN k - Offset16 + offset ELSE file[k]]

\* Mutant: the last chunk is not cut to what is left.
FullChunks ==
  /\ pc = "update"
  /\ offset' = offset + Chunk
  /\ IF Accepts(Offset16, Chunk)
     THEN /\ file' = Updated
          /\ pc' = IF offset' < size THEN "update" ELSE "written"
     ELSE pc' = "refused" /\ UNCHANGED file
  /\ UNCHANGED <<size, length, count, out, rsp, faults>>

\* Mutant: the offset in the APDU is in chunks.
OffsetInChunks ==
  /\ pc = "update"
  /\ offset' = offset + WriteLength
  /\ IF Accepts(offset \div Chunk, WriteLength)
     THEN /\ file' = [k \in Positions |->
                        IF k \in (offset \div Chunk)..(offset \div Chunk) + WriteLength - 1
                        THEN k - offset \div Chunk + offset ELSE file[k]]
          /\ pc' = IF offset' < size THEN "update" ELSE "written"
     ELSE pc' = "refused" /\ UNCHANGED file
  /\ UNCHANGED <<size, length, count, out, rsp, faults>>

\* One turn of the writing loop.  After a lost answer it goes on with the 9000
\* of the command before, whether or not the chunk was written.
Update ==
  /\ pc = "update"
  /\ offset' = offset + WriteLength
  /\ LET next == IF offset' < size THEN "update" ELSE "written"
         ok == Accepts(Offset16, WriteLength)
     IN \/ ok /\ file' = Updated /\ pc' = next /\ UNCHANGED faults
        \/ ~ ok /\ pc' = "refused" /\ UNCHANGED <<file, faults>>
        \/ /\ Fault /\ pc' \in {next, "refused"}
           /\ UNCHANGED file \/ (ok /\ pc' = next /\ file' = Updated)
  /\ UNCHANGED <<size, length, count, out, rsp>>

-----------------------------------------------------------------------------
\* read_bf_file at any time, on a file that has been torn as well.  The answers
\* to SELECT and VERIFY before it empty apdu_rsp, unless they are lost.
Read ==
  /\ pc = "idle" /\ length # -1
  /\ pc' = "select_fcp"
  /\ \/ rsp' = NoRsp /\ UNCHANGED faults
     \/ Fault /\ UNCHANGED rsp
  /\ UNCHANGED <<size, length, file, offset, count, out>>

Reading(n) == IF 0 < n THEN "read_binary" ELSE "read"

\* *data_size comes from the FCP; when the answer is lost, from whatever
\* apdu_rsp holds (the process dies when that has no tag 0x80: Crash).
SelectFcp ==
  /\ pc = "select_fcp"
  /\ \/ /\ rsp' = Fcp /\ count' = length /\ pc' = Reading(length)
        /\ UNCHANGED faults
     \/ Fault /\ pc' = "unread" /\ UNCHANGED <<rsp, count>>
     \/ /\ Fault /\ rsp.size > 0 /\ UNCHANGED rsp
        /\ count' \in (IF rsp.fcp THEN {length} ELSE 0..Word - 1)
        /\ pc' = Reading(count')
  /\ UNCHANGED <<size, length, file, offset, out>>

ReadLength == Smaller(Chunk, count - offset)

Answer == [fcp |-> FALSE, size |-> ReadLength,
           bytes |-> [k \in Positions |->
                        IF k < ReadLength THEN file[Offset16 + k] ELSE Unwritten]]

\* Mutant: the answer's status word is copied with it.
CopiesStatus(r) == [k \in Positions |->
                    IF offset <= k /\ k < offset + r.size + 2 THEN Foreign ELSE out[k]]

\* memcpy(data + offset, apdu_rsp.rsp, apdu_rsp.size)
Copied(r) == [k \in Positions |->
                IF offset <= k /\ k < offset + r.size THEN r.bytes[k - offset] ELSE out[k]]

\* Mutant: the offset advances by the size of a chunk before the copy.
ReadAhead ==
  /\ pc = "read_binary"
  /\ offset' = offset + ReadLength
  /\ LET next == IF offset' < count THEN "read_binary" ELSE "read"
         ok == Accepts(Offset16, ReadLength)
     IN \/ /\ ok /\ rsp' = Answer
           /\ out' = [k \in Positions |->
                        IF offset' <= k /\ k < offset' + ReadLength
                        THEN rsp'.bytes[k - offset'] ELSE out[k]]
           /\ pc' = next /\ UNCHANGED faults
        \/ ~ ok /\ pc' = "unread" /\ UNCHANGED <<rsp, out, faults>>
  /\ UNCHANGED <<size, length, file, count>>

\* One turn of the reading loop.  After a lost answer the bytes of an earlier
\* one are copied, as many as it had.
ReadBinary ==
  /\ pc = "read_binary"
  /\ offset' = offset + ReadLength
  /\ LET next == IF offset' < count THEN "read_binary" ELSE "read"
         ok == Accepts(Offset16, ReadLength)
     IN \/ /\ ok /\ rsp' = Answer /\ out' = Copied(Answer)
           /\ pc' = next /\ UNCHANGED faults
        \/ ~ ok /\ pc' = "unread" /\ UNCHANGED <<rsp, out, faults>>
        \/ Fault /\ pc' = "unread" /\ UNCHANGED <<rsp, out>>
        \/ Fault /\ UNCHANGED rsp /\ out' = Copied(rsp) /\ pc' = next
  /\ UNCHANGED <<size, length, file, count>>

-----------------------------------------------------------------------------
\* The call returns to its caller.
Return ==
  /\ pc \in {"written", "refused", "read", "unread"}
  /\ pc' = "idle" /\ out' = NoBytes /\ count' = 0 /\ offset' = 0
  /\ UNCHANGED <<size, length, file, rsp, faults>>

\* The process dies; its static apdu_rsp with it.
Crash ==
  /\ pc # "idle" /\ Fault
  /\ pc' = "idle" /\ offset' = 0 /\ count' = 0 /\ out' = NoBytes /\ rsp' = NoRsp
  /\ UNCHANGED <<size, length, file>>

\* delete_bf_file
Delete ==
  /\ pc = "idle" /\ length # -1
  /\ length' = -1 /\ file' = NoBytes /\ size' = 0 /\ rsp' = NoRsp
  /\ UNCHANGED <<pc, offset, count, out, faults>>

Next ==
  \/ Create \/ Select \/ Update
  \/ Read \/ SelectFcp \/ ReadBinary
  \/ Return \/ Crash \/ Delete

Spec == Init /\ [][Next]_vars

-----------------------------------------------------------------------------
\* When create_bf_file has written without a fault the file on the element has
\* the size the caller asked for, whatever that was, and holds the caller's
\* bytes, each where it belongs: a size of 2^16 and more, which is cut in the
\* FCP, and offsets that leave the file never pass for a success.
WrittenIsWhole ==
  pc = "written" /\ faults = 0 =>
    /\ length = size
    /\ \A k \in 0..size - 1 : file[k] = k

\* Files of up to 2^15 bytes are never refused for their size: the offsets of
\* all their chunks keep the top bit of P1 free.  The largest file of
\* create_delete_file_test_2 has just that size.
SmallFilesFit ==
  pc \in {"refused", "unread"} /\ faults = 0 => Half < size

\* A read without a fault has copied the element's file, byte for byte, and
\* nothing behind data_size.
ReadIsExact ==
  pc = "read" /\ faults = 0 =>
    /\ count = length
    /\ \A k \in Positions : out[k] = IF k < count THEN file[k] ELSE Unwritten

\* Whatever is lost or refused, a read writes less than a chunk behind the
\* data_size it returns, although it copies as many bytes as the answer in
\* apdu_rsp had and not as many as it asked for.
OverrunIsBounded ==
  pc \in {"read_binary", "read"} =>
    \A k \in Positions : count + Chunk - 1 <= k => out[k] = Unwritten
=============================================================================
