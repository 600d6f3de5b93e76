----------------------- MODULE BinaryTransfer_proofs -----------------------
(***************************************************************************)
(* Proofs about BinaryTransfer for every width of a number, every size of  *)
(* a chunk and of a file, and any number of faults.                        *)
(*                                                                         *)
(* The offset of an APDU is cut to 16 bits, the bound of the loop is not:  *)
(* what the loop keeps is that, as long as nothing has failed, the bytes   *)
(* below offset are in place and offset is within the length of the file,  *)
(* which is below 2^16, so that the cut changes nothing.                   *)
(***************************************************************************)
EXTENDS BinaryTransfer, TLAPS

\* Where the loops stand: they start at offset 0, they turn only while there is
\* something left, and a file is selected before its FCP is read.
Turning ==
  /\ pc \in {"idle", "select", "select_fcp"} => offset = 0
  /\ pc = "update" => offset < size
  /\ pc = "read_binary" => offset < count
  /\ pc = "select_fcp" => length # -1

TypeInv == TypeOK /\ Turning

\* A read starts with nothing copied.
FreshBuffer == pc \in {"idle", "select_fcp"} => out = NoBytes

\* The element's file has the length of its FCP.
LengthIsCut == length # -1 => length = FileLength(size)

\* The writing loop without a fault: the file exists, and the bytes below
\* offset are the caller's.
WrittenSoFar ==
  faults = 0 =>
    /\ pc \in {"select", "update"} => length # -1
    /\ pc = "update" => offset <= length /\ \A k \in 0..offset - 1 : file[k] = k

\* The reading loop without a fault: the bytes below offset are the file's.
ReadSoFar ==
  pc = "read_binary" /\ faults = 0 =>
    /\ count = length
    /\ \A k \in Positions : out[k] = IF k < offset THEN file[k] ELSE Unwritten

TransferInv ==
  /\ TypeInv /\ FreshBuffer /\ LengthIsCut
  /\ WrittenSoFar /\ WrittenIsWhole
  /\ ReadSoFar /\ ReadIsExact
  /\ SmallFilesFit /\ OverrunIsBounded

-----------------------------------------------------------------------------
\* What % Word does to a natural number: it changes none below Word.
LEMMA Cut ==
  ASSUME NEW a \in Nat
  PROVE /\ a % Word \in 0..Word - 1
        /\ a < Word => a % Word = a
        /\ a % Word <= a
<1>1. a % Word \in 0..Word - 1
  BY TransferAssumption
<1>2. a < Word => a % Word = a
  BY TransferAssumption
<1>3. a % Word <= a
  BY <1>1, <1>2, TransferAssumption
<1>. QED
  BY <1>1, <1>2, <1>3

\* The offset an APDU carries is a position of the file.
LEMMA OffsetType ==
  ASSUME TypeOK
  PROVE  /\ offset \in Nat /\ Offset16 \in 0..Word - 1
         /\ offset < Word => Offset16 = offset
<1>1. offset \in Nat
  BY TransferAssumption DEF TypeOK
<1>. QED
  BY <1>1, Cut DEF Offset16

\* A chunk has a byte at least, and not more than are left.
LEMMA WriteLengthType ==
  ASSUME TypeOK, offset < size
  PROVE  WriteLength \in 1..Chunk /\ offset + WriteLength <= size
BY TransferAssumption DEF TypeOK, WriteLength, Smaller

\* The same of a chunk that is read.
LEMMA ReadLengthType ==
  ASSUME TypeOK, offset < count
  PROVE  ReadLength \in 1..Chunk /\ offset + ReadLength <= count
BY TransferAssumption DEF TypeOK, ReadLength, Smaller

\* A file, or a buffer, without any of the caller's bytes.
LEMMA NoBytesType == NoBytes \in [Positions -> Bytes]
BY DEF NoBytes, Bytes

\* The bytes of a chunk are bytes of the caller's data.
LEMMA UpdatedType ==
  ASSUME TypeOK, offset < size
  PROVE  Updated \in [Positions -> Bytes]
<1>. SUFFICES ASSUME NEW k \in Positions,
                     Offset16 <= k, k < Offset16 + WriteLength
              PROVE  k - Offset16 + offset \in 0..MaxSize - 1
  BY DEF Updated, TypeOK, Bytes
<1>. QED
  BY OffsetType, WriteLengthType, TransferAssumption DEF TypeOK, Positions

\* What the element answers to READ BINARY fits apdu_rsp.
LEMMA AnswerType ==
  ASSUME TypeOK, offset < count
  PROVE  Answer \in Rsps
<1>1. ASSUME NEW k \in Positions, k < ReadLength
      PROVE  Offset16 + k \in Positions
  BY <1>1, OffsetType, ReadLengthType, TransferAssumption DEF Positions
<1>2. [k \in Positions |-> IF k < ReadLength THEN file[Offset16 + k] ELSE Unwritten]
        \in [Positions -> Bytes]
  BY <1>1 DEF TypeOK, Bytes
<1>3. ReadLength \in 0..Chunk
  BY ReadLengthType, TransferAssumption
<1>. QED
  BY <1>2, <1>3 DEF Answer, Rsps

\* The caller's buffer after the copy of any answer, an old one included.
LEMMA CopiedType ==
  ASSUME TypeOK, offset < count, NEW r \in Rsps
  PROVE  Copied(r) \in [Positions -> Bytes]
<1>1. r.bytes \in [Positions -> Bytes] /\ r.size \in 0..Chunk
  BY DEF Rsps
<1>2. ASSUME NEW k \in Positions, offset <= k, k < offset + r.size
      PROVE  k - offset \in Positions
  BY <1>1, <1>2, OffsetType, TransferAssumption DEF Positions
<1>. QED
  BY <1>1, <1>2 DEF Copied, TypeOK

\* An empty apdu_rsp, and one with an FCP.
LEMMA RspTypes == NoRsp \in Rsps /\ Fcp \in Rsps
BY NoBytesType, TransferAssumption DEF NoRsp, Fcp, Rsps, Bytes

-----------------------------------------------------------------------------
\* The type invariant, and that a loop turns only while bytes are left, at
\* the start.
LEMMA TypeInit == Init => TypeInv
<1>. SUFFICES ASSUME Init PROVE TypeInv
  OBVIOUS
<1>1. TypeOK
  BY NoBytesType, RspTypes, TransferAssumption DEF Init, TypeOK
<1>2. Turning
  BY DEF Init, Turning
<1>. QED
  BY <1>1, <1>2 DEF TypeInv

\* A fault is counted, and there is room for it.
LEMMA FaultType ==
  ASSUME TypeOK, Fault
  PROVE  faults' \in 0..MaxFaults /\ faults' # 0
BY TransferAssumption DEF TypeOK, Fault

\* The step of the type invariant, one case for each action.
LEMMA TypeStep == TypeInv /\ [Next]_vars => TypeInv'
<1>. SUFFICES ASSUME TypeInv, [Next]_vars PROVE TypeInv'
  OBVIOUS
<1>t. TypeOK /\ Turning
  BY DEF TypeInv
<1>f. faults' = faults \/ Fault => faults' \in 0..MaxFaults
  BY <1>t, FaultType DEF TypeOK
<1>1. CASE Create
  <2>1. length' \in -1..Word - 1
    BY <1>1, <1>t, Cut, TransferAssumption DEF Create, TypeOK, FileLength
  <2>2. pc' \in {"select", "refused"} /\ size' \in 0..MaxSize /\ rsp' \in Rsps
        /\ (faults' = faults \/ Fault)
    BY <1>1, RspTypes DEF Create
  <2>. QED
    BY <1>1, <1>t, <1>f, <2>1, <2>2 DEF Create, TypeInv, TypeOK, Turning
<1>2. CASE Select
  <2>1. /\ pc' \in {"update", "written", "refused"}
        /\ pc' = "update" => 0 < size
        /\ faults' = faults \/ Fault
    BY <1>2 DEF Select
  <2>2. pc' = "update" => offset < size
    BY <1>2, <1>t, <2>1 DEF Select, Turning
  <2>. QED
    BY <1>2, <1>t, <1>f, <2>1, <2>2 DEF Select, TypeInv, TypeOK, Turning
<1>3. CASE Update
  <2>1. /\ pc' \in {"update", "written", "refused"}
        /\ pc' = "update" => offset' < size
        /\ faults' = faults \/ Fault
        /\ file' = file \/ file' = Updated
        /\ offset < size /\ offset' = offset + WriteLength
    BY <1>3, <1>t DEF Update, Turning
  <2>2. file' \in [Positions -> Bytes]
    BY <1>t, <2>1, UpdatedType DEF TypeOK
  <2>3. offset' \in 0..MaxSize + Word
    BY <1>t, <2>1, WriteLengthType, OffsetType, TransferAssumption DEF TypeOK
  <2>. QED
    BY <1>3, <1>t, <1>f, <2>1, <2>2, <2>3 DEF Update, TypeInv, TypeOK, Turning
<1>4. CASE Read
  <2>1. rsp' \in Rsps /\ (faults' = faults \/ Fault)
    BY <1>4, <1>t, RspTypes DEF Read, TypeOK
  <2>. QED
    BY <1>4, <1>t, <1>f, <2>1 DEF Read, TypeInv, TypeOK, Turning
<1>5. CASE SelectFcp
  <2>1. length \in 0..Word - 1
    BY <1>5, <1>t, TransferAssumption DEF SelectFcp, Turning, TypeOK
  <2>2. /\ pc' \in {"read_binary", "read", "unread"}
        /\ pc' = "read_binary" => 0 < count'
        /\ rsp' \in Rsps /\ count' \in 0..Word - 1
        /\ faults' = faults \/ Fault
    BY <1>5, <1>t, <2>1, RspTypes DEF SelectFcp, Reading, TypeOK
  <2>. QED
    BY <1>5, <1>t, <1>f, <2>2 DEF SelectFcp, TypeInv, TypeOK, Turning
<1>6. CASE ReadBinary
  <2>1. /\ pc' \in {"read_binary", "read", "unread"}
        /\ pc' = "read_binary" => offset' < count
        /\ faults' = faults \/ Fault
        /\ offset < count /\ offset' = offset + ReadLength
        /\ rsp' = rsp \/ rsp' = Answer
        /\ out' = out \/ out' = Copied(Answer) \/ out' = Copied(rsp)
    BY <1>6, <1>t DEF ReadBinary, Turning
  <2>2. Answer \in Rsps /\ rsp \in Rsps
    BY <1>t, <2>1, AnswerType DEF TypeOK
  <2>3. rsp' \in Rsps /\ out' \in [Positions -> Bytes]
    BY <1>t, <2>1, <2>2, CopiedType DEF TypeOK
  <2>4. offset' \in 0..MaxSize + Word
    BY <1>t, <2>1, ReadLengthType, OffsetType, TransferAssumption DEF TypeOK
  <2>. QED
    BY <1>6, <1>t, <1>f, <2>1, <2>3, <2>4 DEF ReadBinary, TypeInv, TypeOK, Turning
<1>7. CASE Return
  BY <1>7, <1>t, NoBytesType, TransferAssumption DEF Return, TypeInv, TypeOK, Turning
<1>8. CASE Crash
  BY <1>8, <1>t, <1>f, NoBytesType, RspTypes, TransferAssumption
     DEF Crash, TypeInv, TypeOK, Turning
<1>9. CASE Delete
  BY <1>9, <1>t, NoBytesType, RspTypes, TransferAssumption
     DEF Delete, TypeInv, TypeOK, Turning
<1>10. CASE UNCHANGED vars
  BY <1>10, <1>t DEF vars, TypeInv, TypeOK, Turning
<1>. QED
  BY <1>1, <1>2, <1>3, <1>4, <1>5, <1>6, <1>7, <1>8, <1>9, <1>10 DEF Next

-----------------------------------------------------------------------------
\* The invariant of the transfer holds at the start.
LEMMA TransferInit == Init => TransferInv
<1>. SUFFICES ASSUME Init PROVE TransferInv
  OBVIOUS
<1>1. TypeInv
  BY TypeInit
<1>2. FreshBuffer /\ LengthIsCut /\ WrittenSoFar /\ ReadSoFar
  BY DEF Init, FreshBuffer, LengthIsCut, WrittenSoFar, ReadSoFar
<1>3. WrittenIsWhole /\ ReadIsExact /\ SmallFilesFit /\ OverrunIsBounded
  BY DEF Init, WrittenIsWhole, ReadIsExact, SmallFilesFit, OverrunIsBounded
<1>. QED
  BY <1>1, <1>2, <1>3 DEF TransferInv

\* A turn of the writing loop on a file without a fault so far: the chunk goes
\* where it belongs, and the file is never left while its size is at most 2^15.
LEMMA WriteTurn ==
  ASSUME TransferInv, Update, faults' = 0
  PROVE  /\ faults = 0 /\ length # -1 /\ Offset16 = offset
         /\ pc' # "refused" => /\ offset' <= length
                               /\ \A k \in 0..offset' - 1 : file'[k] = k
         /\ pc' = "refused" => Half < size
<1>t. TypeOK /\ offset < size
  BY DEF TransferInv, TypeInv, Turning, Update
<1>1. ~ Fault /\ faults = 0
  BY <1>t, FaultType DEF Update
<1>2. length # -1 /\ offset <= length /\ \A k \in 0..offset - 1 : file[k] = k
  BY <1>1 DEF TransferInv, WrittenSoFar, Update
<1>3. Offset16 = offset
  BY <1>t, <1>2, OffsetType, TransferAssumption DEF TypeOK
<1>4. WriteLength \in 1..Chunk /\ offset + WriteLength <= size
      /\ offset' = offset + WriteLength
  BY <1>t, WriteLengthType DEF Update
<1>5. CASE Accepts(Offset16, WriteLength)
  <2>1. file' = Updated /\ pc' # "refused"
    BY <1>1, <1>5 DEF Update
  <2>2. offset' <= length
    BY <1>3, <1>4, <1>5 DEF Accepts
  <2>3. ASSUME NEW k \in 0..offset' - 1 PROVE file'[k] = k
    <3>1. k \in Positions
      BY <1>t, <2>2, OffsetType, TransferAssumption, <1>4 DEF TypeOK, Positions
    <3>2. file'[k] = IF offset <= k /\ k < offset + WriteLength
                     THEN k - offset + offset ELSE file[k]
      BY <1>3, <2>1, <3>1 DEF Updated
    <3>. QED
      BY <1>t, <1>2, <1>4, <2>3, <3>2, OffsetType
  <2>. QED
    BY <1>1, <1>2, <1>3, <2>1, <2>2, <2>3
<1>6. CASE ~ Accepts(Offset16, WriteLength)
  <2>1. pc' = "refused"
    BY <1>1, <1>6 DEF Update
  <2>2. length = FileLength(size)
    BY <1>2 DEF TransferInv, LengthIsCut
  <2>3. size < Word => length = size
    BY <1>t, <2>2, Cut DEF TypeOK, FileLength
  <2>4. Half < size
    BY <1>t, <1>3, <1>4, <1>6, <2>3, OffsetType, TransferAssumption DEF Accepts, TypeOK
  <2>. QED
    BY <1>1, <1>2, <1>3, <2>1, <2>4
<1>. QED
  BY <1>5, <1>6

\* A turn of the reading loop without a fault so far.
LEMMA ReadTurn ==
  ASSUME TransferInv, ReadBinary, faults' = 0
  PROVE  /\ faults = 0 /\ count = length
         /\ pc' # "unread" =>
              \A k \in Positions :
                out'[k] = IF k < offset' THEN file[k] ELSE Unwritten
         /\ pc' = "unread" => Half < size
<1>t. TypeOK /\ offset < count
  BY DEF TransferInv, TypeInv, Turning, ReadBinary
<1>1. ~ Fault /\ faults = 0
  BY <1>t, FaultType DEF ReadBinary
<1>2. count = length
      /\ \A k \in Positions : out[k] = IF k < offset THEN file[k] ELSE Unwritten
  BY <1>1 DEF TransferInv, ReadSoFar, ReadBinary
<1>3. Offset16 = offset
  BY <1>t, OffsetType, TransferAssumption DEF TypeOK
<1>4. ReadLength \in 1..Chunk /\ offset + ReadLength <= count
      /\ offset' = offset + ReadLength
  BY <1>t, ReadLengthType DEF ReadBinary
<1>5. CASE Accepts(Offset16, ReadLength)
  <2>1. out' = Copied(Answer) /\ pc' # "unread"
    BY <1>1, <1>5 DEF ReadBinary
  <2>2. ASSUME NEW k \in Positions
        PROVE  out'[k] = IF k < offset' THEN file[k] ELSE Unwritten
    <3>1. CASE offset <= k /\ k < offset + ReadLength
      <4>1. k - offset \in Positions /\ k - offset < ReadLength
            /\ offset + (k - offset) = k
        BY <1>t, <1>4, <3>1, OffsetType, TransferAssumption DEF Positions
      <4>2. out'[k] = Answer.bytes[k - offset]
        BY <2>1, <3>1 DEF Copied, Answer
      <4>3. Answer.bytes[k - offset] = file[k]
        BY <1>3, <4>1 DEF Answer
      <4>4. k < offset'
        BY <1>4, <3>1
      <4>. QED
        BY <4>2, <4>3, <4>4
    <3>2. CASE ~ (offset <= k /\ k < offset + ReadLength)
      <4>1. out'[k] = out[k]
        BY <2>1, <3>2 DEF Copied, Answer
      <4>2. k < offset <=> k < offset'
        BY <1>t, <1>4, <3>2, OffsetType, TransferAssumption DEF Positions
      <4>. QED
        BY <1>2, <4>1, <4>2
    <3>. QED
      BY <3>1, <3>2
  <2>. QED
    BY <1>1, <1>2, <2>1, <2>2
<1>6. CASE ~ Accepts(Offset16, ReadLength)
  <2>1. pc' = "unread"
    BY <1>1, <1>6 DEF ReadBinary
  <2>2. length = FileLength(size)
    BY <1>t, <1>2, OffsetType, TransferAssumption DEF TransferInv, LengthIsCut, TypeOK
  <2>3. size < Word => length = size
    BY <1>t, <2>2, Cut DEF TypeOK, FileLength
  <2>4. Half < size
    BY <1>t, <1>2, <1>3, <1>4, <1>6, <2>3, OffsetType, TransferAssumption
       DEF Accepts, TypeOK
  <2>. QED
    BY <1>1, <1>2, <2>1, <2>4
<1>. QED
  BY <1>5, <1>6

\* What one copy writes ends less than a chunk behind the data_size.
LEMMA CopyEnds ==
  ASSUME TransferInv, offset < count, pc = "read_binary", NEW r \in Rsps,
         NEW k \in Positions, count + Chunk - 1 <= k
  PROVE  Copied(r)[k] = Unwritten
<1>t. TypeOK
  BY DEF TransferInv, TypeInv
<1>1. r.size \in 0..Chunk
  BY DEF Rsps
<1>2. ~ (k < offset + r.size)
  BY <1>t, <1>1, OffsetType, TransferAssumption DEF TypeOK, Positions
<1>3. out[k] = Unwritten
  BY DEF TransferInv, OverrunIsBounded
<1>. QED
  BY <1>2, <1>3 DEF Copied

-----------------------------------------------------------------------------
\* The invariant of the transfer over every step, one case for each action.
LEMMA TransferStep == TransferInv /\ [Next]_vars => TransferInv'
<1>. SUFFICES ASSUME TransferInv, [Next]_vars PROVE TransferInv'
  OBVIOUS
<1>t. TypeInv' /\ TypeOK /\ Turning
  BY TypeStep DEF TransferInv, TypeInv
<1>f. (Fault => faults' # 0) /\ faults \in Nat
  BY <1>t, FaultType, TransferAssumption DEF TypeOK
<1>p. /\ FreshBuffer /\ LengthIsCut /\ WrittenSoFar /\ WrittenIsWhole
      /\ ReadSoFar /\ ReadIsExact /\ SmallFilesFit /\ OverrunIsBounded
  BY DEF TransferInv
<1>. DEFINE Contents == /\ FreshBuffer /\ LengthIsCut
                        /\ WrittenSoFar /\ WrittenIsWhole
                        /\ ReadSoFar /\ ReadIsExact
                        /\ SmallFilesFit /\ OverrunIsBounded
<1>. SUFFICES Contents'
  BY <1>t DEF TransferInv
<1>1. CASE Create
  <2>1. pc' \in {"select", "refused"} /\ offset' = 0
        /\ (faults' = faults \/ Fault)
    BY <1>1, <1>t DEF Create, Turning
  <2>2. LengthIsCut'
    BY <1>1 DEF Create, LengthIsCut
  <2>3. faults' = 0 => pc' = "select" /\ length' = FileLength(size')
    BY <1>1, <1>f DEF Create
  <2>4. FileLength(size') # -1
    <3>1. size' \in Nat
      BY <1>1, TransferAssumption DEF Create
    <3>2. size' % Word \in 0..Word - 1
      BY ONLY <3>1, Cut
    <3>3. FileLength(size') = size' % Word
      BY DEF FileLength
    <3>. QED
      BY <3>2, <3>3, TransferAssumption
  <2>. QED
    BY <2>1, <2>2, <2>3, <2>4 DEF FreshBuffer, WrittenSoFar, WrittenIsWhole,
       ReadSoFar, ReadIsExact, SmallFilesFit, OverrunIsBounded
<1>2. CASE Select
  <2>1. /\ pc' \in {"update", "written", "refused"}
        /\ faults' = faults \/ Fault
        /\ UNCHANGED <<size, length, file, offset>>
        /\ offset = 0
    BY <1>2, <1>t DEF Select, Turning
  <2>2. faults' = 0 => faults = 0 /\ length # -1
                       /\ pc' = (IF 0 < size THEN "update" ELSE "written")
    BY <1>2, <1>f, <1>p DEF Select, WrittenSoFar
  <2>3. pc' = "written" /\ faults' = 0 => size = 0 /\ length = 0
    <3>. SUFFICES ASSUME pc' = "written", faults' = 0 PROVE size = 0 /\ length = 0
      OBVIOUS
    <3>1. size = 0
      BY <1>t, <2>2, TransferAssumption DEF TypeOK
    <3>2. length = FileLength(0)
      BY <1>p, <2>2, <3>1 DEF LengthIsCut
    <3>. QED
      BY <3>1, <3>2, Cut, TransferAssumption DEF FileLength
  <2>4. LengthIsCut' /\ WrittenSoFar' /\ WrittenIsWhole'
    BY <1>p, <1>t, <2>1, <2>2, <2>3, TransferAssumption
       DEF LengthIsCut, WrittenSoFar, WrittenIsWhole, FileLength, TypeOK
  <2>5. SmallFilesFit'
    BY <2>1, <2>2 DEF SmallFilesFit
  <2>. QED
    BY <2>1, <2>4, <2>5 DEF FreshBuffer, ReadSoFar, ReadIsExact, OverrunIsBounded
<1>3. CASE Update
  <2>1. /\ pc' \in {"update", "written", "refused"}
        /\ UNCHANGED <<size, length>>
        /\ pc' = "written" => ~ (offset' < size)
        /\ offset < size /\ offset' = offset + WriteLength
    BY <1>3, <1>t DEF Update, Turning
  <2>2. LengthIsCut'
    BY <1>p, <2>1 DEF LengthIsCut, FileLength
  <2>3. WrittenSoFar' /\ SmallFilesFit'
    BY <1>3, <2>1, WriteTurn DEF WrittenSoFar, SmallFilesFit
  <2>4. WrittenIsWhole'
    <3>. SUFFICES ASSUME pc' = "written", faults' = 0
                  PROVE  length = size /\ \A k \in 0..size - 1 : file'[k] = k
      BY <2>1 DEF WrittenIsWhole
    <3>1. offset' = size
      BY <1>t, <2>1, WriteLengthType, OffsetType, TransferAssumption DEF TypeOK
    <3>2. size <= length /\ length # -1 /\ \A k \in 0..size - 1 : file'[k] = k
      BY <1>3, <3>1, WriteTurn
    <3>3. length <= size
      BY <1>p, <1>t, <3>2, Cut, TransferAssumption DEF LengthIsCut, FileLength, TypeOK
    <3>. QED
      BY <1>t, <3>2, <3>3, TransferAssumption DEF TypeOK
  <2>. QED
    BY <2>1, <2>2, <2>3, <2>4 DEF FreshBuffer, ReadSoFar, ReadIsExact, OverrunIsBounded
<1>4. CASE Read
  <2>1. pc' = "select_fcp" /\ UNCHANGED <<size, length, file, offset, count, out>>
        /\ out = NoBytes /\ (faults' = faults \/ Fault)
    BY <1>4, <1>p DEF Read, FreshBuffer
  <2>. QED
    BY <1>p, <2>1 DEF FreshBuffer, LengthIsCut, FileLength, WrittenSoFar,
       WrittenIsWhole, ReadSoFar, ReadIsExact, SmallFilesFit, OverrunIsBounded
<1>5. CASE SelectFcp
  <2>1. /\ pc' \in {"read_binary", "read", "unread"}
        /\ UNCHANGED <<size, length, file, offset, out>>
        /\ out = NoBytes /\ offset = 0
        /\ faults' = faults \/ Fault
    BY <1>5, <1>p, <1>t DEF SelectFcp, Reading, FreshBuffer, Turning
  <2>2. faults' = 0 => /\ pc' # "unread" /\ count' = length
                       /\ pc' = "read" => ~ (0 < length)
    BY <1>5, <1>f DEF SelectFcp, Reading
  <2>3. \A k \in Positions : out[k] = Unwritten /\ ~ (k < 0) /\ k \in Int
    BY <2>1 DEF NoBytes, Positions
  <2>4. ReadSoFar' /\ ReadIsExact' /\ SmallFilesFit' /\ OverrunIsBounded'
    <3>1. ReadSoFar'
      BY <2>1, <2>2, <2>3 DEF ReadSoFar
    <3>2. ReadIsExact'
      <4>1. pc' = "read" /\ faults' = 0 => \A k \in Positions : ~ (k < count')
        BY <1>t, <2>2, <2>3, TransferAssumption DEF TypeOK, Positions
      <4>. QED
        BY <2>1, <2>2, <2>3, <4>1 DEF ReadIsExact
    <3>3. SmallFilesFit'
      BY <2>1, <2>2 DEF SmallFilesFit
    <3>4. OverrunIsBounded'
      BY <2>1, <2>3 DEF OverrunIsBounded
    <3>. QED
      BY <3>1, <3>2, <3>3, <3>4
  <2>. QED
    BY <1>p, <2>1, <2>4 DEF FreshBuffer, LengthIsCut, FileLength, WrittenSoFar,
       WrittenIsWhole
<1>6. CASE ReadBinary
  <2>1. /\ pc' \in {"read_binary", "read", "unread"}
        /\ UNCHANGED <<size, length, file, count>>
        /\ pc' = "read" => ~ (offset' < count)
        /\ pc = "read_binary" /\ offset < count /\ offset' = offset + ReadLength
        /\ out' = out \/ out' = Copied(Answer) \/ out' = Copied(rsp)
    BY <1>6, <1>t DEF ReadBinary, Turning
  <2>2. LengthIsCut'
    BY <1>p, <2>1 DEF LengthIsCut, FileLength
  <2>3. ReadSoFar' /\ SmallFilesFit'
    BY <1>6, <2>1, ReadTurn DEF ReadSoFar, SmallFilesFit
  <2>4. ReadIsExact'
    <3>1. pc' = "read" => offset' = count
      BY <1>t, <2>1, ReadLengthType, OffsetType, TransferAssumption DEF TypeOK
    <3>. QED
      BY <1>6, <2>1, <3>1, ReadTurn DEF ReadIsExact
  <2>5. OverrunIsBounded'
    <3>1. Answer \in Rsps /\ rsp \in Rsps
      BY <1>t, <2>1, AnswerType DEF TypeOK
    <3>. QED
      BY <1>p, <2>1, <3>1, CopyEnds DEF OverrunIsBounded
  <2>. QED
    BY <2>1, <2>2, <2>3, <2>4, <2>5 DEF FreshBuffer, WrittenSoFar, WrittenIsWhole
<1>7. CASE Return
  BY <1>7, <1>p DEF Return, FreshBuffer, LengthIsCut, FileLength, WrittenSoFar,
     WrittenIsWhole, ReadSoFar, ReadIsExact, SmallFilesFit, OverrunIsBounded
<1>8. CASE Crash
  BY <1>8, <1>p DEF Crash, FreshBuffer, LengthIsCut, FileLength, WrittenSoFar,
     WrittenIsWhole, ReadSoFar, ReadIsExact, SmallFilesFit, OverrunIsBounded
<1>9. CASE Delete
  BY <1>9, <1>p DEF Delete, FreshBuffer, LengthIsCut, FileLength, WrittenSoFar,
     WrittenIsWhole, ReadSoFar, ReadIsExact, SmallFilesFit, OverrunIsBounded
<1>10. CASE UNCHANGED vars
  BY <1>10, <1>p DEF vars, FreshBuffer, LengthIsCut, FileLength, WrittenSoFar,
     WrittenIsWhole, ReadSoFar, ReadIsExact, SmallFilesFit, OverrunIsBounded
<1>. QED
  BY <1>1, <1>2, <1>3, <1>4, <1>5, <1>6, <1>7, <1>8, <1>9, <1>10 DEF Next

\* Which makes it an invariant.
LEMMA TransferInvariant == Spec => []TransferInv
BY TransferInit, TransferStep, PTL DEF Spec

-----------------------------------------------------------------------------
\* Every number of the transfer keeps its width and every buffer its bytes.
THEOREM TransferTypeOK == Spec => []TypeOK
<1>1. TransferInv => TypeOK
  BY DEF TransferInv, TypeInv
<1>. QED
  BY <1>1, TransferInvariant, PTL

\* create_bf_file never returns 0 without a fault unless the element's file has
\* the size asked for and holds the caller's bytes: for no width, size of a
\* chunk and size of a file does the cut of the FCP's size or of an offset pass
\* unnoticed.
THEOREM TransferWrittenIsWhole == Spec => []WrittenIsWhole
<1>1. TransferInv => WrittenIsWhole
  BY DEF TransferInv
<1>. QED
  BY <1>1, TransferInvariant, PTL

\* Only files of more than 2^15 bytes are refused for their size.
THEOREM TransferSmallFilesFit == Spec => []SmallFilesFit
<1>1. TransferInv => SmallFilesFit
  BY DEF TransferInv
<1>. QED
  BY <1>1, TransferInvariant, PTL

\* A read without a fault returns the file, and nothing behind its end.
THEOREM TransferReadIsExact == Spec => []ReadIsExact
<1>1. TransferInv => ReadIsExact
  BY DEF TransferInv
<1>. QED
  BY <1>1, TransferInvariant, PTL

\* Whatever fails, a read writes less than one chunk behind its data_size.
THEOREM TransferOverrunIsBounded == Spec => []OverrunIsBounded
<1>1. TransferInv => OverrunIsBounded
  BY DEF TransferInv
<1>. QED
  BY <1>1, TransferInvariant, PTL
=============================================================================
