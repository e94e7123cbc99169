------------------------- MODULE ModbusFramingProofs -------------------------
(***************************************************************************)
(* Proofs about ModbusFraming for every stream that meets LineAssumption   *)
(* and every way of delivering it: the reader stays inside its buffer      *)
(* (BufferSafe), returns exactly the frames libmodbus writes (FramesWhole) *)
(* and keeps its variables to their types (FramingTypeCorrect).            *)
(***************************************************************************)
EXTENDS ModbusFraming, Extrema, TLAPS

USE Assumption DEF Assumption

Backend == {TcpBackend, RtuBackend}

-----------------------------------------------------------------------------
(* The invariants.                                                         *)

\* Types, without the bounds that TypeOK adds to them.
Shape ==
    /\ line \in Lines
    /\ arrived \in Nat /\ first \in Nat /\ len \in Nat /\ need \in Nat
    /\ pc \in {"idle", "reading", "closed"}
    /\ step \in {"FUNCTION", "META", "DATA"}

\* What has been read and asked for is exactly what the step stands for.
Asked ==
    pc = "reading" =>
        /\ need > 0
        /\ step # "FUNCTION" => len > header
        /\ step = "FUNCTION" => len + need = header + 1
        /\ step = "META" => len + need = header + 1 + MetaLength(function, line.type)
        /\ step = "DATA" => /\ len + need = header + 1 + MetaLength(function, line.type)
                                               + DataLength
                            /\ len + need <= maxAdu

Behind == first + len <= arrived /\ arrived <= Total

LineInv == Shape /\ Asked /\ Behind

-----------------------------------------------------------------------------
(* What the constants say of the current line.                             *)

\* The assumption on lines, for the one being read.
LEMMA LineFacts ==
    ASSUME line \in Lines
    PROVE  /\ line.backend \in Backend
           /\ line.type \in {"indication", "confirmation"}
           /\ Frames \subseteq Frame
           /\ Total \in Nat
           /\ Tiled(line)
  BY DEF LineAssumption, Backend, Frames, Total

\* The lengths of the two backends.
LEMMA BackendFacts ==
    ASSUME line \in Lines
    PROVE  \/ header = 7 /\ checksum = 0 /\ maxAdu = 260
           \/ header = 1 /\ checksum = 2 /\ maxAdu = 256
  BY LineFacts DEF Backend, TcpBackend, RtuBackend, header, checksum, maxAdu

\* Frames lie end to end, so each position before Total is in one of them.
LEMMA Covered ==
    ASSUME line \in Lines, NEW p \in Nat, p < Total
    PROVE  \E f \in Frames : f.at <= p /\ p < f.at + f.size
<1> DEFINE Edges == {0} \cup {f.at + f.size : f \in Frames}
           S == {q \in Edges : q <= p}
<1>1. Frames \subseteq Frame /\ Total \in Nat
  BY LineFacts
<1>2. \A f \in Frames : f.at \in Nat /\ f.size \in Nat /\ f.size > 0
  BY <1>1 DEF Frame
<1>3. \A f \in Frames : f.at + f.size \in Nat
  BY <1>2
<1>4. S \subseteq Nat /\ S # {}
  <2>1. 0 \in S
    OBVIOUS
  <2> QED  BY <1>3, <2>1
<1>5. S \in SUBSET (0..p)
  BY <1>4
<1>6. PICK m \in S : \A q \in S : q <= m
  <2> HIDE DEF S
  <2> QED  BY <1>4, <1>5, MaxExists
<1>7. m = Total \/ \E f \in Frames : f.at = m
  BY LineFacts DEF Tiled, Frames, Total
<1>8. PICK f \in Frames : f.at = m
  BY <1>1, <1>4, <1>5, <1>6, <1>7
<1>9. CASE f.at + f.size <= p
  <2>1. f.at + f.size \in S
    BY <1>9
  <2>2. f.at + f.size <= m
    BY <2>1, <1>6
  <2> QED  BY <2>2, <1>2, <1>8
<1> QED  BY <1>2, <1>3, <1>5, <1>8, <1>9

\* Every byte of the stream is a byte.
LEMMA ByteType ==
    ASSUME line \in Lines, NEW p \in Nat, p < Total
    PROVE  ByteAt(p) \in Byte
<1> DEFINE f == CHOOSE g \in Frames : g.at <= p /\ p < g.at + g.size
<1>1. f \in Frames
  BY Covered
<1>2. f.fc \in Byte /\ f.count \in Byte
  BY <1>1, LineFacts DEF Frame
<1> HIDE DEF f
<1> QED  BY <1>2 DEF ByteAt, f

\* The bytes of a frame are read from that frame.
LEMMA ByteOfFrame ==
    ASSUME line \in Lines, NEW f \in Frames, NEW p \in Nat,
           f.at <= p, p < f.at + f.size
    PROVE  ByteAt(p) = CASE p = f.at + header                                 -> f.fc
                         [] /\ CountPlaced(f.fc, line.type) # 0
                            /\ p = f.at + header + CountPlaced(f.fc, line.type)  -> f.count
                         [] OTHER                                             -> Filler
<1> DEFINE g == CHOOSE h \in Frames : h.at <= p /\ p < h.at + h.size
<1>1. g \in Frames /\ g.at <= p /\ p < g.at + g.size
  OBVIOUS
<1>2. g = f
  <2>1. f \in Frame /\ g \in Frame
    BY <1>1, LineFacts
  <2>2. f = g \/ f.at + f.size <= g.at \/ g.at + g.size <= f.at
    BY <1>1, LineFacts DEF Tiled, Frames
  <2> HIDE DEF g
  <2> QED  BY <1>1, <2>1, <2>2 DEF Frame
<1> QED  BY <1>2 DEF ByteAt

-----------------------------------------------------------------------------
(* The tables.                                                             *)

\* The tables give natural numbers.
LEMMA TableTypes ==
    ASSUME NEW fc \in Byte, NEW type \in {"indication", "confirmation"}
    PROVE  /\ MetaLength(fc, type) \in 0..9
           /\ CountAt(fc, type) \in 0..MetaLength(fc, type)
  BY DEF Byte, MetaLength, MetaOfRequest, MetaOfResponse, CountAt, READ_INPUT, WRITE_COIL,
         WRITE_REGISTER, WRITE_COILS, WRITE_REGISTERS, REPORT_SLAVE_ID, MASK_WRITE,
         WRITE_AND_READ

\* The reader's tables and the writers' agree, function by function.
LEMMA TablesAgree ==
    ASSUME NEW type \in {"indication", "confirmation"}, NEW fc \in Written(type),
           NEW nb \in 0..MaxValues(fc, type), NEW count \in Byte,
           CountPlaced(fc, type) # 0 => count = CountByte(fc, nb)
    PROVE  /\ CountPlaced(fc, type) = CountAt(fc, type)
           /\ PduLength(fc, nb, type) =
                1 + MetaLength(fc, type) + (IF CountAt(fc, type) = 0 THEN 0 ELSE count)
  BY DEF Byte, Written, MaxValues, PduLength, RequestPdu, ResponsePdu, CountByte, MetaLength,
         MetaOfRequest, MetaOfResponse, CountAt, CountPlaced, ReadBits, ReadRegisters, READ_COILS,
         READ_DISCRETE_INPUTS, READ_HOLDING, READ_INPUT, WRITE_COIL, WRITE_REGISTER,
         WRITE_COILS, WRITE_REGISTERS, REPORT_SLAVE_ID, MASK_WRITE, WRITE_AND_READ

\* No PDU the library writes is longer than 253 bytes (MODBUS_MAX_PDU_LENGTH).
LEMMA PduFits ==
    ASSUME NEW type \in {"indication", "confirmation"}, NEW fc \in Written(type),
           NEW nb \in 0..MaxValues(fc, type)
    PROVE  PduLength(fc, nb, type) \in 1..253
  BY DEF Written, MaxValues, MaxReadBits, MaxWriteBits, MaxReadRegisters, MaxWriteRegisters,
         MaxWrWrite, MaxWrRead, ReportedBytes, PduLength, RequestPdu, ResponsePdu, BitBytes,
         ReadBits, ReadRegisters, READ_COILS, READ_DISCRETE_INPUTS, READ_HOLDING, READ_INPUT,
         WRITE_COIL, WRITE_REGISTER, WRITE_COILS, WRITE_REGISTERS, REPORT_SLAVE_ID,
         MASK_WRITE, WRITE_AND_READ

-----------------------------------------------------------------------------
(* The reader keeps LineInv.                                               *)

\* The function code is a byte once it has arrived.
LEMMA FunctionType ==
    ASSUME line \in Lines, first \in Nat, first + header < Total
    PROVE  function \in Byte
<1>1. first + header \in Nat
  BY BackendFacts
<1> QED  BY <1>1, ByteType DEF function

\* So is the byte that counts the data, and the data are of some length.
LEMMA DataType ==
    ASSUME line \in Lines, first \in Nat, function \in Byte,
           first + header + MetaLength(function, line.type) < Total
    PROVE  DataLength \in Nat
<1>1. Total \in Nat /\ header \in Nat /\ checksum \in Nat
  BY LineFacts, BackendFacts
<1>2. /\ MetaLength(function, line.type) \in Nat
      /\ CountAt(function, line.type) \in 0..MetaLength(function, line.type)
  BY LineFacts, TableTypes
<1> DEFINE p == first + header + CountAt(function, line.type)
<1>3. p \in Nat /\ p < Total
  BY <1>1, <1>2
<1>4. ByteAt(p) \in Nat
  <2> HIDE DEF p
  <2> QED  BY <1>3, ByteType DEF Byte
<1> QED  BY <1>1, <1>4 DEF DataLength

\* The position, the call and the stream are those of the next state.
LEMMA SameFunction ==
    ASSUME UNCHANGED <<line, first>>
    PROVE  /\ UNCHANGED <<header, checksum, maxAdu, Total, Frames>>
           /\ function' = function
           /\ DataLength' = DataLength
  BY DEF header, checksum, maxAdu, Total, Frames, function, DataLength, ByteAt

\* The fixed part has been read, and AfterMeta decides.
LEMMA AfterMetaKeeps ==
    ASSUME LineInv, pc = "reading", NEW got \in Nat, function \in Byte,
           got = header + 1 + MetaLength(function, line.type), first + got <= arrived,
           AfterMeta(got)
    PROVE  LineInv'
<1> USE DEF LineInv, Shape, Behind
<1>1. Total \in Nat /\ header \in Nat /\ checksum \in Nat /\ maxAdu \in Nat
  BY LineFacts, BackendFacts
<1>2. MetaLength(function, line.type) \in Nat
  BY LineFacts, TableTypes
<1>3. DataLength \in Nat
  BY <1>1, <1>2, DataType
<1>4. Total' = Total /\ line' = line
  BY DEF AfterMeta, Fail, AskFor, Deliver, Total
<1>5. CASE Fail("overflow", got)
  BY <1>4, <1>5 DEF Fail, Asked
<1>6. CASE DataLength = 0 /\ Deliver(got)
  BY <1>4, <1>6 DEF Deliver, Asked
<1>7. CASE /\ got + DataLength <= maxAdu /\ DataLength > 0
           /\ AskFor(DataLength, "DATA", got)
  <2>1. UNCHANGED <<line, first>>
    BY <1>7 DEF AskFor
  <2>2. Asked'
    BY <1>1, <1>2, <1>3, <1>7, <2>1, SameFunction DEF AskFor, Asked
  <2> QED  BY <1>1, <1>3, <1>4, <1>7, <2>2 DEF AskFor
<1> QED  BY <1>3, <1>5, <1>6, <1>7 DEF AfterMeta

\* Nothing has been read at first.
THEOREM LineInit == Init => LineInv
<1> SUFFICES ASSUME Init PROVE LineInv
  OBVIOUS
<1>1. Total \in Nat
  BY LineFacts DEF Init
<1> QED  BY <1>1 DEF Init, LineInv, Shape, Asked, Behind

\* Every step of the stream and of the reader keeps the count of bytes right.
THEOREM LineStep == LineInv /\ [Next]_vars => LineInv'
<1> SUFFICES ASSUME LineInv, [Next]_vars PROVE LineInv'
  OBVIOUS
<1> USE DEF LineInv, Shape, Behind
<1>1. Total \in Nat /\ header \in Nat /\ checksum \in Nat /\ maxAdu \in Nat
  BY LineFacts, BackendFacts
<1>2. CASE Arrive
  <2>1. UNCHANGED <<line, first>>
    BY <1>2 DEF Arrive
  <2>2. Asked'
    BY <1>2, <2>1, SameFunction DEF Arrive, Asked
  <2> QED  BY <1>1, <1>2, <2>1, <2>2, SameFunction DEF Arrive
<1>3. CASE Call
  <2>1. UNCHANGED <<line, first>>
    BY <1>3 DEF Call
  <2>2. Asked'
    BY <1>1, <1>3, <2>1, SameFunction DEF Call, Asked
  <2> QED  BY <1>1, <1>3, <2>1, <2>2, SameFunction DEF Call
<1>4. CASE ReadPart
  <2>1. UNCHANGED <<line, first>>
    BY <1>4 DEF ReadPart, AskFor
  <2>2. available \in Nat /\ need - available > 0
    BY <1>4 DEF ReadPart, available
  <2>3. Asked'
    BY <1>1, <1>4, <2>1, <2>2, SameFunction DEF ReadPart, AskFor, Asked
  <2> QED  BY <1>1, <1>4, <2>1, <2>2, <2>3, SameFunction DEF ReadPart, AskFor, available
<1>5. CASE ReadFunction
  <2>1. len + need = header + 1 /\ first + len + need <= arrived
    BY <1>5 DEF ReadFunction, ReadEnough, Asked, available
  <2>2. function \in Byte
    BY <1>1, <2>1, FunctionType
  <2>3. MetaLength(function, line.type) \in Nat
    BY <2>2, LineFacts, TableTypes
  <2>4. CASE MetaLength(function, line.type) = 0
    BY <1>1, <1>5, <2>1, <2>2, <2>4, AfterMetaKeeps DEF ReadFunction, ReadEnough
  <2>5. CASE MetaLength(function, line.type) # 0
    <3>1. AskFor(MetaLength(function, line.type), "META", len + need)
      BY <1>5, <2>5 DEF ReadFunction
    <3>2. UNCHANGED <<line, first>>
      BY <3>1 DEF AskFor
    <3>3. Asked'
      BY <1>1, <2>1, <2>3, <2>5, <3>1, <3>2, SameFunction DEF AskFor, Asked
    <3> QED  BY <1>1, <2>1, <2>3, <3>1, <3>2, <3>3, SameFunction DEF AskFor
  <2> QED  BY <2>4, <2>5
<1>6. CASE ReadMeta
  <2>1. /\ len + need = header + 1 + MetaLength(function, line.type)
        /\ len > header /\ first + len + need <= arrived
    BY <1>6 DEF ReadMeta, ReadEnough, Asked, available
  <2>2. function \in Byte
    BY <1>1, <2>1, FunctionType
  <2> QED  BY <1>1, <1>6, <2>1, <2>2, AfterMetaKeeps DEF ReadMeta, ReadEnough
<1>7. CASE ReadData
  <2>1. first + len + need <= arrived
    BY <1>7 DEF ReadData, ReadEnough, available
  <2> QED  BY <1>1, <1>7, <2>1 DEF ReadData, Deliver, Asked, Total
<1>8. CASE Timeout \/ Reset
  BY <1>1, <1>8 DEF Timeout, Reset, Fail, Asked, Total
<1>9. CASE UNCHANGED vars
  <2>1. UNCHANGED <<line, first>>
    BY <1>9 DEF vars
  <2> QED  BY <1>9, <2>1, SameFunction DEF vars, Asked
<1> QED  BY <1>2, <1>3, <1>4, <1>5, <1>6, <1>7, <1>8, <1>9 DEF Next, Read

\* Hence it is right at all times.
THEOREM LineInvariance == Spec => []LineInv
  BY LineInit, LineStep, PTL DEF Spec

(* _modbus_receive_msg never asks recv for more than its caller's buffer   *)
(* has room for, on either backend and whatever the peer sends.            *)
THEOREM BufferSafe == Spec => []InBuffer
<1>1. LineInv => InBuffer
  <2> SUFFICES ASSUME LineInv, pc = "reading" PROVE len + need <= maxAdu
    BY DEF InBuffer
  <2> USE DEF LineInv, Shape, Behind
  <2>1. Total \in Nat
    BY LineFacts
  <2>2. CASE step = "FUNCTION"
    BY <2>2, BackendFacts DEF Asked
  <2>3. CASE step = "META"
    <3>1. first + header < Total
      BY <2>1, <2>3, BackendFacts DEF Asked
    <3>2. MetaLength(function, line.type) \in 0..9
      BY <3>1, FunctionType, TableTypes, LineFacts
    <3> QED  BY <2>3, <3>2, BackendFacts DEF Asked
  <2>4. CASE step = "DATA"
    BY <2>4 DEF Asked
  <2> QED  BY <2>2, <2>3, <2>4
<1> QED  BY <1>1, LineInvariance, PTL

-----------------------------------------------------------------------------
(* Whole frames.                                                           *)

\* Nothing behind the reader was foreign, so it stands at the edge of a frame.
OnTrack ==
    (~torn /\ \A f \in Frames : f.at < first => Built(f))
    => first = Total \/ \E f \in Frames : f.at = first

\* A frame the library built is as long as the reader will find it.
LEMMA FrameLength ==
    ASSUME line \in Lines, first \in Nat, NEW f \in Frames, f.at = first, Built(f)
    PROVE  /\ f.size = header + 1 + MetaLength(function, line.type) + DataLength
           /\ f.size <= maxAdu
<1>1. /\ f \in Frame /\ line.type \in {"indication", "confirmation"}
  BY LineFacts
<1>2. /\ f.fc \in Byte /\ f.count \in Byte /\ f.at \in Nat /\ f.size \in Nat
  BY <1>1 DEF Frame
<1>3. PduLength(f.fc, f.nb, line.type) \in 1..253
  BY <1>1, PduFits DEF Built
<1>4. f.size <= maxAdu
  BY <1>3, BackendFacts DEF Built
<1>5. function = f.fc
  <2>1. first + header \in Nat /\ first + header < f.at + f.size /\ f.at <= first + header
    BY <1>2, <1>3, BackendFacts DEF Built
  <2>2. ByteAt(f.at + header) = f.fc
    <3> DEFINE p == f.at + header
    <3>1. p \in Nat /\ p < f.at + f.size /\ f.at <= p
      BY <2>1
    <3>2. ByteAt(p) = CASE p = f.at + header                                 -> f.fc
                        [] /\ CountPlaced(f.fc, line.type) # 0
                           /\ p = f.at + header + CountPlaced(f.fc, line.type)  -> f.count
                        [] OTHER                                             -> Filler
      <4> HIDE DEF p
      <4> QED  BY <3>1, ByteOfFrame
    <3>3. CountPlaced(f.fc, line.type) = 0 \/ p # f.at + header + CountPlaced(f.fc, line.type)
      BY <1>1, <1>2, TablesAgree, TableTypes, BackendFacts DEF Built
    <3> QED  BY <3>2, <3>3
  <2> QED  BY <2>2 DEF function
<1> DEFINE c == CountAt(f.fc, line.type)
           m == MetaLength(f.fc, line.type)
<1>6. m \in Nat /\ c \in 0..m
  BY <1>1, <1>2, TableTypes
<1>7. /\ CountPlaced(f.fc, line.type) = c
      /\ PduLength(f.fc, f.nb, line.type) = 1 + m + (IF c = 0 THEN 0 ELSE f.count)
  BY <1>1, <1>2, TablesAgree DEF Built
<1>8. DataLength = checksum + IF c = 0 THEN 0 ELSE f.count
  <2>1. CASE c = 0
    BY <1>5, <2>1 DEF DataLength
  <2>2. CASE c # 0
    <3> DEFINE p == first + header + c
    <3>1. p \in Nat /\ f.at <= p /\ p < f.at + f.size /\ p # f.at + header
      BY <1>2, <1>6, <1>7, <2>2, BackendFacts DEF Built, Byte
    <3>2. ByteAt(p) = f.count
      BY <1>7, <2>2, <3>1, ByteOfFrame
    <3> QED  BY <1>5, <2>2, <3>2 DEF DataLength
  <2> QED  BY <2>1, <2>2
<1> HIDE DEF c, m
<1>9. f.size = header + 1 + m + DataLength
  <2>1. f.size = header + PduLength(f.fc, f.nb, line.type) + checksum
    BY DEF Built
  <2>2. header \in Nat /\ checksum \in Nat /\ f.count \in Nat
    BY <1>2, BackendFacts DEF Byte
  <2>3. PICK d \in Nat : d = IF c = 0 THEN 0 ELSE f.count
    BY <2>2
  <2> QED  BY <1>6, <1>7, <1>8, <2>1, <2>2, <2>3
<1>10. MetaLength(function, line.type) = m
  BY <1>5, Zenon DEF m
<1>11. f.size = header + 1 + MetaLength(function, line.type) + DataLength
  BY <1>9, <1>10, Zenon
<1> QED  BY <1>4, <1>11, Zenon

\* How a step can change what has been returned.
LEMMA Outcomes ==
    ASSUME LineInv, [Next]_vars
    PROVE  \/ UNCHANGED <<line, first, torn, result>>
           \/ \E got \in Nat :
                 /\ got = header + 1 + MetaLength(function, line.type) + DataLength
                 /\ got > 0 /\ first + got <= arrived
                 /\ Deliver(got)
           \/ \E got \in Nat :
                 /\ got = header + 1 + MetaLength(function, line.type)
                 /\ got > 0 /\ first + got <= arrived /\ got + DataLength > maxAdu
                 /\ Fail("overflow", got)
           \/ Fail("timeout", len) \/ Fail("reset", len)
<1> USE DEF LineInv, Shape, Behind
<1>1. Total \in Nat /\ header \in Nat /\ checksum \in Nat /\ maxAdu \in Nat
  BY LineFacts, BackendFacts
<1>2. CASE Arrive \/ Call \/ ReadPart \/ UNCHANGED vars
  BY <1>2 DEF Arrive, Call, ReadPart, AskFor, vars
<1>3. CASE Timeout \/ Reset
  BY <1>3 DEF Timeout, Reset
<1>4. ASSUME AfterMeta(len + need), available >= need, pc = "reading", function \in Byte,
             len + need = header + 1 + MetaLength(function, line.type)
      PROVE  \/ UNCHANGED <<line, first, torn, result>>
             \/ \E got \in Nat :
                   /\ got = header + 1 + MetaLength(function, line.type) + DataLength
                   /\ got > 0 /\ first + got <= arrived
                   /\ Deliver(got)
             \/ \E got \in Nat :
                   /\ got = header + 1 + MetaLength(function, line.type)
                   /\ got > 0 /\ first + got <= arrived /\ got + DataLength > maxAdu
                   /\ Fail("overflow", got)
  <2>1. first + (len + need) <= arrived
    BY <1>4 DEF available
  <2>2. MetaLength(function, line.type) \in Nat
    BY <1>4, LineFacts, TableTypes
  <2>3. DataLength \in Nat
    BY <1>1, <1>4, <2>1, <2>2, DataType
  <2>4. CASE AskFor(DataLength, "DATA", len + need)
    BY <2>4 DEF AskFor
  <2>5. CASE DataLength = 0 /\ Deliver(len + need)
    BY <1>1, <1>4, <2>1, <2>2, <2>5
  <2>6. CASE len + need + DataLength > maxAdu /\ Fail("overflow", len + need)
    BY <1>1, <1>4, <2>1, <2>2, <2>6
  <2> QED  BY <1>4, <2>3, <2>4, <2>5, <2>6 DEF AfterMeta
<1>5. CASE ReadFunction
  <2>1. len + need = header + 1 /\ first + len + need <= arrived /\ available >= need
        /\ pc = "reading"
    BY <1>5 DEF ReadFunction, ReadEnough, Asked, available
  <2>2. function \in Byte
    BY <1>1, <2>1, FunctionType
  <2>3. CASE MetaLength(function, line.type) = 0
    BY <1>1, <1>4, <1>5, <2>1, <2>2, <2>3 DEF ReadFunction
  <2>4. CASE MetaLength(function, line.type) # 0
    BY <1>5, <2>4 DEF ReadFunction, AskFor
  <2> QED  BY <2>3, <2>4
<1>6. CASE ReadMeta
  <2>1. /\ len + need = header + 1 + MetaLength(function, line.type)
        /\ len > header /\ first + len + need <= arrived
        /\ available >= need /\ pc = "reading"
    BY <1>6 DEF ReadMeta, ReadEnough, Asked, available
  <2>2. function \in Byte
    BY <1>1, <2>1, FunctionType
  <2> QED  BY <1>4, <1>6, <2>1, <2>2 DEF ReadMeta
<1>7. CASE ReadData
  <2>1. /\ len + need = header + 1 + MetaLength(function, line.type) + DataLength
        /\ first + (len + need) <= arrived /\ len + need \in Nat /\ len + need > 0
    BY <1>7 DEF ReadData, ReadEnough, Asked, available
  <2> QED  BY <1>7, <2>1 DEF ReadData
<1> QED  BY <1>2, <1>3, <1>5, <1>6, <1>7 DEF Next, Read

\* Whether a frame is one libmodbus builds does not change as the line is read.
LEMMA SameBuilt ==
    ASSUME line' = line
    PROVE  /\ Frames' = Frames /\ Total' = Total
           /\ \A f \in Frames : Built(f)' <=> Built(f)
  BY DEF Frames, Total, Built, header, checksum

\* Every step keeps the reader at the start of a frame, or within the one it
\* started, as long as it has met nothing else.
THEOREM TrackStep ==
    LineInv /\ OnTrack /\ WholeFrames /\ [Next]_vars => OnTrack' /\ WholeFrames'
<1> SUFFICES ASSUME LineInv, OnTrack, WholeFrames, [Next]_vars
             PROVE  OnTrack' /\ WholeFrames'
  OBVIOUS
<1> USE DEF LineInv, Shape, Behind
<1>1. Total \in Nat /\ Frames \subseteq Frame /\ Tiled(line)
  BY LineFacts
<1>2. \A f \in Frames : f.at \in Nat /\ f.size \in Nat
  BY <1>1 DEF Frame
<1>3. CASE UNCHANGED <<line, first, torn, result>>
  BY <1>3, SameBuilt DEF OnTrack, WholeFrames
<1>4. ASSUME NEW got \in Nat, got > 0, first + got <= arrived, ~torn,
             \A f \in Frames : f.at <= first => Built(f)
      PROVE  \E f \in Frames : f.at = first /\ Built(f)
  <2>1. \E f \in Frames : f.at = first
    <3>1. \A f \in Frames : f.at < first => Built(f)
      BY <1>2, <1>4
    <3>2. first # Total
      BY <1>1, <1>4
    <3> QED  BY <1>4, <3>1, <3>2 DEF OnTrack
  <2> QED  BY <1>2, <1>4, <2>1
<1>5. ASSUME NEW got \in Nat, got > 0, first + got <= arrived, Deliver(got),
             got = header + 1 + MetaLength(function, line.type) + DataLength
      PROVE  OnTrack' /\ WholeFrames'
  <2>1. /\ line' = line /\ torn' = torn /\ first' = first + got
        /\ result' = [kind |-> "message", at |-> first, size |-> got]
    BY <1>5 DEF Deliver
  <2>2. ASSUME ~torn, \A f \in Frames : f.at <= first => Built(f)
        PROVE  \E f \in Frames : f.at = first /\ f.size = got
    BY <1>4, <1>5, <2>2, FrameLength
  <2>3. OnTrack'
    <3> SUFFICES ASSUME ~torn, \A f \in Frames : f.at < first + got => Built(f)
                 PROVE  first + got = Total \/ \E f \in Frames : f.at = first + got
      BY <2>1, SameBuilt DEF OnTrack
    <3>1. \A f \in Frames : f.at <= first => Built(f)
      BY <1>2, <1>5
    <3>2. PICK f \in Frames : f.at = first /\ f.size = got
      BY <2>2, <3>1
    <3> QED  BY <1>1, <3>2 DEF Tiled, Frames, Total
  <2>4. WholeFrames'
    <3> SUFFICES ASSUME ~torn, \A f \in Frames : f.at <= first => Built(f)
                 PROVE  \E f \in Frames :
                           /\ f.at = first
                           /\ result' = [kind |-> "message", at |-> f.at, size |-> f.size]
      BY <2>1, SameBuilt DEF WholeFrames
    <3> QED  BY <2>1, <2>2
  <2> QED  BY <2>3, <2>4
<1>6. ASSUME NEW got \in Nat, got > 0, first + got <= arrived, Fail("overflow", got),
             got = header + 1 + MetaLength(function, line.type), got + DataLength > maxAdu
      PROVE  OnTrack' /\ WholeFrames'
  <2>1. /\ line' = line /\ (torn' <=> torn) /\ first' = first + got
        /\ result' = [kind |-> "overflow", at |-> first, size |-> got]
    BY <1>6 DEF Fail
  <2>2. ASSUME ~torn, \A f \in Frames : f.at <= first => Built(f)
        PROVE  FALSE
    <3>1. PICK f \in Frames : f.at = first /\ Built(f)
      BY <1>4, <1>6, <2>2
    <3>2. f.size = got + DataLength /\ f.size <= maxAdu
      BY <1>6, <3>1, FrameLength
    <3> QED  BY <1>2, <1>6, <3>2, BackendFacts
  <2>3. OnTrack'
    <3> SUFFICES ASSUME ~torn, \A f \in Frames : f.at < first + got => Built(f)
                 PROVE  FALSE
      BY <2>1, SameBuilt DEF OnTrack
    <3>1. \A f \in Frames : f.at <= first => Built(f)
      BY <1>2, <1>6
    <3> QED  BY <2>2, <3>1
  <2>4. WholeFrames'
    <3> SUFFICES ASSUME ~torn, \A f \in Frames : f.at <= first => Built(f)
                 PROVE  FALSE
      BY <2>1, SameBuilt DEF WholeFrames
    <3> QED  BY <2>2
  <2> QED  BY <2>3, <2>4
<1>7. ASSUME NEW kind \in {"timeout", "reset"}, Fail(kind, len)
      PROVE  OnTrack' /\ WholeFrames'
  <2>1. line' = line /\ result'.kind = kind /\ first' = first + len
        /\ (torn' <=> (torn \/ len > 0))
    BY <1>7 DEF Fail
  <2>2. WholeFrames'
    BY <2>1 DEF WholeFrames
  <2>3. OnTrack'
    <3>1. CASE len > 0
      BY <2>1, <3>1 DEF OnTrack
    <3>2. CASE len = 0
      <4>1. first' = first /\ (torn' <=> torn)
        BY <2>1, <3>2
      <4> QED  BY <2>1, <4>1, SameBuilt DEF OnTrack
    <3> QED  BY <3>1, <3>2
  <2> QED  BY <2>2, <2>3
<1> QED  BY <1>3, <1>5, <1>6, <1>7, Outcomes

(* Cut into any pieces, a stream of frames that the request builders and   *)
(* modbus_reply write is returned by _modbus_receive_msg frame by frame.   *)
THEOREM FramesWhole == Spec => []WholeFrames
<1>1. Init => OnTrack /\ WholeFrames
  <2> SUFFICES ASSUME Init PROVE OnTrack /\ WholeFrames
    OBVIOUS
  <2>1. Tiled(line)
    BY LineFacts DEF Init
  <2> QED  BY <2>1 DEF Init, OnTrack, WholeFrames, Tiled, Frames, Total
<1> QED  BY <1>1, LineInvariance, TrackStep, PTL DEF Spec

-----------------------------------------------------------------------------
(* Types.                                                                  *)

\* The rest of TypeOK: what the call returned, and what the wait is limited by.
Answered ==
    /\ timer \in {"none", "response", "byte"}
    /\ result \in Result
    /\ torn \in BOOLEAN

\* Every step leaves a result that says what was read.
LEMMA AnsweredStep == LineInv /\ Answered /\ [Next]_vars => Answered'
<1> SUFFICES ASSUME LineInv, Answered, [Next]_vars PROVE Answered'
  OBVIOUS
<1>1. timer' \in {"none", "response", "byte"}
  BY DEF Answered, Next, Arrive, Call, Read, ReadPart, ReadFunction, ReadMeta, ReadData, AfterMeta,
         AskFor, Deliver, Fail, Timeout, Reset, vars
<1>2. first \in Nat /\ len \in Nat
  BY DEF LineInv, Shape
<1>3. ASSUME NEW got \in Nat, Deliver(got)
      PROVE  result' \in Result /\ torn' \in BOOLEAN
  <2>1. result' = [kind |-> "message", at |-> first, size |-> got] /\ torn' = torn
    BY <1>3 DEF Deliver
  <2>2. result' \in Result
    BY <1>2, <2>1 DEF Result
  <2> QED  BY <2>1, <2>2 DEF Answered
<1>4. ASSUME NEW kind \in {"overflow", "timeout", "reset"}, NEW got \in Nat, Fail(kind, got)
      PROVE  result' \in Result /\ torn' \in BOOLEAN
  <2>1. result' = [kind |-> kind, at |-> first, size |-> got]
    BY <1>4 DEF Fail
  <2>2. torn' \in BOOLEAN
    BY <1>4, Zenon DEF Fail
  <2> QED  BY <1>2, <2>1, <2>2 DEF Result
<1>5. ASSUME UNCHANGED <<line, first, torn, result>>
      PROVE  result' \in Result /\ torn' \in BOOLEAN
  <2>1. result \in Result /\ torn \in BOOLEAN
    BY DEF Answered
  <2> QED  BY <1>5, <2>1
<1>6. result' \in Result /\ torn' \in BOOLEAN
  <2>1. \/ UNCHANGED <<line, first, torn, result>>
        \/ \E got \in Nat : Deliver(got)
        \/ \E kind \in {"overflow", "timeout", "reset"}, got \in Nat : Fail(kind, got)
    BY <1>2, Outcomes
  <2> QED  BY <1>3, <1>4, <1>5, <2>1
<1> QED  BY <1>1, <1>6 DEF Answered

(* What has been read lies between what was delivered and what arrived, on *)
(* every stream, however it is cut and wherever it is torn.                *)
THEOREM FramingTypeCorrect == Spec => []TypeOK
<1>1. Init => Answered
  <2> SUFFICES ASSUME Init PROVE Answered
    OBVIOUS
  <2>1. torn \in BOOLEAN
    BY Zenon DEF Init
  <2>2. result \in Result /\ timer \in {"none", "response", "byte"}
    BY DEF Init, Result
  <2> QED  BY <2>1, <2>2 DEF Answered
<1>2. LineInv /\ Answered => TypeOK
  <2> SUFFICES ASSUME LineInv, Answered PROVE TypeOK
    OBVIOUS
  <2>1. Total \in Nat
    BY LineFacts DEF LineInv, Shape
  <2> QED  BY <2>1 DEF LineInv, Shape, Behind, Answered, TypeOK
<1> QED  BY <1>1, <1>2, AnsweredStep, LineInvariance, PTL DEF Spec

=============================================================================
