----------------------------- MODULE ModbusReply -----------------------------
(***************************************************************************)
(* modbus_reply (src/libmodbus/src/modbus.c) on the four tables of a       *)
(* modbus_mapping_t.                                                       *)
(*                                                                         *)
(* A byte is the set of its bits, 0 the lowest, and a word likewise, so    *)
(* shifts and masks are set operations. A PDU is a record of its fields;   *)
(* `length` counts its bytes as they are written.                          *)
(***************************************************************************)
EXTENDS ModbusPdu, Sequences

CONSTANTS
    StartBits, NbBits,            \* start_bits, nb_bits (coils and inputs)
    StartRegisters, NbRegisters,  \* start_registers, nb_registers (both)
    ReadBitsLimit, WriteBitsLimit, ReadRegistersLimit, WriteRegistersLimit,
    WrWriteLimit, WrReadLimit     \* the limits of modbus.h, or less

ASSUME MappingAssumption ==
    /\ StartBits \in Nat /\ NbBits \in Nat /\ StartRegisters \in Nat /\ NbRegisters \in Nat
    /\ ReadBitsLimit \in 1..MaxReadBits /\ WriteBitsLimit \in 1..MaxWriteBits
    /\ ReadRegistersLimit \in 1..MaxReadRegisters
    /\ WriteRegistersLimit \in 1..MaxWriteRegisters
    /\ WrWriteLimit \in 1..MaxWrWrite /\ WrReadLimit \in 1..MaxWrRead

Word == SUBSET (0..15)
ON   == 8..15   \* 0xFF00

BitAddresses      == 0..NbBits - 1
RegisterAddresses == 0..NbRegisters - 1

Mappings == [coils : [BitAddresses -> BOOLEAN], inputs : [BitAddresses -> BOOLEAN],
             registers : [RegisterAddresses -> Word],
             inputRegisters : [RegisterAddresses -> Word]]

ILLEGAL_FUNCTION     == 1
ILLEGAL_DATA_ADDRESS == 2
ILLEGAL_DATA_VALUE   == 3

\* response_exception: the function code is a byte.
ResponseException(req, code) ==
    [fc |-> (req.fc + 128) % 256, code |-> code, length |-> 2]

-----------------------------------------------------------------------------
(* The data.                                                               *)

\* response_io_status: nb bits of `tab`, from `address` on, packed in bytes.
PackBits(tab, address, nb) ==
    [k \in 1..BitBytes(nb) |->
        {j \in 0..7 : 8 * (k - 1) + j < nb /\ tab[address + 8 * (k - 1) + j]}]

\* Mutant: modbus_set_bits_from_byte for every byte, with all its bits.
SetWholeBytes(tab, address, nb, bytes) ==
    LET end == address + 8 * Len(bytes)
    IN  [a \in DOMAIN tab \cup address..end - 1 |->
            IF a \in address..end - 1
            THEN (a - address) % 8 \in bytes[(a - address) \div 8 + 1] ELSE tab[a]]

\* modbus_set_bits_from_bytes.
SetBits(tab, address, nb, bytes) ==
    [a \in DOMAIN tab |->
        IF a \in address..address + nb - 1
        THEN (a - address) % 8 \in bytes[(a - address) \div 8 + 1] ELSE tab[a]]

SetWords(tab, address, words) ==
    [a \in DOMAIN tab |->
        IF a \in address..address + Len(words) - 1 THEN words[a - address + 1] ELSE tab[a]]

Words(tab, address, nb) == [k \in 1..nb |-> tab[address + k - 1]]

-----------------------------------------------------------------------------
(* Each case of the switch: the response, and the mapping it leaves.       *)

Answer(rsp, m) == [rsp |-> rsp, mapping |-> m]

\* Not all of the addresses are in the table.
Outside(address, nb, size) == address < 0 \/ address + nb > size

ReplyReadBits(req, m) ==
    LET tab == IF req.fc = READ_COILS THEN m.coils ELSE m.inputs
        a   == req.addr - StartBits
    IN  IF req.nb < 1 \/ ReadBitsLimit < req.nb
        THEN Answer(ResponseException(req, ILLEGAL_DATA_VALUE), m)
        ELSE IF Outside(a, req.nb, NbBits)
        THEN Answer(ResponseException(req, ILLEGAL_DATA_ADDRESS), m)
        ELSE LET data == PackBits(tab, a, req.nb)
             IN  Answer([fc |-> req.fc, count |-> BitBytes(req.nb), data |-> data,
                         length |-> 2 + Len(data)], m)

ReplyReadRegisters(req, m) ==
    LET tab == IF req.fc = READ_HOLDING THEN m.registers ELSE m.inputRegisters
        a   == req.addr - StartRegisters
    IN  IF req.nb < 1 \/ ReadRegistersLimit < req.nb
        THEN Answer(ResponseException(req, ILLEGAL_DATA_VALUE), m)
        ELSE IF Outside(a, req.nb, NbRegisters)
        THEN Answer(ResponseException(req, ILLEGAL_DATA_ADDRESS), m)
        ELSE Answer([fc |-> req.fc, count |-> 2 * req.nb, data |-> Words(tab, a, req.nb),
                     length |-> 2 + 2 * req.nb], m)

\* The request is sent back as it came.
ReplyWriteBit(req, m) ==
    LET a == req.addr - StartBits
    IN  IF Outside(a, 1, NbBits)
        THEN Answer(ResponseException(req, ILLEGAL_DATA_ADDRESS), m)
        ELSE IF req.value \notin {ON, {}}
        THEN Answer(ResponseException(req, ILLEGAL_DATA_VALUE), m)
        ELSE Answer(req, [m EXCEPT !.coils[a] = (req.value # {})])

ReplyWriteRegister(req, m) ==
    LET a == req.addr - StartRegisters
    IN  IF Outside(a, 1, NbRegisters)
        THEN Answer(ResponseException(req, ILLEGAL_DATA_ADDRESS), m)
        ELSE Answer(req, [m EXCEPT !.registers[a] = req.value])

\* The address and the number of values, copied from the request.
Echo(req) == [fc |-> req.fc, addr |-> req.addr, nb |-> req.nb, length |-> 5]

ReplyWriteBits(req, m) ==
    LET a == req.addr - StartBits
    IN  IF req.nb < 1 \/ WriteBitsLimit < req.nb \/ req.count * 8 < req.nb
        THEN Answer(ResponseException(req, ILLEGAL_DATA_VALUE), m)
        ELSE IF Outside(a, req.nb, NbBits)
        THEN Answer(ResponseException(req, ILLEGAL_DATA_ADDRESS), m)
        ELSE Answer(Echo(req), [m EXCEPT !.coils = SetBits(@, a, req.nb, req.data)])

\* Mutant: the values are stored before the address is checked, up to the end.
ReplyWriteRegistersEarly(req, m) ==
    LET a    == req.addr - StartRegisters
        room == IF a < 0 THEN 0 ELSE NbRegisters - a
        kept == SubSeq(req.data, 1, room)
    IN  IF req.nb < 1 \/ WriteRegistersLimit < req.nb \/ req.count # 2 * req.nb
        THEN Answer(ResponseException(req, ILLEGAL_DATA_VALUE), m)
        ELSE Answer(IF Outside(a, req.nb, NbRegisters)
                    THEN ResponseException(req, ILLEGAL_DATA_ADDRESS) ELSE Echo(req),
                    [m EXCEPT !.registers =
                        SetWords(@, a, IF Len(req.data) < room THEN req.data ELSE kept)])

ReplyWriteRegisters(req, m) ==
    LET a == req.addr - StartRegisters
    IN  IF req.nb < 1 \/ WriteRegistersLimit < req.nb \/ req.count # 2 * req.nb
        THEN Answer(ResponseException(req, ILLEGAL_DATA_VALUE), m)
        ELSE IF Outside(a, req.nb, NbRegisters)
        THEN Answer(ResponseException(req, ILLEGAL_DATA_ADDRESS), m)
        ELSE Answer(Echo(req), [m EXCEPT !.registers = SetWords(@, a, req.data)])

ReplyMaskWrite(req, m) ==
    LET a == req.addr - StartRegisters
    IN  IF Outside(a, 1, NbRegisters)
        THEN Answer(ResponseException(req, ILLEGAL_DATA_ADDRESS), m)
        ELSE Answer(req, [m EXCEPT !.registers[a] =
                             (@ \cap req.and) \cup (req.or \cap ((0..15) \ req.and))])

\* The write comes first.
ReplyWriteAndRead(req, m) ==
    LET a     == req.addr - StartRegisters
        w     == req.waddr - StartRegisters
        after == SetWords(m.registers, w, req.data)
    IN  IF \/ req.wnb < 1 \/ WrWriteLimit < req.wnb \/ req.nb < 1 \/ WrReadLimit < req.nb
           \/ req.count # 2 * req.wnb
        THEN Answer(ResponseException(req, ILLEGAL_DATA_VALUE), m)
        ELSE IF Outside(a, req.nb, NbRegisters) \/ Outside(w, req.wnb, NbRegisters)
        THEN Answer(ResponseException(req, ILLEGAL_DATA_ADDRESS), m)
        ELSE Answer([fc |-> req.fc, count |-> 2 * req.nb, data |-> Words(after, a, req.nb),
                     length |-> 2 + 2 * req.nb],
                    [m EXCEPT !.registers = after])

\* A sequence of bytes that says who the server is.
ReplySlaveId(req, m) ==
    Answer([fc |-> req.fc, count |-> ReportedBytes, length |-> 2 + ReportedBytes], m)

\* modbus_reply, but for MODBUS_FC_READ_EXCEPTION_STATUS, which has no answer.
Reply(req, m) ==
    CASE req.fc \in ReadBits        -> ReplyReadBits(req, m)
      [] req.fc \in ReadRegisters   -> ReplyReadRegisters(req, m)
      [] req.fc = WRITE_COIL        -> ReplyWriteBit(req, m)
      [] req.fc = WRITE_REGISTER    -> ReplyWriteRegister(req, m)
      [] req.fc = WRITE_COILS       -> ReplyWriteBits(req, m)
      [] req.fc = WRITE_REGISTERS   -> ReplyWriteRegisters(req, m)
      [] req.fc = REPORT_SLAVE_ID   -> ReplySlaveId(req, m)
      [] req.fc = MASK_WRITE        -> ReplyMaskWrite(req, m)
      [] req.fc = WRITE_AND_READ    -> ReplyWriteAndRead(req, m)
      [] OTHER                      -> Answer(ResponseException(req, ILLEGAL_FUNCTION), m)
=============================================================================
