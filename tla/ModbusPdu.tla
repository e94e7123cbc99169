------------------------------ MODULE ModbusPdu ------------------------------
(***************************************************************************)
(* Function codes and the lengths libmodbus derives from them              *)
(* (src/libmodbus/src/modbus.c). Byte counts and offsets are the real      *)
(* ones: whether the two ends agree on them is what the models that use    *)
(* this module are about.                                                  *)
(***************************************************************************)
EXTENDS Integers

READ_COILS            == 1
READ_DISCRETE_INPUTS  == 2
READ_HOLDING          == 3
READ_INPUT            == 4
WRITE_COIL            == 5
WRITE_REGISTER        == 6
READ_EXCEPTION_STATUS == 7
WRITE_COILS           == 15
WRITE_REGISTERS       == 16
REPORT_SLAVE_ID       == 17
MASK_WRITE            == 22
WRITE_AND_READ        == 23

ReadBits      == {READ_COILS, READ_DISCRETE_INPUTS}
ReadRegisters == {READ_HOLDING, READ_INPUT}

Byte == 0..255

(* A backend is a record of the lengths the core asks it for.              *)
TcpBackend == [header |-> 7, checksum |-> 0, maxAdu |-> 260]
RtuBackend == [header |-> 1, checksum |-> 2, maxAdu |-> 256]

\* Bytes that carry n bits.
BitBytes(n) == (n \div 8) + (IF n % 8 # 0 THEN 1 ELSE 0)

-----------------------------------------------------------------------------
(* Reading: what follows the function code, then what follows that.        *)

MetaOfRequest(fc) ==
    CASE fc <= WRITE_REGISTER                -> 4
      [] fc \in {WRITE_COILS, WRITE_REGISTERS} -> 5
      [] fc = MASK_WRITE                     -> 6
      [] fc = WRITE_AND_READ                 -> 9
      [] OTHER                               -> 0

MetaOfResponse(fc) ==
    CASE fc \in {WRITE_COIL, WRITE_REGISTER, WRITE_COILS, WRITE_REGISTERS} -> 4
      [] fc = MASK_WRITE                                                   -> 6
      [] OTHER                                                             -> 1

MetaLength(fc, type) ==
    IF type = "indication" THEN MetaOfRequest(fc) ELSE MetaOfResponse(fc)

\* Mutant: the data of WRITE_AND_READ counted where the other writes count it.
CountAtSame(fc, type) ==
    IF type = "indication"
    THEN IF fc \in {WRITE_COILS, WRITE_REGISTERS, WRITE_AND_READ} THEN 5 ELSE 0
    ELSE IF fc <= READ_INPUT \/ fc \in {REPORT_SLAVE_ID, WRITE_AND_READ} THEN 1 ELSE 0

\* Offset, from the function code, of the byte that counts the data; 0 if none.
CountAt(fc, type) ==
    IF type = "indication"
    THEN CASE fc \in {WRITE_COILS, WRITE_REGISTERS} -> 5
           [] fc = WRITE_AND_READ                   -> 9
           [] OTHER                                 -> 0
    ELSE IF fc <= READ_INPUT \/ fc \in {REPORT_SLAVE_ID, WRITE_AND_READ} THEN 1 ELSE 0

-----------------------------------------------------------------------------
(* Writing: the length of a PDU, function code included, and its counting  *)
(* byte, as the functions that build it make them. `nb` is the number of   *)
(* values carried or asked for; REPORT_SLAVE_ID carries nb opaque bytes.   *)

RequestPdu(fc, nb) ==
    CASE fc = WRITE_COILS     -> 6 + BitBytes(nb)
      [] fc = WRITE_REGISTERS -> 6 + 2 * nb
      [] fc = MASK_WRITE      -> 7
      [] fc = WRITE_AND_READ  -> 10 + 2 * nb
      [] fc = REPORT_SLAVE_ID -> 1
      [] OTHER                -> 5

ResponsePdu(fc, nb) ==
    CASE fc \in ReadBits                            -> 2 + BitBytes(nb)
      [] fc \in ReadRegisters \cup {WRITE_AND_READ} -> 2 + 2 * nb
      [] fc = REPORT_SLAVE_ID                       -> 2 + nb
      [] fc = MASK_WRITE                            -> 7
      [] fc >= 128                                  -> 2
      [] OTHER                                      -> 5

PduLength(fc, nb, type) ==
    IF type = "indication" THEN RequestPdu(fc, nb) ELSE ResponsePdu(fc, nb)

\* The byte that counts the data, in the PDUs that have one.
CountByte(fc, nb) ==
    CASE fc \in ReadBits \cup {WRITE_COILS} -> BitBytes(nb)
      [] fc = REPORT_SLAVE_ID              -> nb
      [] OTHER                             -> 2 * nb

-----------------------------------------------------------------------------
\* Where it is, counted from the function code; 0 if there is none.
CountPlaced(fc, type) ==
    CASE type = "indication" /\ fc \in {WRITE_COILS, WRITE_REGISTERS} -> 5
      [] type = "indication" /\ fc = WRITE_AND_READ                   -> 9
      [] type = "confirmation" /\ fc \in ReadBits \cup ReadRegisters
                                  \cup {REPORT_SLAVE_ID, WRITE_AND_READ} -> 1
      [] OTHER                                                        -> 0

(* The functions the library writes, and with how many values: the limits  *)
(* of modbus.h and, for REPORT_SLAVE_ID, what modbus_reply sends.          *)

MaxReadBits       == 2000
MaxWriteBits      == 1968
MaxReadRegisters  == 125
MaxWriteRegisters == 123
MaxWrWrite        == 121
MaxWrRead         == 125
ReportedBytes     == 11

Written(type) ==
    ReadBits \cup ReadRegisters
        \cup {WRITE_COIL, WRITE_REGISTER, WRITE_COILS, WRITE_REGISTERS,
              REPORT_SLAVE_ID, MASK_WRITE, WRITE_AND_READ}
        \cup IF type = "confirmation" THEN 128..255 ELSE {}

MaxValues(fc, type) ==
    CASE fc \in ReadBits      -> MaxReadBits
      [] fc \in ReadRegisters -> MaxReadRegisters
      [] fc = WRITE_COILS     -> MaxWriteBits
      [] fc = WRITE_REGISTERS -> MaxWriteRegisters
      [] fc = WRITE_AND_READ  -> IF type = "indication" THEN MaxWrWrite ELSE MaxWrRead
      [] fc = REPORT_SLAVE_ID -> ReportedBytes
      [] OTHER                -> 65535

-----------------------------------------------------------------------------
(* Confirming: the length a response to `request` must have, counted from  *)
(* the function code; -1 if the device decides.                            *)

ResponseLength(fc, nb) ==
    CASE fc \in ReadBits                               -> 2 + BitBytes(nb)
      [] fc \in ReadRegisters \cup {WRITE_AND_READ}    -> 2 + 2 * nb
      [] fc = READ_EXCEPTION_STATUS                    -> 3
      [] fc = REPORT_SLAVE_ID                          -> -1
      [] fc = MASK_WRITE                               -> 7
      [] OTHER                                         -> 5
=============================================================================
