--------------------------- MODULE MCModbusFraming ---------------------------
(* Instances of ModbusFraming for TLC: every function code libmodbus knows, *)
(* with the fewest and the most values, in front of a second frame; then    *)
(* frames whose count byte lies.                                            *)
EXTENDS ModbusFraming

Codes(type) == {READ_COILS, READ_HOLDING, WRITE_COIL, WRITE_REGISTER, WRITE_COILS,
                WRITE_REGISTERS, REPORT_SLAVE_ID, MASK_WRITE, WRITE_AND_READ}
               \cup IF type = "confirmation" THEN {128 + READ_HOLDING} ELSE {}

Sent(b, type, fc, nb) ==
    [fc |-> fc, nb |-> nb, count |-> CountByte(fc, nb) % 256, at |-> 0,
     size |-> b.header + PduLength(fc, nb, type) + b.checksum]

Lying(b, fc, count) == [fc |-> fc, nb |-> 0, count |-> count, size |-> 24, at |-> 0]

LibraryFrames(b, type) ==
    {Sent(b, type, fc, 1) : fc \in Codes(type)}
        \cup {Sent(b, type, fc, MaxValues(fc, type)) : fc \in Codes(type)}

\* f, then an ordinary message.
Stream(b, type, f) ==
    LET g == [Sent(b, type, READ_HOLDING, 2) EXCEPT !.at = f.size]
    IN  [backend |-> b, type |-> type, frames |-> {f, g}, total |-> g.at + g.size]

Backends == {TcpBackend, RtuBackend}

LibraryLines ==
    UNION {{Stream(b, t, f) : f \in LibraryFrames(b, t)} :
           b \in Backends, t \in {"indication", "confirmation"}}

LyingLines ==
    UNION {{Stream(b, t, Lying(b, fc, c)) :
               fc \in {7, READ_COILS, WRITE_REGISTERS, WRITE_AND_READ},
               c \in {0, 247, 248, 255}} :
           b \in Backends, t \in {"indication", "confirmation"}}

AllLines == LibraryLines \cup LyingLines
NearEnds == {0, 1, 8, 13}
=============================================================================
