--------------------------- MODULE ModbusContext ---------------------------
(***************************************************************************)
(* The contexts libmodbus makes of the settings a program gives it, and    *)
(* what they are in the end to the operating system: the line settings     *)
(* that _modbus_rtu_connect asks of a serial device (modbus-rtu.c), and    *)
(* the address and port modbus_tcp_listen binds (modbus-tcp.c). Memory     *)
(* never runs out; NULL is a context that was refused.                     *)
(***************************************************************************)
EXTENDS TRex, FiniteSets

NULL == [backend |-> "none"]

TCP_SLAVE == 255

-----------------------------------------------------------------------------
(* Serial lines.                                                           *)

modbus_new_rtu(device, baud, parity, data_bit, stop_bit) ==
    IF device = "" \/ baud = 0 \/ parity \notin {"N", "E", "O"} THEN NULL
    ELSE [backend |-> "rtu", device |-> device, baud |-> baud, parity |-> parity,
          data_bit |-> data_bit, stop_bit |-> stop_bit, slave |-> -1]

\* The rates that have a constant in termios. Any other one becomes 9600.
Speeds == {110, 300, 600, 1200, 2400, 4800, 9600, 19200, 38400, 57600, 115200, 230400, 460800,
           500000, 576000, 921600, 1000000, 1152000, 1500000, 2500000, 3000000, 3500000, 4000000}
_get_termios_speed(baud) == IF baud \in Speeds THEN baud ELSE 9600

\* The flags of the termios structure: it is zeroed, and these are set.
SizeFlag(data_bit) == CASE data_bit = 5 -> "CS5" [] data_bit = 6 -> "CS6"
                        [] data_bit = 7 -> "CS7" [] OTHER -> "CS8"
ParityFlags(parity) == CASE parity = "N" -> {}
                         [] parity = "E" -> {"PARENB", "INPCK"}
                         [] OTHER -> {"PARENB", "PARODD", "INPCK"}
_modbus_rtu_flags(ctx) ==
    {"CREAD", "CLOCAL", SizeFlag(ctx.data_bit)} \cup ParityFlags(ctx.parity)
    \cup (IF ctx.stop_bit = 1 THEN {} ELSE {"CSTOPB"})

\* What tcsetattr is called with.
LineSettings(ctx) == [device |-> ctx.device, speed |-> _get_termios_speed(ctx.baud),
                      flags |-> _modbus_rtu_flags(ctx)]

-----------------------------------------------------------------------------
(* TCP.                                                                    *)

modbus_new_tcp(ip, port) ==
    IF ip = "" \/ Len(ip) > 15 THEN NULL
    ELSE [backend |-> "tcp", ip |-> ip, port |-> port, slave |-> TCP_SLAVE]

Octet(t) == /\ Len(t) \in 1..3 /\ \A c \in CharsOf(t) : isdigit(c)
            /\ trex_parsenumber(t, 1, 0).value <= 255
            /\ At(t, 1) = "0" => t = "0"

\* Whether the text is four numbers below 256, none with a zero before it.
inet_pton(ip) ==
    \E a, b, c \in Places(ip, ".") :
        /\ Places(ip, ".") = {a, b, c} /\ a < b /\ b < c
        /\ Octet(SubSeq(ip, 1, a - 1)) /\ Octet(SubSeq(ip, a + 1, b - 1))
        /\ Octet(SubSeq(ip, b + 1, c - 1)) /\ Octet(From(ip, c + 1))

\* What modbus_tcp_listen binds, or NULL.
modbus_tcp_listen(ctx) ==
    IF At(ctx.ip, 1) = "0" THEN [backend |-> "tcp", ip |-> "0.0.0.0", port |-> ctx.port]
    ELSE IF inet_pton(ctx.ip) THEN [backend |-> "tcp", ip |-> ctx.ip, port |-> ctx.port]
    ELSE NULL

-----------------------------------------------------------------------------
\* Both backends' _modbus_set_slave.
modbus_set_slave(ctx, slave) ==
    IF slave \in 0..247 \/ (ctx.backend = "tcp" /\ slave = TCP_SLAVE)
    THEN [ctx EXCEPT !.slave = slave] ELSE NULL
=============================================================================
