--------------------------- MODULE ModbuscChecks ---------------------------
(***************************************************************************)
(* The checks modbusc's main makes of its numbers before any I/O           *)
(* (src/modbusc.c), against what libmodbus needs of a request. How --addr  *)
(* is read is ModbuscArguments', how the line is parsed CommandLine's; the *)
(* checks are one step, which takes the range that was read. Numbers are   *)
(* unbounded here: an int is one of them.                                  *)
(***************************************************************************)
EXTENDS ModbusPdu, CInts, FiniteSetsExt

VARIABLES
    args,        \* the values of the options but --addr
    range,       \* <<start, end>> of --addr, or Rejected
    verdict      \* "unread", the check that failed, or "ok"

checkVars == <<args, range, verdict>>

Rejected == <<-1, -1>>

MaxSlave   == 247
MaxAddress == 65535

\* The seconds and microseconds of a positive number of milliseconds.
mbu_timeout_from_ms(ms) == [seconds |-> ms \div 1000, microseconds |-> (ms % 1000) * 1000]

\* --base-1 takes one off; to do so from INT_MIN is undefined, and what may
\* come of it is that, or a wrapped number.
RegisterAddresses(a) ==
    IF ~a.baseOne THEN {a.reg}
    ELSE IF a.reg = INT_MIN THEN {INT_MIN, INT_MAX} ELSE {a.reg - 1}

Writes == {WRITE_COIL, WRITE_REGISTER, WRITE_COILS, WRITE_REGISTERS}
Single == {WRITE_COIL, WRITE_REGISTER}

Count(a) == IF a.function \in Single THEN 1
            ELSE IF a.function \in Writes THEN a.writes ELSE a.count

\* The limit on what the function reads or writes, whichever of the two it does.
CountOk(a) ==
    /\ a.function \in ReadBits      => a.count \in 1..MaxReadBits
    /\ a.function \in ReadRegisters => a.count \in 1..MaxReadRegisters
    /\ a.function \in Single        => a.writes = 1
    /\ a.function = WRITE_COILS     => a.writes \in 1..MaxWriteBits
    /\ a.function = WRITE_REGISTERS => a.writes \in 1..MaxWriteRegisters

\* Mutant: the count is added to the address.
RangeOkByEnd(address, count) == address \in 0..MaxAddress /\ count > 0
                                /\ address + count <= MaxAddress + 2
\* Mutant: the count is what may remain after the address.
RangeOkStrict(address, count) == address \in 0..MaxAddress /\ count > 0
                                 /\ count <= MaxAddress - address
validate_register_range(address, count) ==
    /\ address \in 0..MaxAddress
    /\ count > 0
    /\ count - 1 <= MaxAddress - address

ValueOk(a) == IF a.function \in {WRITE_COIL, WRITE_COILS} THEN a.value \in {0, 1}
                                                         ELSE a.value \in 0..UINT16_MAX

Supported(a) == a.function \in ReadBits \cup ReadRegisters \cup Writes

\* The checks in their order, each by what its message is about.
Checks == << "slave address", "unsupported function", "count", "write functions",
             "register range", "timeout", "interframe delay", "TCP port", "baud rate", "values" >>

Passes(check, r, a, address) ==
    CASE check = "slave address"        -> r # Rejected
      [] check = "unsupported function" -> Supported(a)
      [] check = "count"                -> CountOk(a)
      [] check = "write functions"      -> a.function \in Writes \/ a.writes = 0
      [] check = "register range"       -> validate_register_range(address, Count(a))
      [] check = "timeout"              -> a.timeout > 0
      [] check = "interframe delay"     -> a.delay >= 0
      [] check = "TCP port"             -> a.tcp => a.port \in 1..65535
      [] check = "baud rate"            -> ~a.tcp => a.baud > 0
      [] check = "values"               -> a.function \in Writes => ValueOk(a)

Verdict(r, a, address) ==
    LET failed == {i \in DOMAIN Checks : ~Passes(Checks[i], r, a, address)}
    IN  IF failed = {} THEN "ok" ELSE Checks[Min(failed)]

\* The checks, once --addr has been read as r.
CheckRange(r) ==
    /\ verdict = "unread"
    /\ range' = r
    /\ \E address \in RegisterAddresses(args) : verdict' = Verdict(r, args, address)
    /\ UNCHANGED args

-----------------------------------------------------------------------------
(* The checks by themselves, for any options and any range of slaves.      *)

ClientArguments ==
    [reg : Int, baseOne : BOOLEAN, function : Int, count : Int, writes : Nat, value : Int,
     timeout : Int, delay : Int, tcp : BOOLEAN, port : Int, baud : Int]

SlaveRange(r) == r \in (0..MaxSlave) \X (0..MaxSlave) /\ r[1] <= r[2]

ChecksInit == range = Rejected /\ verdict = "unread"

\* The line may give the options their values until they are checked.
ChecksNext ==
    \/ /\ args \in ClientArguments /\ (range' = Rejected \/ SlaveRange(range'))
       /\ CheckRange(range')
    \/ verdict = "unread" /\ UNCHANGED <<range, verdict>>

ChecksSpec == ChecksInit /\ [][ChecksNext]_checkVars

-----------------------------------------------------------------------------
(* Properties.                                                             *)

\* The address of the first value, as it is meant.
First(a) == IF a.baseOne THEN a.reg - 1 ELSE a.reg

Sendable(r, a) ==
    LET n == Count(a)
        t == mbu_timeout_from_ms(a.timeout)
    IN  /\ SlaveRange(r)
        /\ n \in 1..MaxValues(a.function, "indication")
        /\ RequestPdu(a.function, n) <= 253 /\ ResponsePdu(a.function, n) <= 253
        /\ \A i \in {0, n - 1} : (First(a) + i) % 65536 = First(a) + i
        /\ a.function \in Writes => a.value % 65536 = a.value
        /\ t.microseconds <= 999999 /\ t.seconds + t.microseconds > 0
        /\ t.seconds * 1000 + t.microseconds \div 1000 = a.timeout

BeyondLimits(a) ==
    LET n == Count(a)
        base == IF a.baseOne THEN 1 ELSE 0
    IN  \/ n \notin 1..MaxValues(a.function, "indication")
        \/ a.function \in Single /\ a.writes # 1
        \/ a.reg \notin base..base + MaxAddress \/ a.reg - base + n - 1 > MaxAddress

(* What passes the checks can be sent: the addresses are those of slaves,  *)
(* the values are as many as the library and a PDU take, every address     *)
(* they touch fits in 16 bits, and modbus_set_response_timeout takes the   *)
(* timeout.                                                                *)
AcceptedIsSendable == verdict = "ok" => Sendable(range, args)

(* And what the limits of the protocol allow is not turned down, at the    *)
(* ends of each of them.                                                   *)
SendableIsAccepted == verdict \in {"count", "register range"} => BeyondLimits(args)
=============================================================================
