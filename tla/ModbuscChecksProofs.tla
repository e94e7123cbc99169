------------------------ MODULE ModbuscChecksProofs ------------------------
(***************************************************************************)
(* Proofs about modbusc's checks, for any numbers the options may have:    *)
(* what is accepted can be sent, and what can be sent is not turned down   *)
(* for its count or its addresses. The invariant says that the verdict is  *)
(* still the one the options and the range deserve.                        *)
(***************************************************************************)
EXTENDS ModbuscChecks, Extrema

ChecksInv ==
    verdict # "unread" =>
        /\ args \in ClientArguments
        /\ range = Rejected \/ SlaveRange(range)
        /\ \E address \in RegisterAddresses(args) : verdict = Verdict(range, args, address)

\* The verdict is "ok" if every check passes, and else the name of one that failed.
LEMMA VerdictCases ==
  ASSUME NEW r, NEW a, NEW address
  PROVE  \/ Verdict(r, a, address) = "ok" /\ \A i \in 1..10 : Passes(Checks[i], r, a, address)
         \/ \E i \in 1..10 : /\ ~Passes(Checks[i], r, a, address)
                             /\ Verdict(r, a, address) = Checks[i]
<1>. DEFINE failed == {i \in DOMAIN Checks : ~Passes(Checks[i], r, a, address)}
<1>1. DOMAIN Checks = 1..10
  BY DEF Checks
<1>2. Verdict(r, a, address) = IF failed = {} THEN "ok" ELSE Checks[Min(failed)]
  BY DEF Verdict
<1>3. CASE failed = {}
  BY <1>1, <1>2, <1>3
<1>4. CASE failed # {}
  <2>1. failed \in SUBSET Nat
    BY <1>1
  <2>2. Min(failed) \in failed
    <3>. HIDE DEF failed
    <3>. QED
      BY <1>4, <2>1, MinExists DEF Min
  <2>. QED
    BY <1>1, <1>2, <1>4, <2>2
<1>. QED
  BY <1>3, <1>4

\* The checks one by one.
LEMMA Places ==
  /\ Checks[1] = "slave address" /\ Checks[2] = "unsupported function" /\ Checks[3] = "count"
  /\ Checks[4] = "write functions" /\ Checks[5] = "register range" /\ Checks[6] = "timeout"
  /\ Checks[7] = "interframe delay" /\ Checks[8] = "TCP port" /\ Checks[9] = "baud rate"
  /\ Checks[10] = "values"
BY DEF Checks

\* No check is called "ok".
LEMMA Names == \A i \in 1..10 : Checks[i] # "ok"
<1>1. \A i \in 1..10 : i \in {1, 2, 3, 4, 5, 6, 7, 8, 9, 10}
  OBVIOUS
<1>. QED
  BY <1>1, Places

\* What options that pass every check are, as far as the properties are about it.
LEMMA Passed ==
  ASSUME NEW r, NEW a, NEW address, Verdict(r, a, address) = "ok"
  PROVE  /\ r # Rejected /\ Supported(a) /\ CountOk(a)
         /\ validate_register_range(address, Count(a))
         /\ a.timeout > 0
         /\ a.function \in Writes => ValueOk(a)
<1>1. \A i \in 1..10 : Passes(Checks[i], r, a, address)
  BY Names, VerdictCases
<1>2. ASSUME NEW i \in 1..10, NEW check, Checks[i] = check
      PROVE  Passes(check, r, a, address)
  BY <1>1, <1>2, Zenon
<1>3. /\ Passes("slave address", r, a, address) /\ Passes("unsupported function", r, a, address)
      /\ Passes("count", r, a, address) /\ Passes("register range", r, a, address)
      /\ Passes("timeout", r, a, address) /\ Passes("values", r, a, address)
  <2>. 1 \in 1..10 /\ 2 \in 1..10 /\ 3 \in 1..10 /\ 5 \in 1..10 /\ 6 \in 1..10 /\ 10 \in 1..10
    OBVIOUS
  <2>1. Passes("slave address", r, a, address)
    BY <1>2, Places, Zenon
  <2>2. Passes("unsupported function", r, a, address)
    BY <1>2, Places, Zenon
  <2>3. Passes("count", r, a, address)
    BY <1>2, Places, Zenon
  <2>4. Passes("register range", r, a, address)
    BY <1>2, Places, Zenon
  <2>5. Passes("timeout", r, a, address)
    BY <1>2, Places, Zenon
  <2>6. Passes("values", r, a, address)
    BY <1>2, Places, Zenon
  <2>. QED
    BY <2>1, <2>2, <2>3, <2>4, <2>5, <2>6, Zenon
<1>4. Passes("slave address", r, a, address) => r # Rejected
  BY DEF Passes
<1>5. Passes("unsupported function", r, a, address) => Supported(a)
  BY DEF Passes
<1>6. Passes("count", r, a, address) => CountOk(a)
  BY DEF Passes
<1>7. Passes("register range", r, a, address) => validate_register_range(address, Count(a))
  BY DEF Passes
<1>8. Passes("timeout", r, a, address) => a.timeout > 0
  BY DEF Passes
<1>9. Passes("values", r, a, address) => (a.function \in Writes => ValueOk(a))
  BY DEF Passes
<1>. QED
  BY <1>3, <1>4, <1>5, <1>6, <1>7, <1>8, <1>9, Zenon

\* And what options are that fail one of the two checks on counts and addresses.
LEMMA Failed ==
  ASSUME NEW r, NEW a, NEW address
  PROVE  /\ Verdict(r, a, address) = "count" => ~CountOk(a)
         /\ Verdict(r, a, address) = "register range"
               => ~validate_register_range(address, Count(a))
<1>1. ASSUME NEW check \in {"count", "register range"}, Verdict(r, a, address) = check
      PROVE  ~Passes(check, r, a, address)
  <2>1. PICK i \in 1..10 : ~Passes(Checks[i], r, a, address) /\ Verdict(r, a, address) = Checks[i]
    BY <1>1, VerdictCases
  <2>. QED
    BY <1>1, <2>1, Zenon
<1>2. ~Passes("count", r, a, address) => ~CountOk(a)
  BY DEF Passes
<1>3. ~Passes("register range", r, a, address) => ~validate_register_range(address, Count(a))
  BY DEF Passes
<1>. QED
  BY <1>1, <1>2, <1>3, Zenon

-----------------------------------------------------------------------------
\* The verdict is given once, on what is then never changed.
THEOREM ChecksInvariance == ChecksSpec => []ChecksInv
<1>1. ChecksInit => ChecksInv
  BY DEF ChecksInit, ChecksInv
<1>2. ChecksInv /\ [ChecksNext]_checkVars => ChecksInv'
  <2>. SUFFICES ASSUME ChecksInv, [ChecksNext]_checkVars
                PROVE  ChecksInv'
    OBVIOUS
  <2>1. CASE ChecksNext /\ verdict = "unread" /\ UNCHANGED <<range, verdict>>
    BY <2>1 DEF ChecksInv
  <2>2. CASE /\ args \in ClientArguments /\ (range' = Rejected \/ SlaveRange(range'))
             /\ CheckRange(range')
    <3>1. UNCHANGED args
      BY <2>2 DEF CheckRange
    <3>2. PICK address \in RegisterAddresses(args) : verdict' = Verdict(range', args, address)
      BY <2>2 DEF CheckRange
    <3>3. \E a \in RegisterAddresses(args') : verdict' = Verdict(range', args', a)
      BY <3>1, <3>2, Zenon
    <3>4. args' \in ClientArguments
      BY <2>2, <3>1
    <3>5. range' = Rejected \/ SlaveRange(range)'
      BY <2>2 DEF SlaveRange
    <3>. QED
      BY <3>3, <3>4, <3>5 DEF ChecksInv, Rejected
  <2>3. CASE UNCHANGED checkVars
    <3>1. UNCHANGED args /\ UNCHANGED range /\ UNCHANGED verdict
      BY <2>3 DEF checkVars
    <3>2. CASE verdict = "unread"
      BY <3>1, <3>2 DEF ChecksInv
    <3>3. CASE verdict # "unread"
      <4>1. args' \in ClientArguments
        BY <3>1, <3>3 DEF ChecksInv
      <4>2. range' = Rejected \/ SlaveRange(range)'
        BY <3>1, <3>3 DEF ChecksInv, SlaveRange
      <4>3. PICK address \in RegisterAddresses(args) : verdict = Verdict(range, args, address)
        BY <3>3 DEF ChecksInv
      <4>4. \E a \in RegisterAddresses(args') : verdict' = Verdict(range', args', a)
        BY <3>1, <4>3, Zenon
      <4>. QED
        BY <4>1, <4>2, <4>4 DEF ChecksInv, Rejected
    <3>. QED
      BY <3>2, <3>3
  <2>. QED
    BY <2>1, <2>2, <2>3 DEF ChecksNext
<1>. QED
  BY <1>1, <1>2, PTL DEF ChecksSpec

-----------------------------------------------------------------------------
\* How many values a request of a supported function may carry, and how long it is then.
LEMMA LimitsHold ==
  ASSUME NEW f \in ReadBits \cup ReadRegisters \cup Writes, NEW n \in 1..MaxValues(f, "indication"),
         f \in Single => n = 1
  PROVE  RequestPdu(f, n) <= 253 /\ ResponsePdu(f, n) <= 253
<1>. USE DEF READ_COILS, READ_DISCRETE_INPUTS, READ_HOLDING, READ_INPUT, WRITE_COIL, WRITE_REGISTER,
             WRITE_COILS, WRITE_REGISTERS, READ_EXCEPTION_STATUS, REPORT_SLAVE_ID, MASK_WRITE,
             WRITE_AND_READ, ReadBits, ReadRegisters, Writes, Single
<1>1. CASE f \in {1, 2}
  <2>1. n \in 1..2000
    BY <1>1, SMT DEF MaxValues, MaxReadBits, REPORT_SLAVE_ID, WRITE_AND_READ
  <2>2. BitBytes(n) \in 0..251
    BY <2>1 DEF BitBytes
  <2>. QED
    BY <1>1, <2>2, SMT DEF RequestPdu, ResponsePdu
<1>2. CASE f \in {3, 4}
  <2>1. n \in 1..125
    BY <1>2, SMT DEF MaxValues, MaxReadRegisters, REPORT_SLAVE_ID, WRITE_AND_READ
  <2>. QED
    BY <1>2, <2>1, SMT DEF RequestPdu, ResponsePdu
<1>3. CASE f \in {5, 6}
  BY <1>3, SMT DEF RequestPdu, ResponsePdu
<1>4. CASE f = 15
  <2>1. n \in 1..1968
    BY <1>4, SMT DEF MaxValues, MaxWriteBits, REPORT_SLAVE_ID, WRITE_AND_READ
  <2>2. BitBytes(n) \in 0..247
    BY <2>1 DEF BitBytes
  <2>. QED
    BY <1>4, <2>2, SMT DEF RequestPdu, ResponsePdu
<1>5. CASE f = 16
  <2>1. n \in 1..123
    BY <1>5, SMT DEF MaxValues, MaxWriteRegisters, REPORT_SLAVE_ID, WRITE_AND_READ
  <2>. QED
    BY <1>5, <2>1, SMT DEF RequestPdu, ResponsePdu
<1>. QED
  BY <1>1, <1>2, <1>3, <1>4, <1>5

\* No address is at an end of int, nor comes of taking one off the lower.
LEMMA Ends == /\ \A n \in 0..MaxAddress : n # INT_MIN /\ n # INT_MAX
              /\ \A n \in Int : n - 1 \in 0..MaxAddress => n # INT_MIN
<1>1. PICK top \in Int : top = MaxAddress
  BY SMT DEF MaxAddress
<1>2. PICK low \in Int : low = INT_MIN /\ low < 0
  BY SMT DEF INT_MIN
<1>3. PICK high \in Int : high = INT_MAX /\ top < high
  BY <1>1, SMT DEF MaxAddress, INT_MAX
<1>. QED
  BY <1>1, <1>2, <1>3

\* What --base-1 makes of the register is what is meant, once it is an address.
LEMMA AddressMeant ==
  ASSUME NEW a \in ClientArguments, NEW address \in RegisterAddresses(a), address \in 0..MaxAddress
  PROVE  address = First(a)
<1>1. CASE ~a.baseOne
  BY <1>1, Zenon DEF RegisterAddresses, First
<1>2. CASE a.baseOne
  <2>1. address \in IF a.reg = INT_MIN THEN {INT_MIN, INT_MAX} ELSE {a.reg - 1}
    BY <1>2, Zenon DEF RegisterAddresses
  <2>2. address # INT_MIN /\ address # INT_MAX
    BY Ends
  <2>. QED
    BY <1>2, <2>1, <2>2, Zenon DEF First
<1>. QED
  BY <1>1, <1>2, Zenon

\* A supported function carries as many values as its count check allows.
LEMMA CountMeant ==
  ASSUME NEW a \in ClientArguments, Supported(a)
  PROVE  /\ Count(a) \in Int
         /\ CountOk(a) => /\ Count(a) \in 1..MaxValues(a.function, "indication")
                          /\ a.function \in Single => Count(a) = 1
         /\ Count(a) \in 1..MaxValues(a.function, "indication") /\ ~CountOk(a)
               => a.function \in Single /\ a.writes # 1
<1>1. PICK f, c, w : f = a.function /\ c = a.count /\ w = a.writes
  OBVIOUS
<1>2. f \in ReadBits \cup ReadRegisters \cup Writes /\ c \in Int /\ w \in Nat
  BY <1>1 DEF ClientArguments, Supported
<1>3. Count(a) = IF f \in Single THEN 1 ELSE IF f \in Writes THEN w ELSE c
  BY <1>1, Zenon DEF Count
<1>4. CountOk(a) <=> /\ f \in ReadBits      => c \in 1..MaxReadBits
                     /\ f \in ReadRegisters => c \in 1..MaxReadRegisters
                     /\ f \in Single        => w = 1
                     /\ f = WRITE_COILS     => w \in 1..MaxWriteBits
                     /\ f = WRITE_REGISTERS => w \in 1..MaxWriteRegisters
  BY <1>1, Zenon DEF CountOk
<1>5. SUFFICES
        /\ Count(a) \in Int
        /\ CountOk(a) => /\ Count(a) \in 1..MaxValues(f, "indication")
                         /\ f \in Single => Count(a) = 1
        /\ Count(a) \in 1..MaxValues(f, "indication") /\ ~CountOk(a) => f \in Single /\ w # 1
  BY <1>1, Zenon
<1>. USE DEF READ_COILS, READ_DISCRETE_INPUTS, READ_HOLDING, READ_INPUT, WRITE_COIL, WRITE_REGISTER,
             WRITE_COILS, WRITE_REGISTERS, ReadBits, ReadRegisters, Writes, Single
<1>6. CASE f \in {1, 2}
  <2>1. MaxValues(f, "indication") = 2000
    BY <1>6, SMT DEF MaxValues, MaxReadBits, REPORT_SLAVE_ID, WRITE_AND_READ
  <2>2. Count(a) = c
    BY <1>3, <1>6, SMT
  <2>3. CountOk(a) <=> c \in 1..2000
    BY <1>4, <1>6, SMT DEF MaxReadBits
  <2>. QED
    BY <1>2, <1>6, <2>1, <2>2, <2>3, SMT
<1>7. CASE f \in {3, 4}
  <2>1. MaxValues(f, "indication") = 125
    BY <1>7, SMT DEF MaxValues, MaxReadRegisters, REPORT_SLAVE_ID, WRITE_AND_READ
  <2>2. Count(a) = c
    BY <1>3, <1>7, SMT
  <2>3. CountOk(a) <=> c \in 1..125
    BY <1>4, <1>7, SMT DEF MaxReadRegisters
  <2>. QED
    BY <1>2, <1>7, <2>1, <2>2, <2>3, SMT
<1>8. CASE f \in {5, 6}
  <2>1. MaxValues(f, "indication") = 65535
    BY <1>8, SMT DEF MaxValues, REPORT_SLAVE_ID, WRITE_AND_READ
  <2>2. Count(a) = 1
    BY <1>3, <1>8, SMT
  <2>3. CountOk(a) <=> w = 1
    BY <1>4, <1>8, SMT DEF REPORT_SLAVE_ID, WRITE_AND_READ
  <2>. QED
    BY <1>2, <1>8, <2>1, <2>2, <2>3, SMT
<1>9. CASE f = 15
  <2>1. MaxValues(f, "indication") = 1968
    BY <1>9, SMT DEF MaxValues, MaxWriteBits, REPORT_SLAVE_ID, WRITE_AND_READ
  <2>2. Count(a) = w
    BY <1>3, <1>9, SMT
  <2>3. CountOk(a) <=> w \in 1..1968
    BY <1>4, <1>9, SMT DEF MaxWriteBits
  <2>. QED
    BY <1>2, <1>9, <2>1, <2>2, <2>3, SMT
<1>10. CASE f = 16
  <2>1. MaxValues(f, "indication") = 123
    BY <1>10, SMT DEF MaxValues, MaxWriteRegisters, REPORT_SLAVE_ID, WRITE_AND_READ
  <2>2. Count(a) = w
    BY <1>3, <1>10, SMT
  <2>3. CountOk(a) <=> w \in 1..123
    BY <1>4, <1>10, SMT DEF MaxWriteRegisters
  <2>. QED
    BY <1>2, <1>10, <2>1, <2>2, <2>3, SMT
<1>. QED
  BY <1>2, <1>6, <1>7, <1>8, <1>9, <1>10, SMT

\* A positive number of milliseconds is split without loss.
LEMMA TimeoutMeant ==
  ASSUME NEW ms \in Int, ms > 0
  PROVE  LET t == mbu_timeout_from_ms(ms)
         IN  /\ t.microseconds <= 999999 /\ t.seconds + t.microseconds > 0
             /\ t.seconds * 1000 + t.microseconds \div 1000 = ms
<1>. DEFINE s == ms \div 1000
            u == ms % 1000
<1>1. s \in Nat /\ u \in 0..999 /\ ms = 1000 * s + u
  OBVIOUS
<1>2. (u * 1000) \div 1000 = u
  BY <1>1
<1>3. u * 1000 <= 999999 /\ s + u * 1000 > 0 /\ s * 1000 + (u * 1000) \div 1000 = ms
  <2>. HIDE DEF s, u
  <2>. QED
    BY <1>1, <1>2, SMT
<1>4. /\ mbu_timeout_from_ms(ms).seconds = s
      /\ mbu_timeout_from_ms(ms).microseconds = u * 1000
  BY SMT DEF mbu_timeout_from_ms
<1>. HIDE DEF s, u
<1>. QED
  BY <1>3, <1>4, SMT

-----------------------------------------------------------------------------
\* Two ways to say that the last of n values has an address.
LEMMA LastFits ==
  ASSUME NEW f \in Int, NEW n \in Int
  PROVE  f \in 0..MaxAddress /\ n > 0 /\ n - 1 <= MaxAddress - f
            <=> f >= 0 /\ n > 0 /\ f + n - 1 <= MaxAddress
<1>1. MaxAddress \in Int
  BY DEF MaxAddress
<1>. QED
  BY <1>1

\* The registers pass if the address that is meant fits, and all that follow it.
LEMMA RegistersMeant ==
  ASSUME NEW a \in ClientArguments, NEW address \in RegisterAddresses(a), Count(a) \in Int
  PROVE  /\ First(a) \in Int
         /\ validate_register_range(address, Count(a))
               <=> First(a) >= 0 /\ Count(a) > 0 /\ First(a) + Count(a) - 1 <= MaxAddress
<1>1. First(a) \in Int
  <2>1. a.reg \in Int /\ a.reg - 1 \in Int
    BY DEF ClientArguments
  <2>. QED
    BY <2>1, Zenon DEF First
<1>2. PICK f, n : f = First(a) /\ n = Count(a) /\ f \in Int /\ n \in Int
  BY <1>1
<1>3. f \in 0..MaxAddress => address = f
  <2>1. SUFFICES ASSUME f \in 0..MaxAddress PROVE address = f
    OBVIOUS
  <2>2. CASE ~a.baseOne
    BY <1>2, <2>2, Zenon DEF RegisterAddresses, First
  <2>3. CASE a.baseOne
    <3>1. f = a.reg - 1 /\ a.reg \in Int
      BY <1>2, <2>3 DEF First, ClientArguments
    <3>2. a.reg # INT_MIN
      BY <2>1, <3>1, Ends
    <3>. QED
      BY <2>3, <3>1, <3>2, Zenon DEF RegisterAddresses
  <2>. QED
    BY <2>2, <2>3
<1>4. address \in 0..MaxAddress => address = f
  BY <1>2, AddressMeant, Zenon
<1>5. validate_register_range(address, n)
         <=> address \in 0..MaxAddress /\ n > 0 /\ n - 1 <= MaxAddress - address
  BY DEF validate_register_range
<1>6. address \in 0..MaxAddress <=> f \in 0..MaxAddress
  BY <1>3, <1>4, Zenon
<1>7. f \in 0..MaxAddress /\ n > 0 /\ n - 1 <= MaxAddress - f
         <=> f >= 0 /\ n > 0 /\ f + n - 1 <= MaxAddress
  BY <1>2, LastFits
<1>8. validate_register_range(address, n)
         <=> f \in 0..MaxAddress /\ n > 0 /\ n - 1 <= MaxAddress - f
  BY <1>3, <1>5, <1>6, Zenon
<1>. QED
  BY <1>1, <1>2, <1>7, <1>8, Zenon

\* The options are numbers.
LEMMA Numbers ==
  ASSUME NEW a \in ClientArguments
  PROVE  a.reg \in Int /\ a.count \in Int /\ a.writes \in Int /\ a.timeout \in Int
BY DEF ClientArguments

\* The number of the first register, and how it is taken off.
LEMMA BaseMeant ==
  ASSUME NEW a \in ClientArguments
  PROVE  \E base \in {0, 1} : base = (IF a.baseOne THEN 1 ELSE 0) /\ First(a) = a.reg - base
<1>1. CASE a.baseOne
  BY <1>1, Zenon DEF First
<1>2. CASE ~a.baseOne
  <2>1. \A reg \in Int : reg - 0 = reg
    OBVIOUS
  <2>. QED
    BY <1>2, <2>1, Numbers, Zenon DEF First
<1>. QED
  BY <1>1, <1>2

\* Out of the range that fits is beyond a limit, however many values may be asked for.
LEMMA OutOfRange ==
  ASSUME NEW reg \in Int, NEW base \in {0, 1}, NEW n \in Int, NEW m,
         ~(reg - base >= 0 /\ n > 0 /\ reg - base + n - 1 <= MaxAddress)
  PROVE  n \notin 1..m \/ reg \notin base..base + MaxAddress \/ reg - base + n - 1 > MaxAddress
<1>1. MaxAddress \in Int
  BY DEF MaxAddress
<1>2. n \in 1..m => n > 0
  OBVIOUS
<1>. QED
  BY <1>1, <1>2

\* A value that passes has 16 bits.
LEMMA ValueFits ==
  ASSUME NEW a, ValueOk(a)
  PROVE  a.value \in 0..MaxAddress
<1>1. a.value \in {0, 1} \/ a.value \in 0..UINT16_MAX
  BY Zenon DEF ValueOk
<1>2. UINT16_MAX = MaxAddress
  BY DEF MaxAddress, UINT16_MAX
<1>3. 0 \in 0..MaxAddress /\ 1 \in 0..MaxAddress
  BY SMT DEF MaxAddress
<1>. QED
  BY <1>1, <1>2, <1>3, Zenon

\* And the count is a number, whatever the function.
LEMMA CountIsInt ==
  ASSUME NEW a \in ClientArguments
  PROVE  Count(a) \in Int
<1>1. 1 \in Int
  OBVIOUS
<1>. QED
  BY <1>1, Numbers, Zenon DEF Count

\* What is between 0 and 65535 is what its 16 bits are.
LEMMA SixteenBits == \A n \in 0..MaxAddress : n % 65536 = n
<1>1. MaxAddress \in Nat
  BY SMT DEF MaxAddress
<1>2. \A n \in 0..MaxAddress : n \in Nat /\ n <= MaxAddress
  BY <1>1, SMT
<1>3. \A n \in Nat : n <= MaxAddress => n % 65536 = n
  BY SMT DEF MaxAddress
<1>. QED
  BY <1>2, <1>3, SMT

-----------------------------------------------------------------------------
\* One verdict: what passes can be sent.
LEMMA OkIsSendable ==
  ASSUME NEW r, r = Rejected \/ SlaveRange(r), NEW a \in ClientArguments,
         NEW address \in RegisterAddresses(a), Verdict(r, a, address) = "ok"
  PROVE  Sendable(r, a)
<1>1. /\ r # Rejected /\ Supported(a) /\ CountOk(a)
      /\ validate_register_range(address, Count(a))
      /\ a.timeout > 0
      /\ a.function \in Writes => ValueOk(a)
  BY Passed
<1>2. Count(a) \in Int /\ Count(a) \in 1..MaxValues(a.function, "indication")
      /\ (a.function \in Single => Count(a) = 1)
  BY <1>1, CountMeant
<1>3. RequestPdu(a.function, Count(a)) <= 253 /\ ResponsePdu(a.function, Count(a)) <= 253
  <2>1. a.function \in ReadBits \cup ReadRegisters \cup Writes
    BY <1>1 DEF Supported
  <2>. QED
    BY <1>2, <2>1, LimitsHold
<1>4. First(a) \in Int /\ First(a) >= 0 /\ Count(a) > 0 /\ First(a) + Count(a) - 1 <= MaxAddress
  BY <1>1, <1>2, RegistersMeant
<1>5. \A i \in {0, Count(a) - 1} : (First(a) + i) % 65536 = First(a) + i
  <2>1. PICK f, n : f = First(a) /\ n = Count(a)
    OBVIOUS
  <2>2. MaxAddress \in Int
    BY DEF MaxAddress
  <2>3. \A i \in {0, n - 1} : f + i \in 0..MaxAddress
    BY <1>2, <1>4, <2>1, <2>2
  <2>. QED
    <3>1. \A i \in {0, n - 1} : (f + i) % 65536 = f + i
      BY <2>3, SixteenBits, SMT
    <3>. QED
      BY <2>1, <3>1, SMT
<1>6. a.function \in Writes => a.value % 65536 = a.value
  <2>1. ASSUME ValueOk(a)
        PROVE  a.value \in 0..MaxAddress
    BY <2>1, ValueFits, Zenon
  <2>2. a.value \in 0..MaxAddress => a.value % 65536 = a.value
    BY SixteenBits, SMT
  <2>. QED
    BY <1>1, <2>1, <2>2, SMT
<1>7. LET t == mbu_timeout_from_ms(a.timeout)
      IN  /\ t.microseconds <= 999999 /\ t.seconds + t.microseconds > 0
          /\ t.seconds * 1000 + t.microseconds \div 1000 = a.timeout
  <2>1. a.timeout \in Int
    BY DEF ClientArguments
  <2>. QED
    BY <1>1, <2>1, TimeoutMeant, SMT
<1>8. SlaveRange(r)
  BY <1>1
<1>. QED
  BY <1>2, <1>3, <1>5, <1>6, <1>7, <1>8, SMT DEF Sendable

\* One verdict: what is turned down for its count or its addresses is beyond a limit.
LEMMA TurnedDownIsBeyond ==
  ASSUME NEW r, NEW a \in ClientArguments, NEW address \in RegisterAddresses(a),
         Verdict(r, a, address) \in {"count", "register range"}
  PROVE  BeyondLimits(a)
<1>1. Count(a) \in Int
  BY CountIsInt, Zenon
<1>2. CASE Verdict(r, a, address) = "count"
  <2>1. ~CountOk(a)
    BY <1>2, Failed, Zenon
  <2>2. Supported(a)
    BY <2>1, Zenon DEF CountOk, Supported, Writes, Single
  <2>. QED
    BY <2>1, <2>2, CountMeant, Zenon DEF BeyondLimits
<1>3. CASE Verdict(r, a, address) = "register range"
  <2>1. ~(First(a) >= 0 /\ Count(a) > 0 /\ First(a) + Count(a) - 1 <= MaxAddress)
    BY <1>1, <1>3, Failed, RegistersMeant, Zenon
  <2>2. PICK base \in {0, 1} : base = (IF a.baseOne THEN 1 ELSE 0) /\ First(a) = a.reg - base
    BY BaseMeant, Zenon
  <2>3. ~(a.reg - base >= 0 /\ Count(a) > 0 /\ a.reg - base + Count(a) - 1 <= MaxAddress)
    BY <2>1, <2>2, Zenon
  <2>4. a.reg \in Int
    BY Numbers, Zenon
  <2>. QED
    BY <1>1, <2>2, <2>3, <2>4, OutOfRange, Zenon DEF BeyondLimits
<1>. QED
  BY <1>2, <1>3

-----------------------------------------------------------------------------
\* Whatever numbers the options are, what the checks accept can be sent (AcceptedIsSendable).
THEOREM AcceptedCorrect == ChecksSpec => []AcceptedIsSendable
<1>1. ChecksInv => AcceptedIsSendable
  <2>1. PICK r, a, v : r = range /\ a = args /\ v = verdict
    OBVIOUS
  <2>. SUFFICES ASSUME ChecksInv, v = "ok" PROVE Sendable(r, a)
    BY <2>1, Zenon DEF AcceptedIsSendable
  <2>2. /\ a \in ClientArguments /\ (r = Rejected \/ SlaveRange(r))
        /\ \E address \in RegisterAddresses(a) : v = Verdict(r, a, address)
    BY <2>1 DEF ChecksInv
  <2>. QED
    BY <2>2, OkIsSendable
<1>. QED
  BY <1>1, ChecksInvariance, PTL

\* And what they turn down for its count or addresses is beyond a limit (SendableIsAccepted).
THEOREM TurnedDownCorrect == ChecksSpec => []SendableIsAccepted
<1>1. ChecksInv => SendableIsAccepted
  <2>1. PICK r, a, v : r = range /\ a = args /\ v = verdict
    OBVIOUS
  <2>. SUFFICES ASSUME ChecksInv, v \in {"count", "register range"} PROVE BeyondLimits(a)
    BY <2>1, Zenon DEF SendableIsAccepted
  <2>2. /\ a \in ClientArguments
        /\ \E address \in RegisterAddresses(a) : v = Verdict(r, a, address)
    BY <2>1 DEF ChecksInv
  <2>. QED
    BY <2>2, TurnedDownIsBeyond
<1>. QED
  BY <1>1, ChecksInvariance, PTL

=============================================================================
