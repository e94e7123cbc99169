------------------------ MODULE ModbusExchangeProofs ------------------------
(* Proofs that libmodbus's calls and modbus_reply together are a memory,    *)
(* for tables of any size at any address, any calls and any clients.        *)
EXTENDS ModbusExchange, SequenceTheorems, TLAPS

-----------------------------------------------------------------------------
(* Eight bits to a byte                                                     *)

\* There are enough bytes for n bits and no byte is empty.
LEMMA EnoughBytes ==
  ASSUME NEW n \in Nat
  PROVE  /\ BitBytes(n) \in Nat
         /\ 8 * BitBytes(n) >= n
         /\ n <= 1968 => BitBytes(n) <= 246
         /\ n <= 2000 => BitBytes(n) <= 250
         /\ n > 0 => BitBytes(n) > 0
BY DEF BitBytes

\* Quotient and remainder.
LEMMA ByEight ==
  ASSUME NEW m \in Nat
  PROVE  \E q \in Nat, r \in 0..7 : m = 8 * q + r /\ m \div 8 = q /\ m % 8 = r
<1>1. m \div 8 \in Nat /\ m % 8 \in 0..7
  OBVIOUS
<1>2. PICK q \in Nat : q = m \div 8
  BY <1>1
<1>3. PICK r \in 0..7 : r = m % 8
  BY <1>1
<1>4. m = 8 * q + r
  BY <1>2, <1>3
<1>. QED
  BY <1>2, <1>3, <1>4

\* Where the bit number i is: bit r of byte q, counted from 0.
LEMMA BitPlace ==
  ASSUME NEW n \in Nat, NEW i \in 0..n - 1
  PROVE  \E q \in Nat, r \in 0..7 :
            /\ i \div 8 = q /\ i % 8 = r /\ 8 * q + r = i
            /\ q + 1 \in 1..BitBytes(n)
<1>1. i \in Nat /\ i < n
  OBVIOUS
<1>2. PICK q \in Nat, r \in 0..7 : i = 8 * q + r /\ i \div 8 = q /\ i % 8 = r
  BY <1>1, ByEight
<1>3. q + 1 <= BitBytes(n)
  <2>1. CASE n % 8 = 0
    <3>1. PICK m \in Nat : m = n \div 8 /\ n = 8 * m
      BY <2>1
    <3>. QED
      BY <1>1, <1>2, <2>1, <3>1 DEF BitBytes
  <2>2. CASE n % 8 # 0
    <3>1. PICK m \in Nat : m = n \div 8 /\ n < 8 * m + 8
      OBVIOUS
    <3>. QED
      BY <1>1, <1>2, <2>2, <3>1 DEF BitBytes
  <2>. QED
    BY <2>1, <2>2
<1>. QED
  BY <1>1, <1>2, <1>3, EnoughBytes

\* The server packs a bit where the client looks for it.
LEMMA PackedBit ==
  ASSUME NEW tab, NEW address \in Int, NEW n \in Nat, NEW k \in 1..n
  PROVE  (k - 1) % 8 \in PackBits(tab, address, n)[(k - 1) \div 8 + 1] <=> tab[address + k - 1]
<1>1. k - 1 \in 0..n - 1
  OBVIOUS
<1>2. PICK j \in 0..n - 1 : j = k - 1
  BY <1>1
<1>3. PICK q \in Nat, r \in 0..7 :
         j \div 8 = q /\ j % 8 = r /\ 8 * q + r = j /\ q + 1 \in 1..BitBytes(n)
  BY <1>1, BitPlace
<1>4. PackBits(tab, address, n)[q + 1]
        = {i \in 0..7 : 8 * (q + 1 - 1) + i < n /\ tab[address + 8 * (q + 1 - 1) + i]}
  BY <1>3 DEF PackBits
<1>5. 8 * (q + 1 - 1) + r < n /\ address + 8 * (q + 1 - 1) + r = address + k - 1
  BY <1>2, <1>3
<1>. QED
  BY <1>2, <1>3, <1>4, <1>5

\* The client packs a bit where the server looks for it.
LEMMA SentBit ==
  ASSUME NEW values \in Seq(BOOLEAN), NEW k \in 1..Len(values)
  PROVE  (k - 1) % 8 \in BitsToBytes(values)[(k - 1) \div 8 + 1] <=> values[k]
<1>1. Len(values) \in Nat /\ k - 1 \in 0..Len(values) - 1
  OBVIOUS
<1>2. PICK j \in 0..Len(values) - 1 : j = k - 1
  BY <1>1
<1>3. PICK q \in Nat, r \in 0..7 :
         j \div 8 = q /\ j % 8 = r /\ 8 * q + r = j /\ q + 1 \in 1..BitBytes(Len(values))
  BY <1>1, BitPlace
<1>4. BitsToBytes(values)[q + 1]
        = {i \in 0..7 : 8 * (q + 1 - 1) + i < Len(values) /\ values[8 * (q + 1 - 1) + i + 1]}
  BY <1>3 DEF BitsToBytes
<1>5. 8 * (q + 1 - 1) + r < Len(values) /\ 8 * (q + 1 - 1) + r + 1 = k
  BY <1>1, <1>2, <1>3
<1>. QED
  BY <1>2, <1>3, <1>4, <1>5

-----------------------------------------------------------------------------
(* The tables by address                                                    *)

Tables       == {"coils", "inputs", "registers", "inputRegisters"}
Start(table) == IF table \in {"coils", "inputs"} THEN StartBits ELSE StartRegisters
Size(table)  == IF table \in {"coils", "inputs"} THEN NbBits ELSE NbRegisters

\* Where a table starts and how long it is are numbers.
LEMMA Sizes == \A t : Start(t) \in Nat /\ Size(t) \in Nat
BY MappingAssumption DEF MappingAssumption, Start, Size

\* Each table, moved to where it starts.
LEMMA TableByAddress ==
  ASSUME NEW m \in Mappings, NEW t \in Tables
  PROVE  /\ DOMAIN ByAddress(m) = Tables
         /\ DOMAIN m[t] = 0..Size(t) - 1
         /\ DOMAIN ByAddress(m)[t] = Start(t)..Start(t) + Size(t) - 1
         /\ ByAddress(m)[t] = [x \in Start(t)..Start(t) + Size(t) - 1 |-> m[t][x - Start(t)]]
<1>1. DOMAIN m[t] = 0..Size(t) - 1
  BY DEF Mappings, Tables, Size, BitAddresses, RegisterAddresses
<1>2. ByAddress(m)[t] = [x \in {Start(t) + i : i \in DOMAIN m[t]} |-> m[t][x - Start(t)]]
  BY DEF ByAddress, Tables, Start
<1>3. {Start(t) + i : i \in DOMAIN m[t]} = Start(t)..Start(t) + Size(t) - 1
  <2>1. Start(t) \in Nat /\ Size(t) \in Nat
    BY Sizes
  <2>2. ASSUME NEW x \in Start(t)..Start(t) + Size(t) - 1
        PROVE  x - Start(t) \in 0..Size(t) - 1 /\ x = Start(t) + (x - Start(t))
    BY <2>1
  <2>3. \A i \in 0..Size(t) - 1 : Start(t) + i \in Start(t)..Start(t) + Size(t) - 1
    BY <2>1
  <2>. QED
    BY <1>1, <2>2, <2>3
<1>4. DOMAIN ByAddress(m) = Tables
  BY DEF ByAddress, Tables
<1>. QED
  BY <1>1, <1>2, <1>3, <1>4

\* The server's check of a range is the memory's.
LEMMA RangeInTable ==
  ASSUME mapping \in Mappings, NEW t \in Tables, NEW addr \in Nat, NEW nb \in Nat, nb > 0
  PROVE  Memory!Within(t, addr, nb) <=> ~Outside(addr - Start(t), nb, Size(t))
<1>1. Start(t) \in Nat /\ Size(t) \in Nat
  BY Sizes
<1>2. Memory!Within(t, addr, nb) <=> addr..addr + nb - 1 \subseteq Start(t)..Start(t) + Size(t) - 1
  <2>1. DOMAIN ByAddress(mapping)[t] = Start(t)..Start(t) + Size(t) - 1
    BY TableByAddress
  <2>. QED
    BY <2>1 DEF Memory!Within, Memory!Range1
<1>3. Outside(addr - Start(t), nb, Size(t)) <=> addr < Start(t) \/ addr + nb > Start(t) + Size(t)
  BY <1>1 DEF Outside
<1>4. addr \in addr..addr + nb - 1 /\ addr + nb - 1 \in addr..addr + nb - 1
  OBVIOUS
<1>. QED
  BY <1>1, <1>2, <1>3, <1>4

\* A write to consecutive places of one table is the memory's.
LEMMA WriteByAddress ==
  ASSUME mapping \in Mappings, NEW m \in Mappings, NEW t \in Tables, NEW addr \in Nat,
         NEW values, Len(values) \in Nat,
         \A u \in Tables : u # t => m[u] = mapping[u],
         \A i \in 0..Size(t) - 1 :
            m[t][i] = IF i \in addr - Start(t)..addr - Start(t) + Len(values) - 1
                      THEN values[i - (addr - Start(t)) + 1] ELSE mapping[t][i]
  PROVE  ByAddress(m) = Memory!Put(t, addr, values)
<1>. DEFINE Of(u) == Start(u)..Start(u) + Size(u) - 1
<1>1. Start(t) \in Nat /\ Size(t) \in Nat
  BY Sizes
<1>2. Memory!Put(t, addr, values)
        = [ByAddress(mapping) EXCEPT ![t] =
              [x \in Of(t) |-> IF x \in addr..addr + Len(values) - 1 THEN values[x - addr + 1]
                               ELSE ByAddress(mapping)[t][x]]]
  <2>1. DOMAIN ByAddress(mapping)[t] = Of(t)
    BY TableByAddress
  <2>. QED
    BY <2>1 DEF Memory!Put, Memory!Range1
<1>3. ASSUME NEW u \in Tables, u # t
      PROVE  ByAddress(m)[u] = ByAddress(mapping)[u]
  <2>1. ByAddress(m)[u] = [x \in Of(u) |-> m[u][x - Start(u)]]
    BY TableByAddress
  <2>2. ByAddress(mapping)[u] = [x \in Of(u) |-> mapping[u][x - Start(u)]]
    BY TableByAddress
  <2>3. m[u] = mapping[u]
    BY <1>3
  <2>. QED
    BY <2>1, <2>2, <2>3
<1>4. ByAddress(m)[t]
        = [x \in Of(t) |-> IF x \in addr..addr + Len(values) - 1 THEN values[x - addr + 1]
                           ELSE ByAddress(mapping)[t][x]]
  <2>1. ByAddress(m)[t] = [x \in Of(t) |-> m[t][x - Start(t)]]
    BY TableByAddress
  <2>2. ASSUME NEW x \in Of(t)
        PROVE  m[t][x - Start(t)] = IF x \in addr..addr + Len(values) - 1
                                    THEN values[x - addr + 1] ELSE ByAddress(mapping)[t][x]
    <3>1. PICK i \in 0..Size(t) - 1 : i = x - Start(t)
      BY <1>1
    <3>2. /\ i \in addr - Start(t)..addr - Start(t) + Len(values) - 1
                <=> x \in addr..addr + Len(values) - 1
          /\ i - (addr - Start(t)) + 1 = x - addr + 1
      BY <1>1, <3>1
    <3>3. ByAddress(mapping)[t][x] = mapping[t][x - Start(t)]
      <4>1. ByAddress(mapping)[t] = [y \in Of(t) |-> mapping[t][y - Start(t)]]
        BY TableByAddress
      <4>. QED
        BY <4>1
    <3>. QED
      BY <3>1, <3>2, <3>3
  <2>. QED
    BY <2>1, <2>2, Zenon
<1>5. DOMAIN ByAddress(m) = Tables /\ DOMAIN ByAddress(mapping) = Tables
  BY TableByAddress
<1>6. ByAddress(m) = [u \in Tables |-> ByAddress(m)[u]]
  BY <1>5 DEF ByAddress, Tables
<1>7. Memory!Put(t, addr, values)
        = [u \in Tables |-> IF u = t THEN ByAddress(m)[t] ELSE ByAddress(mapping)[u]]
  BY <1>2, <1>4, <1>5
<1>8. \A u \in Tables : ByAddress(m)[u] = IF u = t THEN ByAddress(m)[t] ELSE ByAddress(mapping)[u]
  BY <1>3
<1>. QED
  BY <1>6, <1>7, <1>8

-----------------------------------------------------------------------------
(* Which case of each switch a function code takes                          *)

\* modbus_reply's switch.
LEMMA ReplyCases ==
  ASSUME NEW req, NEW m
  PROVE  /\ req.fc \in {1, 2} => Reply(req, m) = ReplyReadBits(req, m)
         /\ req.fc \in {3, 4} => Reply(req, m) = ReplyReadRegisters(req, m)
         /\ req.fc = 5  => Reply(req, m) = ReplyWriteBit(req, m)
         /\ req.fc = 6  => Reply(req, m) = ReplyWriteRegister(req, m)
         /\ req.fc = 15 => Reply(req, m) = ReplyWriteBits(req, m)
         /\ req.fc = 16 => Reply(req, m) = ReplyWriteRegisters(req, m)
         /\ req.fc = 22 => Reply(req, m) = ReplyMaskWrite(req, m)
         /\ req.fc = 23 => Reply(req, m) = ReplyWriteAndRead(req, m)
BY DEF Reply, ReadBits, ReadRegisters, READ_COILS, READ_DISCRETE_INPUTS, READ_HOLDING, READ_INPUT,
       WRITE_COIL, WRITE_REGISTER, WRITE_COILS, WRITE_REGISTERS, REPORT_SLAVE_ID, MASK_WRITE,
       WRITE_AND_READ

\* The lengths of the requests that carry values.
LEMMA RequestCases ==
  \A n : /\ RequestPdu(WRITE_COILS, n) = 6 + BitBytes(n)
         /\ RequestPdu(WRITE_REGISTERS, n) = 6 + 2 * n
         /\ RequestPdu(WRITE_AND_READ, n) = 10 + 2 * n
BY DEF RequestPdu, WRITE_COILS, WRITE_REGISTERS, MASK_WRITE, WRITE_AND_READ, REPORT_SLAVE_ID

\* The length the client expects of the answer to its request.
LEMMA ExpectedCases ==
  ASSUME NEW req
  PROVE  /\ req.fc \in {1, 2} => Expected(req) = 2 + BitBytes(req.nb)
         /\ req.fc \in {3, 4, 23} => Expected(req) = 2 + 2 * req.nb
         /\ req.fc \in {5, 6, 15, 16} => Expected(req) = 5
         /\ req.fc = 22 => Expected(req) = 7
BY DEF Expected, ResponseLength, ReadBits, ReadRegisters, READ_COILS, READ_DISCRETE_INPUTS,
       READ_HOLDING, READ_INPUT, WRITE_COIL, WRITE_REGISTER, WRITE_COILS, WRITE_REGISTERS,
       READ_EXCEPTION_STATUS, REPORT_SLAVE_ID, MASK_WRITE, WRITE_AND_READ

\* What the client checks of an answer of that length.
LEMMA ConfirmCases ==
  ASSUME NEW req, NEW rsp, req.fc \in 1..23, rsp.fc = req.fc, rsp.length = Expected(req)
  PROVE  /\ req.fc \in {1, 2} => Confirm(req, rsp) = ConfirmReadBits(req, rsp)
         /\ req.fc \in {3, 4, 23} => Confirm(req, rsp) = ConfirmReadRegisters(req, rsp)
         /\ req.fc \in {15, 16} => Confirm(req, rsp) = ConfirmWriteMultiple(req, rsp)
         /\ req.fc \in {5, 6} => Confirm(req, rsp) = ConfirmWriteSingle(req, rsp)
         /\ req.fc = 22 => Confirm(req, rsp) = 1
BY DEF Confirm, ReadBits, ReadRegisters, READ_COILS, READ_DISCRETE_INPUTS, READ_HOLDING,
       READ_INPUT, WRITE_COIL, WRITE_REGISTER, WRITE_COILS, WRITE_REGISTERS, WRITE_AND_READ

\* What the call returns once the answer is confirmed.
LEMMA ReturnedCases ==
  ASSUME NEW c, NEW rsp, Confirm(Request(c), rsp) \in Nat
  PROVE  /\ Request(c).fc \in {1, 2} =>
              Returned(c, rsp) = [is |-> "done",
                                  values |-> Unpack(rsp, Confirm(Request(c), rsp), c.nb)]
         /\ Request(c).fc \in {3, 4, 23} =>
              Returned(c, rsp) = [is |-> "done",
                                  values |-> SubSeq(rsp.data, 1, Confirm(Request(c), rsp))]
         /\ Request(c).fc \in {5, 6, 15, 16, 22} /\ Confirm(Request(c), rsp) = c.nb =>
              Returned(c, rsp) = Is("done")
<1>. DEFINE req  == Request(c)
            rc   == Confirm(req, rsp)
            bits == [is |-> "done", values |-> Unpack(rsp, rc, c.nb)]
            regs == [is |-> "done", values |-> SubSeq(rsp.data, 1, rc)]
<1>1. Returned(c, rsp) =
        CASE rc = -1 -> Is("error")
          [] rc = -2 -> Is("bad data")
          [] rc >= 0 /\ req.fc \in {1, 2} -> bits
          [] rc >= 0 /\ req.fc \in {3, 4, 23} -> regs
          [] OTHER -> Is(IF rc = c.nb THEN "done" ELSE "bad data")
  <2>1. /\ \A x : x \in ReadBits <=> x \in {1, 2}
        /\ \A x : x \in ReadRegisters \cup {WRITE_AND_READ} <=> x \in {3, 4, 23}
    BY DEF ReadBits, ReadRegisters, READ_COILS, READ_DISCRETE_INPUTS, READ_HOLDING, READ_INPUT,
           WRITE_AND_READ
  <2>. QED
    BY <2>1 DEF Returned
<1>2. rc \in Nat /\ rc >= 0 /\ rc # -1 /\ rc # -2
  OBVIOUS
<1>. HIDE DEF req, rc, bits, regs
<1>3. req.fc \in {1, 2} => Returned(c, rsp) = bits
  <2>1. CASE req.fc = 1
    BY <1>1, <1>2, <2>1
  <2>2. CASE req.fc = 2
    BY <1>1, <1>2, <2>2
  <2>. QED
    BY <2>1, <2>2
<1>4. req.fc \in {3, 4, 23} => Returned(c, rsp) = regs
  BY <1>1, <1>2
<1>5. req.fc \in {5, 6, 15, 16, 22} /\ rc = c.nb => Returned(c, rsp) = Is("done")
  BY <1>1, <1>2
<1>. QED
  BY <1>3, <1>4, <1>5 DEF req, rc, bits, regs

-----------------------------------------------------------------------------
(* Refusals                                                                 *)

\* A call's request, and its response, do to the tables and return to the
\* caller what the memory does at that moment.
Exact(c) ==
    LET r == Reply(Request(c), mapping)
    IN  /\ r.mapping \in Mappings
        /\ r.rsp.length \in 1..253
        /\ ByAddress(r.mapping) = Memory!Effect(c)
        /\ Returned(c, r.rsp) = Memory!Outcome(c)

\* An exception tells the caller that the memory refuses the call.
LEMMA ExceptionIsExact ==
  ASSUME mapping \in Mappings, NEW c, NEW code, Request(c).fc \in 1..23, ~Memory!Legal(c),
         Reply(Request(c), mapping) = Answer(ResponseException(Request(c), code), mapping)
  PROVE  Exact(c)
<1>. DEFINE req == Request(c)
            rsp == ResponseException(req, code)
<1>1. rsp.fc = req.fc + 128 /\ rsp.length = 2 /\ rsp.fc \in Nat
  BY DEF ResponseException
<1>2. Confirm(req, rsp) = -1
  BY <1>1 DEF Confirm
<1>3. Returned(c, rsp) = Is("error")
  BY <1>2 DEF Returned
<1>4. Memory!Outcome(c) = Is("error") /\ Memory!Effect(c) = ByAddress(mapping)
  BY DEF Memory!Outcome, Memory!Effect, Memory!Is, Is
<1>5. Reply(req, mapping).rsp = rsp /\ Reply(req, mapping).mapping = mapping
  BY DEF Answer
<1>. QED
  BY <1>1, <1>3, <1>4, <1>5 DEF Exact

\* A confirmed answer with the memory's values and effect.
LEMMA AnswerIsExact ==
  ASSUME NEW c, NEW rsp, NEW m \in Mappings, Reply(Request(c), mapping) = Answer(rsp, m),
         rsp.length \in 1..253, ByAddress(m) = Memory!Effect(c),
         Returned(c, rsp) = Memory!Outcome(c)
  PROVE  Exact(c)
<1>1. Reply(Request(c), mapping).rsp = rsp /\ Reply(Request(c), mapping).mapping = m
  BY DEF Answer
<1>. QED
  BY <1>1 DEF Exact

\* The limits are within what a message can carry.
LEMMA Limits ==
  /\ ReadBitsLimit \in Nat /\ 1 <= ReadBitsLimit /\ ReadBitsLimit <= 2000
  /\ WriteBitsLimit \in Nat /\ 1 <= WriteBitsLimit /\ WriteBitsLimit <= 1968
  /\ ReadRegistersLimit \in Nat /\ 1 <= ReadRegistersLimit /\ ReadRegistersLimit <= 125
  /\ WriteRegistersLimit \in Nat /\ 1 <= WriteRegistersLimit /\ WriteRegistersLimit <= 123
  /\ WrWriteLimit \in Nat /\ 1 <= WrWriteLimit /\ WrWriteLimit <= 121
  /\ WrReadLimit \in Nat /\ 1 <= WrReadLimit /\ WrReadLimit <= 125
BY MappingAssumption DEF MappingAssumption, MaxReadBits, MaxWriteBits, MaxReadRegisters,
   MaxWriteRegisters, MaxWrWrite, MaxWrRead

\* The limit of each call.
LEMMA LimitCases ==
  ASSUME NEW c
  PROVE  /\ c.fn = "read" /\ c.table \in {"coils", "inputs"} => NbLimit(c) = ReadBitsLimit
         /\ c.fn = "read" /\ c.table \in {"registers", "inputRegisters"} =>
              NbLimit(c) = ReadRegistersLimit
         /\ c.fn = "write" /\ c.table = "coils" => NbLimit(c) = WriteBitsLimit
         /\ c.fn = "write" /\ c.table = "registers" => NbLimit(c) = WriteRegistersLimit
         /\ c.fn = "write_and_read" => NbLimit(c) = WrReadLimit
         /\ c.fn = "mask" => NbLimit(c) = 1
BY DEF NbLimit

\* The numbers of bytes of a message.
LEMMA ShortEnough ==
  /\ \A n \in Nat : n <= 250 => 2 + n \in 1..253
  /\ \A n \in Nat : n <= 246 => 6 + n \in 1..253
  /\ \A n \in Nat : n <= 125 => 2 + 2 * n \in 1..253 /\ (2 * n) \div 2 = n
  /\ \A n \in Nat : n <= 123 => 6 + 2 * n \in 1..253
  /\ \A n \in Nat : n <= 121 => 10 + 2 * n \in 1..253
OBVIOUS

-----------------------------------------------------------------------------
(* Reads                                                                    *)

\* What a read returns when the memory allows it.
LEMMA ReadOutcome ==
  ASSUME mapping \in Mappings, NEW c, c.fn = "read", c.table \in Tables,
         c.addr \in Nat, c.nb \in Nat, Memory!Legal(c)
  PROVE  /\ Memory!Effect(c) = ByAddress(mapping)
         /\ Memory!Outcome(c) =
              [is |-> "done",
               values |-> [k \in 1..c.nb |-> mapping[c.table][c.addr - Start(c.table) + k - 1]]]
<1>1. Memory!Effect(c) = ByAddress(mapping) /\ Memory!After(c) = ByAddress(mapping)
  BY DEF Memory!Effect, Memory!After
<1>2. Memory!Outcome(c) =
        [is |-> "done", values |-> [k \in 1..c.nb |-> ByAddress(mapping)[c.table][c.addr + k - 1]]]
  BY <1>1 DEF Memory!Outcome
<1>3. Start(c.table) \in Nat /\ Size(c.table) \in Nat
  BY Sizes
<1>4. ASSUME NEW k \in 1..c.nb
      PROVE  ByAddress(mapping)[c.table][c.addr + k - 1]
               = mapping[c.table][c.addr - Start(c.table) + k - 1]
  <2>1. c.addr + k - 1 \in DOMAIN ByAddress(mapping)[c.table]
    <3>1. c.addr + k - 1 \in c.addr..c.addr + c.nb - 1
      OBVIOUS
    <3>. QED
      BY <3>1 DEF Memory!Legal, Memory!Within, Memory!Range1
  <2>2. ByAddress(mapping)[c.table] =
          [x \in DOMAIN ByAddress(mapping)[c.table] |-> mapping[c.table][x - Start(c.table)]]
    BY TableByAddress
  <2>3. (c.addr + k - 1) - Start(c.table) = c.addr - Start(c.table) + k - 1
    BY <1>3
  <2>. QED
    BY <2>1, <2>2, <2>3
<1>. QED
  BY <1>1, <1>2, <1>4, Zenon

\* modbus_read_bits and modbus_read_input_bits.
LEMMA ReadBitsExact ==
  ASSUME mapping \in Mappings, NEW c, c.fn = "read", c.table \in {"coils", "inputs"},
         c.addr \in Nat, c.nb \in Nat, c.nb <= ReadBitsLimit
  PROVE  Exact(c)
<1>. DEFINE req  == Request(c)
            a    == c.addr - StartBits
            tab  == mapping[c.table]
            data == PackBits(tab, a, c.nb)
            rsp  == [fc |-> req.fc, count |-> BitBytes(c.nb), data |-> data,
                     length |-> 2 + Len(data)]
<1>1. /\ req.fc \in {1, 2} /\ req.addr = c.addr /\ req.nb = c.nb
      /\ tab = IF req.fc = 1 THEN mapping.coils ELSE mapping.inputs
  BY DEF Request, ReadCode, READ_COILS, READ_DISCRETE_INPUTS
<1>2. /\ c.table \in Tables /\ Start(c.table) = StartBits /\ Size(c.table) = NbBits
      /\ NbLimit(c) = ReadBitsLimit /\ StartBits \in Nat
  BY Sizes, LimitCases DEF Tables, Start, Size
<1>3. Reply(req, mapping) = ReplyReadBits(req, mapping)
  BY <1>1, ReplyCases
<1>4. Memory!Legal(c) <=> c.nb > 0 /\ ~Outside(a, c.nb, NbBits)
  BY <1>2, RangeInTable, Limits DEF Memory!Legal
<1>5. CASE Memory!Legal(c)
  <2>1. Reply(req, mapping) = Answer(rsp, mapping)
    BY <1>1, <1>3, <1>4, <1>5, Limits DEF ReplyReadBits, READ_COILS
  <2>2. Len(data) = BitBytes(c.nb) /\ BitBytes(c.nb) \in Nat /\ BitBytes(c.nb) <= 250
    BY EnoughBytes, Limits DEF PackBits
  <2>3. Confirm(req, rsp) = BitBytes(c.nb)
    <3>1. rsp.fc = req.fc /\ rsp.length = Expected(req) /\ rsp.count = BitBytes(req.nb)
      BY <1>1, <2>2, ExpectedCases
    <3>. QED
      BY <1>1, <3>1, ConfirmCases DEF ConfirmReadBits
  <2>4. Returned(c, rsp) = [is |-> "done", values |-> Unpack(rsp, BitBytes(c.nb), c.nb)]
    BY <1>1, <2>2, <2>3, ReturnedCases
  <2>5. Unpack(rsp, BitBytes(c.nb), c.nb) = [k \in 1..c.nb |-> tab[a + k - 1]]
    <3>1. ASSUME NEW k \in 1..c.nb
          PROVE  ((k - 1) % 8 \in data[(k - 1) \div 8 + 1]) = tab[a + k - 1]
      <4>1. (k - 1) % 8 \in data[(k - 1) \div 8 + 1] <=> tab[a + k - 1]
        BY <1>2, PackedBit
      <4>2. a + k - 1 \in 0..NbBits - 1
        BY <1>2, <1>4, <1>5, Sizes DEF Outside, Size
      <4>3. tab[a + k - 1] \in BOOLEAN
        BY <1>1, <4>2 DEF Mappings, BitAddresses
      <4>. QED
        BY <4>1, <4>3
    <3>. QED
      BY <3>1 DEF Unpack
  <2>6. Memory!Outcome(c) = [is |-> "done", values |-> [k \in 1..c.nb |-> tab[a + k - 1]]]
        /\ Memory!Effect(c) = ByAddress(mapping)
    BY <1>2, <1>5, ReadOutcome
  <2>7. rsp.length \in 1..253
    <3>1. rsp.length = 2 + Len(data)
      OBVIOUS
    <3>. HIDE DEF rsp, data
    <3>2. rsp.length = 2 + BitBytes(c.nb)
      BY <2>2, <3>1
    <3>. QED
      BY <2>2, <3>2, ShortEnough
  <2>8. Returned(c, rsp) = Memory!Outcome(c)
    BY <2>4, <2>5, <2>6
  <2>. HIDE DEF rsp
  <2>. QED
    BY <2>1, <2>6, <2>7, <2>8, AnswerIsExact
<1>6. CASE ~Memory!Legal(c)
  <2>1. PICK code \in {ILLEGAL_DATA_VALUE, ILLEGAL_DATA_ADDRESS} :
           Reply(req, mapping) = Answer(ResponseException(req, code), mapping)
    BY <1>1, <1>3, <1>4, <1>6, Limits DEF ReplyReadBits
  <2>2. req.fc \in 1..23
    BY <1>1
  <2>. QED
    BY <1>6, <2>1, <2>2, ExceptionIsExact
<1>. QED
  BY <1>5, <1>6

\* The words of a response are returned as they were sent.
LEMMA WordsReturned ==
  ASSUME NEW tab, NEW a \in Int, NEW n \in Nat, \A k \in 1..n : tab[a + k - 1] \in Word
  PROVE  SubSeq(Words(tab, a, n), 1, n) = Words(tab, a, n)
<1>1. Words(tab, a, n) = [k \in 1..n |-> tab[a + k - 1]]
  BY DEF Words
<1>. HIDE DEF Words
<1>2. Words(tab, a, n) \in Seq(Word) /\ Len(Words(tab, a, n)) = n
  BY <1>1
<1>. QED
  BY <1>2, SubSeqFull

\* modbus_read_registers and modbus_read_input_registers.
LEMMA ReadRegistersExact ==
  ASSUME mapping \in Mappings, NEW c, c.fn = "read", c.table \in {"registers", "inputRegisters"},
         c.addr \in Nat, c.nb \in Nat, c.nb <= ReadRegistersLimit
  PROVE  Exact(c)
<1>. DEFINE req  == Request(c)
            a    == c.addr - StartRegisters
            tab  == mapping[c.table]
            rsp  == [fc |-> req.fc, count |-> 2 * c.nb, data |-> Words(tab, a, c.nb),
                     length |-> 2 + 2 * c.nb]
<1>1. /\ req.fc \in {3, 4} /\ req.addr = c.addr /\ req.nb = c.nb
      /\ tab = IF req.fc = 3 THEN mapping.registers ELSE mapping.inputRegisters
  BY DEF Request, ReadCode, READ_HOLDING, READ_INPUT
<1>2. /\ c.table \in Tables /\ Start(c.table) = StartRegisters /\ Size(c.table) = NbRegisters
      /\ NbLimit(c) = ReadRegistersLimit /\ StartRegisters \in Nat
  BY Sizes, LimitCases DEF Tables, Start, Size
<1>3. Reply(req, mapping) = ReplyReadRegisters(req, mapping)
  BY <1>1, ReplyCases
<1>4. Memory!Legal(c) <=> c.nb > 0 /\ ~Outside(a, c.nb, NbRegisters)
  BY <1>2, RangeInTable, Limits DEF Memory!Legal
<1>5. CASE Memory!Legal(c)
  <2>1. Reply(req, mapping) = Answer(rsp, mapping)
    BY <1>1, <1>3, <1>4, <1>5, Limits DEF ReplyReadRegisters, READ_HOLDING
  <2>2. rsp.length \in 1..253 /\ rsp.count \div 2 = c.nb
    BY Limits, ShortEnough
  <2>3. Confirm(req, rsp) = c.nb
    <3>1. rsp.fc = req.fc /\ rsp.length = Expected(req)
      BY <1>1, ExpectedCases
    <3>. QED
      BY <1>1, <2>2, <3>1, ConfirmCases DEF ConfirmReadRegisters
  <2>4. Returned(c, rsp) = [is |-> "done", values |-> SubSeq(Words(tab, a, c.nb), 1, c.nb)]
    BY <1>1, <2>3, ReturnedCases
  <2>5. SubSeq(Words(tab, a, c.nb), 1, c.nb) = [k \in 1..c.nb |-> tab[a + k - 1]]
    <3>1. ASSUME NEW k \in 1..c.nb
          PROVE  tab[a + k - 1] \in Word
      <4>1. a + k - 1 \in 0..NbRegisters - 1
        BY <1>2, <1>4, <1>5, Sizes DEF Outside, Size
      <4>. QED
        BY <1>1, <4>1 DEF Mappings, RegisterAddresses
    <3>. QED
      BY <1>2, <3>1, WordsReturned DEF Words
  <2>6. Memory!Outcome(c) = [is |-> "done", values |-> [k \in 1..c.nb |-> tab[a + k - 1]]]
        /\ Memory!Effect(c) = ByAddress(mapping)
    BY <1>2, <1>5, ReadOutcome
  <2>. HIDE DEF rsp
  <2>. QED
    BY <2>1, <2>2, <2>4, <2>5, <2>6, AnswerIsExact
<1>6. CASE ~Memory!Legal(c)
  <2>1. PICK code \in {ILLEGAL_DATA_VALUE, ILLEGAL_DATA_ADDRESS} :
           Reply(req, mapping) = Answer(ResponseException(req, code), mapping)
    BY <1>1, <1>3, <1>4, <1>6, Limits DEF ReplyReadRegisters
  <2>2. req.fc \in 1..23
    BY <1>1
  <2>. QED
    BY <1>6, <2>1, <2>2, ExceptionIsExact
<1>. QED
  BY <1>5, <1>6

-----------------------------------------------------------------------------
(* Writes                                                                   *)

\* The values of a table a client can write.
Value(t) == IF t = "coils" THEN BOOLEAN ELSE Word

\* `tab` is the table with the values written from `addr` on.
Stored(t, addr, values, tab) ==
    /\ tab \in [0..Size(t) - 1 -> Value(t)] /\ Len(values) \in Nat
    /\ \A i \in 0..Size(t) - 1 :
          tab[i] = IF i \in addr - Start(t)..addr - Start(t) + Len(values) - 1
                   THEN values[i - (addr - Start(t)) + 1] ELSE mapping[t][i]

\* One table is replaced by what the memory's Put leaves in it.
LEMMA TableWritten ==
  ASSUME mapping \in Mappings, NEW t \in {"coils", "registers"}, NEW addr \in Nat,
         NEW values, NEW tab, Stored(t, addr, values, tab)
  PROVE  /\ [mapping EXCEPT ![t] = tab] \in Mappings
         /\ ByAddress([mapping EXCEPT ![t] = tab]) = Memory!Put(t, addr, values)
<1>. DEFINE m == [mapping EXCEPT ![t] = tab]
<1>1. m \in Mappings
  <2>1. CASE t = "coils"
    BY <2>1 DEF Mappings, BitAddresses, Size, Value, Stored
  <2>2. CASE t = "registers"
    BY <2>2 DEF Mappings, RegisterAddresses, Size, Value, Stored
  <2>. HIDE DEF m
  <2>. QED
    BY <2>1, <2>2
<1>2. m[t] = tab /\ t \in Tables /\ \A u \in Tables : u # t => m[u] = mapping[u]
  BY DEF Mappings, Tables
<1>3. PICK n : n = m
  OBVIOUS
<1>. HIDE DEF m
<1>4. n \in Mappings /\ t \in Tables /\ \A u \in Tables : u # t => n[u] = mapping[u]
  BY <1>1, <1>2, <1>3
<1>5. /\ Len(values) \in Nat
      /\ \A i \in 0..Size(t) - 1 :
            n[t][i] = IF i \in addr - Start(t)..addr - Start(t) + Len(values) - 1
                      THEN values[i - (addr - Start(t)) + 1] ELSE mapping[t][i]
  BY <1>2, <1>3, Zenon DEF Stored
<1>6. ByAddress(n) = Memory!Put(t, addr, values)
  BY <1>4, <1>5, WriteByAddress
<1>. QED
  BY <1>1, <1>3, <1>6 DEF m

\* One place of a table is changed.
LEMMA PlaceWritten ==
  ASSUME mapping \in Mappings, NEW t \in {"coils", "registers"}, NEW addr \in Nat,
         addr - Start(t) \in 0..Size(t) - 1, NEW value \in Value(t)
  PROVE  LET m == [mapping EXCEPT ![t] = [@ EXCEPT ![addr - Start(t)] = value]]
         IN  m \in Mappings /\ ByAddress(m) = Memory!Put(t, addr, <<value>>)
<1>1. mapping[t] \in [0..Size(t) - 1 -> Value(t)]
  BY DEF Mappings, BitAddresses, RegisterAddresses, Size, Value
<1>2. Start(t) \in Nat /\ Size(t) \in Nat
  BY Sizes
<1>3. PICK new : new = [mapping[t] EXCEPT ![addr - Start(t)] = value]
  OBVIOUS
<1>4. PICK one : one = <<value>>
  OBVIOUS
<1>5. Stored(t, addr, one, new)
  <2>1. new \in [0..Size(t) - 1 -> Value(t)]
    BY <1>1, <1>3
  <2>2. Len(one) = 1 /\ one[1] = value
    BY <1>4
  <2>3. PICK d \in 0..Size(t) - 1 : d = addr - Start(t)
    OBVIOUS
  <2>4. ASSUME NEW i \in 0..Size(t) - 1
        PROVE  new[i] = IF i \in d..d + Len(one) - 1 THEN one[i - d + 1] ELSE mapping[t][i]
    <3>1. new[i] = IF i = d THEN value ELSE mapping[t][i]
      BY <1>1, <1>3, <2>3
    <3>2. i \in d..d + Len(one) - 1 <=> i = d
      BY <1>2, <2>2
    <3>3. i = d => one[i - d + 1] = value
      BY <2>2
    <3>. QED
      BY <3>1, <3>2, <3>3
  <2>. QED
    BY <2>1, <2>2, <2>3, <2>4 DEF Stored
<1>6. [mapping EXCEPT ![t] = new] \in Mappings
      /\ ByAddress([mapping EXCEPT ![t] = new]) = Memory!Put(t, addr, one)
  BY <1>5, TableWritten
<1>7. [mapping EXCEPT ![t] = [@ EXCEPT ![addr - Start(t)] = value]] = [mapping EXCEPT ![t] = new]
  BY <1>3
<1>. QED
  BY <1>4, <1>6, <1>7, Zenon

\* What a write does and returns when the memory allows it.
LEMMA WriteOutcome ==
  ASSUME NEW c, c.fn = "write", Memory!Legal(c)
  PROVE  Memory!Effect(c) = Memory!Put(c.table, c.addr, c.values) /\ Memory!Outcome(c) = Is("done")
BY DEF Memory!Effect, Memory!After, Memory!Outcome, Memory!Is, Is

\* A sequence of one.
LEMMA OfOne ==
  ASSUME NEW S, NEW values \in Seq(S), Len(values) = 1
  PROVE  values = <<values[1]>> /\ values[1] \in S
<1>1. values[1] \in S
  OBVIOUS
<1>2. PICK v \in S : v = values[1]
  BY <1>1
<1>3. <<v>> \in Seq(S) /\ Len(<<v>>) = 1 /\ <<v>>[1] = v
  OBVIOUS
<1>4. values = <<v>>
  BY <1>2, <1>3, SeqEqual
<1>. QED
  BY <1>2, <1>4

\* modbus_write_bit.
LEMMA WriteBitExact ==
  ASSUME mapping \in Mappings, NEW c, c.fn = "write", c.single = TRUE, c.table = "coils",
         c.addr \in Nat, c.nb = 1, c.values \in Seq(BOOLEAN), Len(c.values) = 1
  PROVE  Exact(c)
<1>. DEFINE req == Request(c)
            a   == c.addr - StartBits
            m   == [mapping EXCEPT !.coils[a] = c.values[1]]
<1>1. req = [fc |-> 5, addr |-> c.addr, value |-> IF c.values[1] THEN ON ELSE {}, length |-> 5]
  BY DEF Request, WriteSingle, WRITE_COIL
<1>. HIDE DEF req
<1>2. /\ c.table \in Tables /\ Start(c.table) = StartBits /\ Size(c.table) = NbBits
      /\ NbLimit(c) = WriteBitsLimit /\ StartBits \in Nat /\ NbBits \in Nat
  BY Sizes, LimitCases DEF Tables, Start, Size
<1>3. Reply(req, mapping) = ReplyWriteBit(req, mapping)
  BY <1>1, ReplyCases
<1>4. Memory!Legal(c) <=> ~Outside(a, 1, NbBits)
  BY <1>2, RangeInTable, Limits DEF Memory!Legal
<1>5. c.values = <<c.values[1]>> /\ c.values[1] \in BOOLEAN
  BY OfOne
<1>6. CASE Memory!Legal(c)
  <2>1. req.value \in {ON, {}} /\ (req.value # {}) = c.values[1]
    <3>1. ON # {}
      BY DEF ON
    <3>. QED
      BY <1>1, <1>5, <3>1
  <2>2. Reply(req, mapping) = Answer(req, m)
    BY <1>1, <1>3, <1>4, <1>6, <2>1 DEF ReplyWriteBit
  <2>3. m \in Mappings /\ ByAddress(m) = Memory!Put("coils", c.addr, c.values)
    <3>1. a \in 0..NbBits - 1
      BY <1>2, <1>4, <1>6 DEF Outside
    <3>2. PICK v : v = c.values[1]
      OBVIOUS
    <3>3. v \in Value("coils") /\ c.addr - Start("coils") \in 0..Size("coils") - 1
      BY <1>2, <1>5, <3>1, <3>2 DEF Value
    <3>4. LET n == [mapping EXCEPT !["coils"] = [@ EXCEPT ![c.addr - Start("coils")] = v]]
          IN  n \in Mappings /\ ByAddress(n) = Memory!Put("coils", c.addr, <<v>>)
      BY <3>3, PlaceWritten
    <3>5. m = [mapping EXCEPT !["coils"] = [@ EXCEPT ![c.addr - Start("coils")] = v]]
      BY <1>2, <3>2
    <3>. QED
      BY <1>5, <3>2, <3>4, <3>5
  <2>4. Confirm(req, req) = 1
    <3>1. req.fc = 5 /\ req.length = Expected(req)
      BY <1>1, ExpectedCases
    <3>2. Confirm(req, req) = ConfirmWriteSingle(req, req)
      BY <3>1, ConfirmCases
    <3>. QED
      BY <3>2 DEF ConfirmWriteSingle
  <2>5. Returned(c, req) = Is("done")
    <3>1. Request(c).fc = 5 /\ Confirm(Request(c), req) = 1
      BY <1>1, <2>4 DEF req
    <3>. QED
      BY <3>1, ReturnedCases
  <2>6. Is("done") = Memory!Outcome(c) /\ ByAddress(m) = Memory!Effect(c)
    BY <1>6, <2>3, WriteOutcome
  <2>. HIDE DEF m
  <2>7. req.length \in 1..253
    BY <1>1
  <2>8. Reply(Request(c), mapping) = Answer(req, m)
    BY <2>2 DEF req
  <2>. QED
    BY <2>3, <2>5, <2>6, <2>7, <2>8, AnswerIsExact
<1>7. CASE ~Memory!Legal(c)
  <2>1. Reply(req, mapping) = Answer(ResponseException(req, ILLEGAL_DATA_ADDRESS), mapping)
    BY <1>1, <1>3, <1>4, <1>7 DEF ReplyWriteBit
  <2>2. req.fc \in 1..23
    BY <1>1
  <2>. QED
    BY <1>7, <2>1, <2>2, ExceptionIsExact DEF req
<1>. QED
  BY <1>6, <1>7

\* modbus_write_register.
LEMMA WriteRegisterExact ==
  ASSUME mapping \in Mappings, NEW c, c.fn = "write", c.single = TRUE, c.table = "registers",
         c.addr \in Nat, c.nb = 1, c.values \in Seq(Word), Len(c.values) = 1
  PROVE  Exact(c)
<1>. DEFINE req == Request(c)
            a   == c.addr - StartRegisters
            m   == [mapping EXCEPT !.registers[a] = c.values[1]]
<1>1. req = [fc |-> 6, addr |-> c.addr, value |-> c.values[1], length |-> 5]
  BY DEF Request, WriteSingle, WRITE_REGISTER
<1>. HIDE DEF req
<1>2. /\ c.table \in Tables /\ Start(c.table) = StartRegisters /\ Size(c.table) = NbRegisters
      /\ NbLimit(c) = WriteRegistersLimit /\ StartRegisters \in Nat /\ NbRegisters \in Nat
  BY Sizes, LimitCases DEF Tables, Start, Size
<1>3. Reply(req, mapping) = ReplyWriteRegister(req, mapping)
  BY <1>1, ReplyCases
<1>4. Memory!Legal(c) <=> ~Outside(a, 1, NbRegisters)
  BY <1>2, RangeInTable, Limits DEF Memory!Legal
<1>5. c.values = <<c.values[1]>> /\ c.values[1] \in Word
  BY OfOne
<1>6. CASE Memory!Legal(c)
  <2>1. Reply(req, mapping) = Answer(req, m)
    BY <1>1, <1>3, <1>4, <1>6 DEF ReplyWriteRegister
  <2>2. m \in Mappings /\ ByAddress(m) = Memory!Put("registers", c.addr, c.values)
    <3>1. a \in 0..NbRegisters - 1
      BY <1>2, <1>4, <1>6 DEF Outside
    <3>2. PICK v : v = c.values[1]
      OBVIOUS
    <3>3. v \in Value("registers") /\ c.addr - Start("registers") \in 0..Size("registers") - 1
      BY <1>2, <1>5, <3>1, <3>2 DEF Value
    <3>4. LET n == [mapping EXCEPT !["registers"] = [@ EXCEPT ![c.addr - Start("registers")] = v]]
          IN  n \in Mappings /\ ByAddress(n) = Memory!Put("registers", c.addr, <<v>>)
      BY <3>3, PlaceWritten
    <3>5. m = [mapping EXCEPT !["registers"] = [@ EXCEPT ![c.addr - Start("registers")] = v]]
      BY <1>2, <3>2
    <3>. QED
      BY <1>5, <3>2, <3>4, <3>5
  <2>3. Confirm(req, req) = 1
    <3>1. req.fc = 6 /\ req.length = Expected(req)
      BY <1>1, ExpectedCases
    <3>2. Confirm(req, req) = ConfirmWriteSingle(req, req)
      BY <3>1, ConfirmCases
    <3>. QED
      BY <3>2 DEF ConfirmWriteSingle
  <2>4. Returned(c, req) = Is("done")
    <3>1. Request(c).fc = 6 /\ Confirm(Request(c), req) = 1
      BY <1>1, <2>3 DEF req
    <3>. QED
      BY <3>1, ReturnedCases
  <2>5. Is("done") = Memory!Outcome(c) /\ ByAddress(m) = Memory!Effect(c)
    BY <1>6, <2>2, WriteOutcome
  <2>. HIDE DEF m
  <2>6. req.length \in 1..253
    BY <1>1
  <2>7. Reply(Request(c), mapping) = Answer(req, m)
    BY <2>1 DEF req
  <2>. QED
    BY <2>2, <2>4, <2>5, <2>6, <2>7, AnswerIsExact
<1>7. CASE ~Memory!Legal(c)
  <2>1. Reply(req, mapping) = Answer(ResponseException(req, ILLEGAL_DATA_ADDRESS), mapping)
    BY <1>1, <1>3, <1>4, <1>7 DEF ReplyWriteRegister
  <2>2. req.fc \in 1..23
    BY <1>1
  <2>. QED
    BY <1>7, <2>1, <2>2, ExceptionIsExact DEF req
<1>. QED
  BY <1>6, <1>7

\* SetWords stores a sequence of words where it is asked to.
LEMMA WordsStored ==
  ASSUME mapping \in Mappings, NEW addr \in Nat, NEW words \in Seq(Word)
  PROVE  Stored("registers", addr, words,
                SetWords(mapping.registers, addr - StartRegisters, words))
<1>. DEFINE a   == addr - StartRegisters
            tab == SetWords(mapping.registers, a, words)
<1>1. /\ Start("registers") = StartRegisters /\ Size("registers") = NbRegisters
      /\ StartRegisters \in Nat /\ Value("registers") = Word
  <2>1. Start("registers") = StartRegisters /\ Size("registers") = NbRegisters
    BY DEF Start, Size
  <2>2. Value("registers") = Word
    BY DEF Value
  <2>. QED
    BY <2>1, <2>2, Sizes
<1>2. mapping.registers \in [0..NbRegisters - 1 -> Word]
  BY DEF Mappings, RegisterAddresses
<1>3. Len(words) \in Nat
  OBVIOUS
<1>4. tab = [i \in 0..NbRegisters - 1 |->
                IF i \in a..a + Len(words) - 1 THEN words[i - a + 1] ELSE mapping.registers[i]]
  BY <1>2 DEF SetWords
<1>5. ASSUME NEW i \in 0..NbRegisters - 1, i \in a..a + Len(words) - 1
      PROVE  words[i - a + 1] \in Word
  <2>1. i - a + 1 \in 1..Len(words)
    BY <1>1, <1>3, <1>5
  <2>. QED
    BY <2>1
<1>6. tab \in [0..NbRegisters - 1 -> Word]
  BY <1>2, <1>4, <1>5
<1>. HIDE DEF tab
<1>. QED
  BY <1>1, <1>3, <1>4, <1>6 DEF Stored, tab

\* SetBits takes the values out of the bytes the client packed them in.
LEMMA BitsStored ==
  ASSUME mapping \in Mappings, NEW addr \in Nat, NEW values \in Seq(BOOLEAN)
  PROVE  Stored("coils", addr, values,
                SetBits(mapping.coils, addr - StartBits, Len(values), BitsToBytes(values)))
<1>. DEFINE a   == addr - StartBits
            tab == SetBits(mapping.coils, a, Len(values), BitsToBytes(values))
<1>1. Start("coils") = StartBits /\ Size("coils") = NbBits /\ StartBits \in Nat
      /\ Value("coils") = BOOLEAN
  BY Sizes DEF Start, Size, Value
<1>2. mapping.coils \in [0..NbBits - 1 -> BOOLEAN]
  BY DEF Mappings, BitAddresses
<1>3. Len(values) \in Nat
  OBVIOUS
<1>4. tab = [i \in 0..NbBits - 1 |->
                IF i \in a..a + Len(values) - 1
                THEN (i - a) % 8 \in BitsToBytes(values)[(i - a) \div 8 + 1]
                ELSE mapping.coils[i]]
  BY <1>2 DEF SetBits
<1>5. ASSUME NEW i \in 0..NbBits - 1, i \in a..a + Len(values) - 1
      PROVE  /\ values[i - a + 1] \in BOOLEAN
             /\ ((i - a) % 8 \in BitsToBytes(values)[(i - a) \div 8 + 1]) = values[i - a + 1]
  <2>1. PICK k \in 1..Len(values) : k = i - a + 1 /\ k - 1 = i - a
    BY <1>1, <1>3, <1>5
  <2>2. values[k] \in BOOLEAN
    BY <2>1
  <2>3. ((k - 1) % 8 \in BitsToBytes(values)[(k - 1) \div 8 + 1]) = values[k]
    <3>. DEFINE P == (k - 1) % 8 \in BitsToBytes(values)[(k - 1) \div 8 + 1]
    <3>1. P <=> values[k]
      BY SentBit
    <3>2. P = TRUE \/ P = FALSE
      OBVIOUS
    <3>3. values[k] = TRUE \/ values[k] = FALSE
      BY <2>2, Zenon
    <3>. HIDE DEF P
    <3>4. P = values[k]
      BY <3>1, <3>2, <3>3, Zenon
    <3>. QED
      BY <3>4, Zenon DEF P
  <2>. HIDE DEF a
  <2>. QED
    BY <2>1, <2>2, <2>3, Zenon
<1>. HIDE DEF a
<1>6. tab = [i \in 0..NbBits - 1 |->
                IF i \in a..a + Len(values) - 1 THEN values[i - a + 1] ELSE mapping.coils[i]]
  BY <1>4, <1>5
<1>. HIDE DEF tab
<1>7. tab \in [0..NbBits - 1 -> BOOLEAN]
  BY <1>2, <1>5, <1>6
<1>. QED
  BY <1>1, <1>3, <1>6, <1>7 DEF Stored, tab, a

\* modbus_write_bits.
LEMMA WriteBitsExact ==
  ASSUME mapping \in Mappings, NEW c, c.fn = "write", c.single = FALSE, c.table = "coils",
         c.addr \in Nat, c.values \in Seq(BOOLEAN), c.nb = Len(c.values), c.nb <= WriteBitsLimit
  PROVE  Exact(c)
<1>. DEFINE req == Request(c)
            a   == c.addr - StartBits
            new == SetBits(mapping.coils, a, c.nb, BitsToBytes(c.values))
            m   == [mapping EXCEPT !.coils = new]
            rsp == [fc |-> 15, addr |-> c.addr, nb |-> c.nb, length |-> 5]
<1>1. req = [fc |-> 15, addr |-> c.addr, nb |-> c.nb, count |-> BitBytes(c.nb),
             data |-> BitsToBytes(c.values), length |-> 6 + BitBytes(c.nb)]
  <2>1. RequestPdu(WRITE_COILS, c.nb) = 6 + BitBytes(c.nb)
    BY RequestCases
  <2>. QED
    BY <2>1 DEF Request, WRITE_COILS
<1>. HIDE DEF req
<1>2. /\ c.table \in Tables /\ Start(c.table) = StartBits /\ Size(c.table) = NbBits
      /\ NbLimit(c) = WriteBitsLimit /\ StartBits \in Nat /\ NbBits \in Nat /\ c.nb \in Nat
  <2>1. c.nb \in Nat
    OBVIOUS
  <2>2. /\ c.table \in Tables /\ Start(c.table) = StartBits /\ Size(c.table) = NbBits
        /\ NbLimit(c) = WriteBitsLimit
    BY LimitCases DEF Tables, Start, Size
  <2>. QED
    BY <2>1, <2>2, Sizes
<1>3. Reply(req, mapping) = ReplyWriteBits(req, mapping)
  BY <1>1, ReplyCases
<1>4. Memory!Legal(c) <=> c.nb > 0 /\ ~Outside(a, c.nb, NbBits)
  BY <1>2, RangeInTable, Limits DEF Memory!Legal
<1>5. BitBytes(c.nb) \in Nat /\ BitBytes(c.nb) * 8 >= c.nb
  <2>1. PICK b \in Nat : b = BitBytes(c.nb) /\ 8 * b >= c.nb
    BY <1>2, EnoughBytes
  <2>. QED
    BY <1>2, <2>1
<1>6. CASE Memory!Legal(c)
  <2>1. Reply(req, mapping) = Answer(rsp, m)
    <3>1. /\ ~(req.nb < 1 \/ WriteBitsLimit < req.nb \/ req.count * 8 < req.nb)
          /\ ~Outside(a, req.nb, NbBits)
      BY <1>1, <1>2, <1>4, <1>5, <1>6, Limits
    <3>2. Echo(req) = rsp /\ req.addr = c.addr /\ req.nb = c.nb /\ req.data = BitsToBytes(c.values)
      BY <1>1 DEF Echo
    <3>. QED
      BY <1>3, <3>1, <3>2 DEF ReplyWriteBits
  <2>2. m \in Mappings /\ ByAddress(m) = Memory!Put("coils", c.addr, c.values)
    <3>1. PICK tab : tab = new
      OBVIOUS
    <3>2. PICK values : values = c.values
      OBVIOUS
    <3>3. Stored("coils", c.addr, values, tab)
      BY <3>1, <3>2, BitsStored
    <3>4. /\ [mapping EXCEPT !["coils"] = tab] \in Mappings
          /\ ByAddress([mapping EXCEPT !["coils"] = tab]) = Memory!Put("coils", c.addr, values)
      BY <3>3, TableWritten
    <3>. QED
      BY <3>1, <3>2, <3>4
  <2>3. Confirm(req, rsp) = c.nb
    <3>1. req.fc = 15 /\ rsp.fc = req.fc /\ rsp.length = Expected(req)
      BY <1>1, ExpectedCases
    <3>2. Confirm(req, rsp) = ConfirmWriteMultiple(req, rsp)
      BY <3>1, ConfirmCases
    <3>. QED
      BY <1>1, <3>2 DEF ConfirmWriteMultiple
  <2>4. Returned(c, rsp) = Is("done")
    <3>1. Request(c).fc = 15 /\ Confirm(Request(c), rsp) = c.nb
      BY <1>1, <2>3 DEF req
    <3>. QED
      BY <1>2, <3>1, ReturnedCases
  <2>5. Is("done") = Memory!Outcome(c) /\ ByAddress(m) = Memory!Effect(c)
    BY <1>6, <2>2, WriteOutcome
  <2>6. rsp.length \in 1..253
    OBVIOUS
  <2>7. Reply(Request(c), mapping) = Answer(rsp, m)
    BY <2>1 DEF req
  <2>. HIDE DEF m, rsp
  <2>. QED
    BY <2>2, <2>4, <2>5, <2>6, <2>7, AnswerIsExact
<1>7. CASE ~Memory!Legal(c)
  <2>1. PICK code \in {ILLEGAL_DATA_VALUE, ILLEGAL_DATA_ADDRESS} :
           Reply(req, mapping) = Answer(ResponseException(req, code), mapping)
    <3>1. req.nb < 1 \/ Outside(a, req.nb, NbBits)
      BY <1>1, <1>2, <1>4, <1>7
    <3>2. req.addr = c.addr
      BY <1>1
    <3>. QED
      BY <1>3, <3>1, <3>2 DEF ReplyWriteBits
  <2>2. req.fc \in 1..23
    BY <1>1
  <2>. QED
    BY <1>7, <2>1, <2>2, ExceptionIsExact DEF req
<1>. QED
  BY <1>6, <1>7

\* modbus_write_registers.
LEMMA WriteRegistersExact ==
  ASSUME mapping \in Mappings, NEW c, c.fn = "write", c.single = FALSE, c.table = "registers",
         c.addr \in Nat, c.values \in Seq(Word), c.nb = Len(c.values), c.nb <= WriteRegistersLimit
  PROVE  Exact(c)
<1>. DEFINE req == Request(c)
            a   == c.addr - StartRegisters
            new == SetWords(mapping.registers, a, c.values)
            m   == [mapping EXCEPT !.registers = new]
            rsp == [fc |-> 16, addr |-> c.addr, nb |-> c.nb, length |-> 5]
<1>1. req = [fc |-> 16, addr |-> c.addr, nb |-> c.nb, count |-> 2 * c.nb,
             data |-> c.values, length |-> 6 + 2 * c.nb]
  <2>1. RequestPdu(WRITE_REGISTERS, c.nb) = 6 + 2 * c.nb
    BY RequestCases
  <2>. QED
    BY <2>1 DEF Request, WRITE_REGISTERS
<1>. HIDE DEF req
<1>2. /\ c.table \in Tables /\ Start(c.table) = StartRegisters /\ Size(c.table) = NbRegisters
      /\ NbLimit(c) = WriteRegistersLimit /\ StartRegisters \in Nat /\ NbRegisters \in Nat
      /\ c.nb \in Nat
  <2>1. c.nb \in Nat
    OBVIOUS
  <2>2. /\ c.table \in Tables /\ Start(c.table) = StartRegisters /\ Size(c.table) = NbRegisters
        /\ NbLimit(c) = WriteRegistersLimit
    BY LimitCases DEF Tables, Start, Size
  <2>. QED
    BY <2>1, <2>2, Sizes
<1>3. Reply(req, mapping) = ReplyWriteRegisters(req, mapping)
  BY <1>1, ReplyCases
<1>4. Memory!Legal(c) <=> c.nb > 0 /\ ~Outside(a, c.nb, NbRegisters)
  BY <1>2, RangeInTable, Limits DEF Memory!Legal
<1>5. req.count = 2 * req.nb
  BY <1>1
<1>6. CASE Memory!Legal(c)
  <2>1. Reply(req, mapping) = Answer(rsp, m)
    <3>1. /\ ~(req.nb < 1 \/ WriteRegistersLimit < req.nb \/ req.count # 2 * req.nb)
          /\ ~Outside(a, req.nb, NbRegisters)
      BY <1>1, <1>2, <1>4, <1>5, <1>6, Limits
    <3>2. Echo(req) = rsp /\ req.addr = c.addr /\ req.nb = c.nb /\ req.data = c.values
      BY <1>1 DEF Echo
    <3>. QED
      BY <1>3, <3>1, <3>2 DEF ReplyWriteRegisters
  <2>2. m \in Mappings /\ ByAddress(m) = Memory!Put("registers", c.addr, c.values)
    <3>1. PICK tab : tab = new
      OBVIOUS
    <3>2. PICK values : values = c.values
      OBVIOUS
    <3>3. Stored("registers", c.addr, values, tab)
      BY <3>1, <3>2, WordsStored
    <3>4. /\ [mapping EXCEPT !["registers"] = tab] \in Mappings
          /\ ByAddress([mapping EXCEPT !["registers"] = tab])
               = Memory!Put("registers", c.addr, values)
      BY <3>3, TableWritten
    <3>. QED
      BY <3>1, <3>2, <3>4
  <2>3. Confirm(req, rsp) = c.nb
    <3>1. req.fc = 16 /\ rsp.fc = req.fc /\ rsp.length = Expected(req)
      BY <1>1, ExpectedCases
    <3>2. Confirm(req, rsp) = ConfirmWriteMultiple(req, rsp)
      BY <3>1, ConfirmCases
    <3>. QED
      BY <1>1, <3>2 DEF ConfirmWriteMultiple
  <2>4. Returned(c, rsp) = Is("done")
    <3>1. Request(c).fc = 16 /\ Confirm(Request(c), rsp) = c.nb
      BY <1>1, <2>3 DEF req
    <3>. QED
      BY <1>2, <3>1, ReturnedCases
  <2>5. Is("done") = Memory!Outcome(c) /\ ByAddress(m) = Memory!Effect(c)
    BY <1>6, <2>2, WriteOutcome
  <2>6. rsp.length \in 1..253
    OBVIOUS
  <2>7. Reply(Request(c), mapping) = Answer(rsp, m)
    BY <2>1 DEF req
  <2>. HIDE DEF m, rsp
  <2>. QED
    BY <2>2, <2>4, <2>5, <2>6, <2>7, AnswerIsExact
<1>7. CASE ~Memory!Legal(c)
  <2>1. PICK code \in {ILLEGAL_DATA_VALUE, ILLEGAL_DATA_ADDRESS} :
           Reply(req, mapping) = Answer(ResponseException(req, code), mapping)
    <3>1. req.nb < 1 \/ Outside(a, req.nb, NbRegisters)
      BY <1>1, <1>2, <1>4, <1>7
    <3>2. req.addr = c.addr
      BY <1>1
    <3>. QED
      BY <1>3, <3>1, <3>2 DEF ReplyWriteRegisters
  <2>2. req.fc \in 1..23
    BY <1>1
  <2>. QED
    BY <1>7, <2>1, <2>2, ExceptionIsExact DEF req
<1>. QED
  BY <1>6, <1>7

\* modbus_mask_write_register.
LEMMA MaskWriteExact ==
  ASSUME mapping \in Mappings, NEW c, c.fn = "mask", c.table = "registers",
         c.addr \in Nat, c.nb = 1, c.and \in Word, c.or \in Word
  PROVE  Exact(c)
<1>. DEFINE req == Request(c)
            a   == c.addr - StartRegisters
            m   == [mapping EXCEPT !.registers[a] =
                       (@ \cap c.and) \cup (c.or \cap ((0..15) \ c.and))]
<1>1. req = [fc |-> 22, addr |-> c.addr, and |-> c.and, or |-> c.or, length |-> 7]
  BY DEF Request, MASK_WRITE
<1>. HIDE DEF req
<1>2. /\ c.table \in Tables /\ Start(c.table) = StartRegisters /\ Size(c.table) = NbRegisters
      /\ NbLimit(c) = 1 /\ StartRegisters \in Nat /\ NbRegisters \in Nat
  BY Sizes, LimitCases DEF Tables, Start, Size
<1>3. Reply(req, mapping) = ReplyMaskWrite(req, mapping)
  BY <1>1, ReplyCases
<1>4. Memory!Legal(c) <=> ~Outside(a, 1, NbRegisters)
  BY <1>2, RangeInTable, Limits DEF Memory!Legal
<1>5. CASE Memory!Legal(c)
  <2>1. Reply(req, mapping) = Answer(req, m)
    BY <1>1, <1>3, <1>4, <1>5 DEF ReplyMaskWrite
  <2>2. a \in 0..NbRegisters - 1
    BY <1>2, <1>4, <1>5 DEF Outside
  <2>3. PICK v : v = (mapping.registers[a] \cap c.and) \cup (c.or \ c.and)
    OBVIOUS
  <2>4. v = (mapping.registers[a] \cap c.and) \cup (c.or \cap ((0..15) \ c.and))
    BY <2>3 DEF Word
  <2>5. m \in Mappings /\ ByAddress(m) = Memory!Put("registers", c.addr, <<v>>)
    <3>1. mapping.registers[a] \in Word
      BY <2>2 DEF Mappings, RegisterAddresses
    <3>2. v \in Value("registers") /\ c.addr - Start("registers") \in 0..Size("registers") - 1
      BY <1>2, <2>2, <2>3, <3>1 DEF Value, Word
    <3>3. LET n == [mapping EXCEPT !["registers"] = [@ EXCEPT ![c.addr - Start("registers")] = v]]
          IN  n \in Mappings /\ ByAddress(n) = Memory!Put("registers", c.addr, <<v>>)
      BY <3>2, PlaceWritten
    <3>4. m = [mapping EXCEPT !["registers"] = [@ EXCEPT ![c.addr - Start("registers")] = v]]
      BY <1>2, <2>4
    <3>. QED
      BY <3>3, <3>4
  <2>6. Confirm(req, req) = 1
    <3>1. req.fc = 22 /\ req.length = Expected(req)
      BY <1>1, ExpectedCases
    <3>. QED
      BY <3>1, ConfirmCases
  <2>7. Returned(c, req) = Is("done")
    <3>1. Request(c).fc = 22 /\ Confirm(Request(c), req) = 1
      BY <1>1, <2>6 DEF req
    <3>. QED
      BY <3>1, ReturnedCases
  <2>8. Is("done") = Memory!Outcome(c) /\ ByAddress(m) = Memory!Effect(c)
    <3>1. ByAddress(mapping)["registers"][c.addr] = mapping.registers[a]
      <4>1. c.addr \in Start("registers")..Start("registers") + Size("registers") - 1
            /\ c.addr - Start("registers") = a /\ "registers" \in Tables
        BY <1>2, <2>2
      <4>2. ByAddress(mapping)["registers"] =
              [x \in Start("registers")..Start("registers") + Size("registers") - 1 |->
                 mapping["registers"][x - Start("registers")]]
        BY <4>1, TableByAddress
      <4>. QED
        BY <4>1, <4>2
    <3>2. Memory!Effect(c) = Memory!Put("registers", c.addr, <<v>>)
      BY <1>5, <2>3, <3>1 DEF Memory!Effect, Memory!After
    <3>3. Memory!Outcome(c) = Is("done")
      BY <1>5 DEF Memory!Outcome, Memory!Is, Is
    <3>. QED
      BY <2>5, <3>2, <3>3
  <2>. HIDE DEF m
  <2>9. req.length \in 1..253
    BY <1>1
  <2>10. Reply(Request(c), mapping) = Answer(req, m)
    BY <2>1 DEF req
  <2>. QED
    BY <2>5, <2>7, <2>8, <2>9, <2>10, AnswerIsExact
<1>6. CASE ~Memory!Legal(c)
  <2>1. Reply(req, mapping) = Answer(ResponseException(req, ILLEGAL_DATA_ADDRESS), mapping)
    BY <1>1, <1>3, <1>4, <1>6 DEF ReplyMaskWrite
  <2>2. req.fc \in 1..23
    BY <1>1
  <2>. QED
    BY <1>6, <2>1, <2>2, ExceptionIsExact DEF req
<1>. QED
  BY <1>5, <1>6

\* modbus_write_and_read_registers.
LEMMA WriteAndReadExact ==
  ASSUME mapping \in Mappings, NEW c, c.fn = "write_and_read", c.table = "registers",
         c.addr \in Nat, c.nb \in Nat, c.waddr \in Nat, c.values \in Seq(Word),
         c.wnb = Len(c.values), c.nb <= WrReadLimit, c.wnb <= WrWriteLimit
  PROVE  Exact(c)
<1>. DEFINE req == Request(c)
            a   == c.addr - StartRegisters
            w   == c.waddr - StartRegisters
            new == SetWords(mapping.registers, w, c.values)
            m   == [mapping EXCEPT !.registers = new]
            rsp == [fc |-> 23, count |-> 2 * c.nb, data |-> Words(new, a, c.nb),
                    length |-> 2 + 2 * c.nb]
<1>1. req = [fc |-> 23, addr |-> c.addr, nb |-> c.nb, waddr |-> c.waddr, wnb |-> c.wnb,
             count |-> 2 * c.wnb, data |-> c.values, length |-> 10 + 2 * c.wnb]
  <2>1. RequestPdu(WRITE_AND_READ, c.wnb) = 10 + 2 * c.wnb
    BY RequestCases
  <2>. QED
    BY <2>1 DEF Request, WRITE_AND_READ
<1>. HIDE DEF req
<1>2. /\ c.table \in Tables /\ Start(c.table) = StartRegisters /\ Size(c.table) = NbRegisters
      /\ NbLimit(c) = WrReadLimit /\ StartRegisters \in Nat /\ NbRegisters \in Nat
      /\ c.wnb \in Nat
  <2>1. c.wnb \in Nat
    OBVIOUS
  <2>2. /\ c.table \in Tables /\ Start(c.table) = StartRegisters /\ Size(c.table) = NbRegisters
        /\ NbLimit(c) = WrReadLimit
    BY LimitCases DEF Tables, Start, Size
  <2>. QED
    BY <2>1, <2>2, Sizes
<1>3. Reply(req, mapping) = ReplyWriteAndRead(req, mapping)
  BY <1>1, ReplyCases
<1>4. Memory!Legal(c) <=> /\ c.nb > 0 /\ ~Outside(a, c.nb, NbRegisters)
                          /\ c.wnb > 0 /\ ~Outside(w, c.wnb, NbRegisters)
  <2>1. c.nb > 0 => (Memory!Within(c.table, c.addr, c.nb) <=> ~Outside(a, c.nb, NbRegisters))
    BY <1>2, RangeInTable
  <2>2. c.wnb > 0 => (Memory!Within(c.table, c.waddr, c.wnb) <=> ~Outside(w, c.wnb, NbRegisters))
    BY <1>2, RangeInTable
  <2>3. (c.nb \in 1..NbLimit(c) <=> c.nb > 0) /\ (c.wnb \in 1..WrWriteLimit <=> c.wnb > 0)
    BY <1>2, Limits
  <2>. QED
    BY <2>1, <2>2, <2>3 DEF Memory!Legal
<1>5. CASE Memory!Legal(c)
  <2>1. Reply(req, mapping) = Answer(rsp, m)
    <3>1. /\ ~(\/ req.wnb < 1 \/ WrWriteLimit < req.wnb \/ req.nb < 1 \/ WrReadLimit < req.nb
               \/ req.count # 2 * req.wnb)
          /\ ~(Outside(a, req.nb, NbRegisters) \/ Outside(w, req.wnb, NbRegisters))
      BY <1>1, <1>2, <1>4, <1>5, Limits
    <3>2. /\ req.fc = 23 /\ req.addr = c.addr /\ req.waddr = c.waddr /\ req.nb = c.nb
          /\ req.data = c.values
      BY <1>1
    <3>. QED
      BY <1>3, <3>1, <3>2 DEF ReplyWriteAndRead
  <2>2. PICK tab : tab = new
    OBVIOUS
  <2>3. m \in Mappings /\ ByAddress(m) = Memory!Put("registers", c.waddr, c.values)
    <3>1. PICK values : values = c.values
      OBVIOUS
    <3>2. Stored("registers", c.waddr, values, tab)
      BY <2>2, <3>1, WordsStored
    <3>3. /\ [mapping EXCEPT !["registers"] = tab] \in Mappings
          /\ ByAddress([mapping EXCEPT !["registers"] = tab])
               = Memory!Put("registers", c.waddr, values)
      BY <3>2, TableWritten
    <3>. QED
      BY <2>2, <3>1, <3>3
  <2>4. rsp.length \in 1..253 /\ rsp.count \div 2 = c.nb
    <3>1. PICK n \in Nat : n = c.nb /\ n <= 125
      BY Limits
    <3>2. 2 + 2 * n \in 1..253 /\ (2 * n) \div 2 = n
      BY <3>1, ShortEnough
    <3>. QED
      BY <3>1, <3>2
  <2>5. Confirm(req, rsp) = c.nb
    <3>1. req.fc = 23 /\ rsp.fc = req.fc /\ rsp.length = Expected(req) /\ req.nb = c.nb
      BY <1>1, ExpectedCases
    <3>2. Confirm(req, rsp) = ConfirmReadRegisters(req, rsp)
      BY <3>1, ConfirmCases
    <3>. QED
      BY <2>4, <3>1, <3>2 DEF ConfirmReadRegisters
  <2>6. Returned(c, rsp) = [is |-> "done", values |-> SubSeq(Words(new, a, c.nb), 1, c.nb)]
    <3>1. Request(c).fc = 23 /\ Confirm(Request(c), rsp) = c.nb
      BY <1>1, <2>5 DEF req
    <3>. QED
      BY <3>1, ReturnedCases
  <2>. HIDE DEF m, new
  <2>7. \A k \in 1..c.nb : a + k - 1 \in 0..NbRegisters - 1
    <3>1. a \in Int /\ 0 <= a /\ a + c.nb <= NbRegisters
      BY <1>2, <1>4, <1>5 DEF Outside
    <3>. HIDE DEF a
    <3>. QED
      BY <1>2, <3>1
  <2>8. SubSeq(Words(tab, a, c.nb), 1, c.nb) = [k \in 1..c.nb |-> tab[a + k - 1]]
    <3>1. tab \in [0..NbRegisters - 1 -> Word]
      BY <2>2, <2>3 DEF m, Mappings, RegisterAddresses
    <3>2. \A k \in 1..c.nb : tab[a + k - 1] \in Word
      BY <2>7, <3>1
    <3>. QED
      BY <1>2, <3>2, WordsReturned DEF Words
  <2>9. ByAddress(m) = Memory!Effect(c) /\ ByAddress(m) = Memory!After(c)
    BY <1>5, <2>3 DEF Memory!Effect, Memory!After
  <2>10. Memory!Outcome(c) = [is |-> "done", values |-> [k \in 1..c.nb |-> tab[a + k - 1]]]
    <3>1. ASSUME NEW k \in 1..c.nb
          PROVE  ByAddress(m)["registers"][c.addr + k - 1] = tab[a + k - 1]
      <4>1. m.registers = tab /\ "registers" \in Tables
        BY <2>2 DEF m, Tables, Mappings
      <4>2. PICK n : n = m
        OBVIOUS
      <4>3. ByAddress(n)["registers"] =
              [x \in Start("registers")..Start("registers") + Size("registers") - 1 |->
                 n["registers"][x - Start("registers")]]
        BY <2>3, <4>1, <4>2, TableByAddress
      <4>4. /\ c.addr + k - 1 \in Start("registers")..Start("registers") + Size("registers") - 1
            /\ (c.addr + k - 1) - Start("registers") = a + k - 1
        <5>1. a + k - 1 \in 0..NbRegisters - 1
          BY <2>7
        <5>2. /\ c.addr + k - 1 \in StartRegisters..StartRegisters + NbRegisters - 1
              /\ (c.addr + k - 1) - StartRegisters = a + k - 1
          BY <1>2, <5>1
        <5>. QED
          BY <1>2, <5>2
      <4>. QED
        BY <4>1, <4>2, <4>3, <4>4
    <3>2. Memory!Outcome(c) =
            [is |-> "done", values |-> [k \in 1..c.nb |-> ByAddress(m)["registers"][c.addr + k - 1]]]
      BY <1>5, <2>9 DEF Memory!Outcome
    <3>. QED
      BY <3>1, <3>2, Zenon
  <2>11. Returned(c, rsp) = Memory!Outcome(c)
    BY <2>2, <2>6, <2>8, <2>10
  <2>12. Reply(Request(c), mapping) = Answer(rsp, m)
    BY <2>1 DEF req
  <2>. HIDE DEF rsp
  <2>. QED
    BY <2>3, <2>4, <2>9, <2>11, <2>12, AnswerIsExact
<1>6. CASE ~Memory!Legal(c)
  <2>1. PICK code \in {ILLEGAL_DATA_VALUE, ILLEGAL_DATA_ADDRESS} :
           Reply(req, mapping) = Answer(ResponseException(req, code), mapping)
    <3>1. \/ req.nb < 1 \/ req.wnb < 1
          \/ Outside(a, req.nb, NbRegisters) \/ Outside(w, req.wnb, NbRegisters)
      BY <1>1, <1>2, <1>4, <1>6
    <3>2. req.addr = c.addr /\ req.waddr = c.waddr
      BY <1>1
    <3>. QED
      BY <1>3, <3>1, <3>2 DEF ReplyWriteAndRead
  <2>2. req.fc \in 1..23
    BY <1>1
  <2>. QED
    BY <1>6, <2>1, <2>2, ExceptionIsExact DEF req
<1>. QED
  BY <1>5, <1>6

-----------------------------------------------------------------------------
(* Every call                                                               *)

\* What a call may be, as modbus.h declares it.
LEMMA CallCases ==
  ASSUME NEW c \in Calls, ~TooMany(c)
  PROVE  /\ c.addr \in Nat /\ c.nb \in Nat
         /\ \/ c.fn = "read" /\ c.table \in {"coils", "inputs"} /\ c.nb <= ReadBitsLimit
            \/ /\ c.fn = "read" /\ c.table \in {"registers", "inputRegisters"}
               /\ c.nb <= ReadRegistersLimit
            \/ /\ c.fn = "write" /\ c.table = "coils" /\ c.values \in Seq(BOOLEAN)
               /\ c.nb = Len(c.values) /\ c.nb <= WriteBitsLimit
               /\ (c.single = TRUE /\ c.nb = 1) \/ c.single = FALSE
            \/ /\ c.fn = "write" /\ c.table = "registers" /\ c.values \in Seq(Word)
               /\ c.nb = Len(c.values) /\ c.nb <= WriteRegistersLimit
               /\ (c.single = TRUE /\ c.nb = 1) \/ c.single = FALSE
            \/ c.fn = "mask" /\ c.table = "registers" /\ c.nb = 1 /\ c.and \in Word /\ c.or \in Word
            \/ /\ c.fn = "write_and_read" /\ c.table = "registers" /\ c.waddr \in Nat
               /\ c.values \in Seq(Word) /\ c.wnb = Len(c.values)
               /\ c.nb <= WrReadLimit /\ c.wnb <= WrWriteLimit
<1>1. /\ c.nb \in Nat /\ NbLimit(c) \in Nat /\ WrWriteLimit \in Nat
      /\ c.fn = "write_and_read" => c.wnb \in Nat
  <2>1. c.fn = "write_and_read" => c.values \in Seq(Word) /\ c.wnb = Len(c.values)
    BY CallAssumption DEF CallAssumption
  <2>. QED
    BY <2>1, CallAssumption, Limits DEF CallAssumption, NbLimit
<1>2. c.nb <= NbLimit(c) /\ (c.fn = "write_and_read" => c.wnb <= WrWriteLimit)
  BY <1>1 DEF TooMany
<1>. QED
  BY <1>1, <1>2, LimitCases, CallAssumption DEF CallAssumption

\* No request is longer than a PDU.
LEMMA RequestLength ==
  ASSUME NEW c \in Calls, ~TooMany(c)
  PROVE  Request(c).length \in 1..253
<1>. DEFINE L == Request(c).length
<1>1. CASE c.fn = "read"
  BY <1>1 DEF Request
<1>2. CASE c.fn = "write" /\ c.single = TRUE
  <2>1. c.table = "coils" \/ c.table = "registers"
    BY <1>2, CallCases
  <2>. QED
    BY <1>2, <2>1 DEF Request, WriteSingle
<1>3. CASE c.fn = "write" /\ c.single = FALSE /\ c.table = "coils"
  <2>1. L = 6 + BitBytes(c.nb)
    BY <1>3, RequestCases DEF Request
  <2>2. c.nb \in Nat /\ c.nb <= WriteBitsLimit
    BY <1>3, CallCases
  <2>3. PICK b \in Nat : b = BitBytes(c.nb) /\ b <= 246
    BY <2>2, Limits, EnoughBytes
  <2>. QED
    BY <2>1, <2>3, ShortEnough
<1>4. CASE c.fn = "write" /\ c.single = FALSE /\ c.table = "registers"
  <2>1. L = 6 + 2 * c.nb
    BY <1>4, RequestCases DEF Request
  <2>2. c.nb \in Nat /\ c.nb <= WriteRegistersLimit
    BY <1>4, CallCases
  <2>3. PICK n \in Nat : n = c.nb /\ n <= 123
    BY <2>2, Limits
  <2>4. 6 + 2 * n \in 1..253
    BY <2>3, ShortEnough
  <2>. QED
    BY <2>1, <2>3, <2>4
<1>5. CASE c.fn = "mask"
  BY <1>5 DEF Request
<1>6. CASE c.fn = "write_and_read"
  <2>1. L = 10 + 2 * c.wnb
    BY <1>6, RequestCases DEF Request
  <2>2. c.wnb = Len(c.values) /\ c.values \in Seq(Word) /\ c.wnb <= WrWriteLimit
    BY <1>6, CallCases
  <2>3. PICK n \in Nat : n = c.wnb /\ n <= 121
    BY <2>2, Limits
  <2>. QED
    BY <2>1, <2>3, ShortEnough
<1>. HIDE DEF L
<1>7. \/ c.fn = "read" \/ c.fn = "mask" \/ c.fn = "write_and_read"
      \/ /\ c.fn = "write" /\ c.table \in {"coils", "registers"}
         /\ c.single = TRUE \/ c.single = FALSE
  BY CallCases
<1>. QED
  BY <1>1, <1>2, <1>3, <1>4, <1>5, <1>6, <1>7 DEF L

\* Every call of modbus.h is exact, whatever is in the tables.
LEMMA CallIsExact ==
  ASSUME mapping \in Mappings, NEW c \in Calls, ~TooMany(c)
  PROVE  Exact(c)
<1>1. CASE c.fn = "read"
  BY <1>1, CallCases, ReadBitsExact, ReadRegistersExact
<1>2. CASE c.fn = "write" /\ c.single = TRUE
  BY <1>2, CallCases, WriteBitExact, WriteRegisterExact
<1>3. CASE c.fn = "write" /\ c.single = FALSE
  BY <1>3, CallCases, WriteBitsExact, WriteRegistersExact
<1>4. CASE c.fn = "mask"
  BY <1>4, CallCases, MaskWriteExact
<1>5. CASE c.fn = "write_and_read"
  BY <1>5, CallCases, WriteAndReadExact
<1>6. \/ c.fn \in {"read", "mask", "write_and_read"}
      \/ c.fn = "write" /\ (c.single = TRUE \/ c.single = FALSE)
  BY CallCases
<1>. QED
  BY <1>1, <1>2, <1>3, <1>4, <1>5, <1>6

\* What a call refuses to send, the memory refuses as well.
LEMMA TooManyIsIllegal ==
  ASSUME NEW c \in Calls, TooMany(c)
  PROVE  ~Memory!Legal(c)
<1>1. /\ c.nb \in Nat /\ NbLimit(c) \in Nat /\ WrWriteLimit \in Nat
      /\ c.fn = "write_and_read" => c.wnb \in Nat
  <2>1. c.fn = "write_and_read" => c.values \in Seq(Word) /\ c.wnb = Len(c.values)
    BY CallAssumption DEF CallAssumption
  <2>. QED
    BY <2>1, CallAssumption, Limits DEF CallAssumption, NbLimit
<1>. QED
  BY <1>1 DEF TooMany, Memory!Legal

\* A stranger's malformed request changes nothing.
LEMMA StrangerKeeps ==
  ASSUME NEW req \in Malformed, NEW m
  PROVE  Reply(req, m).mapping = m
<1>1. \/ req.fc \notin {5, 6, 15, 16, 22, 23}
      \/ req.fc = 5 /\ req.value \notin {ON, {}}
      \/ req.fc = 15 /\ (req.nb < 1 \/ WriteBitsLimit < req.nb \/ req.count * 8 < req.nb)
      \/ req.fc = 16 /\ (req.nb < 1 \/ WriteRegistersLimit < req.nb \/ req.count # 2 * req.nb)
      \/ /\ req.fc = 23
         /\ \/ req.wnb < 1 \/ WrWriteLimit < req.wnb \/ req.nb < 1 \/ WrReadLimit < req.nb
            \/ req.count # 2 * req.wnb
  <2>1. \/ req.fc \notin {5, 6, 15, 16, 22, 23}
        \/ req.fc = 5 /\ req.value \notin {ON, {}}
        \/ /\ req.fc = 15 /\ req.nb \in Nat
           /\ req.nb \notin 1..WriteBitsLimit \/ req.count * 8 < req.nb
        \/ /\ req.fc = 16 /\ req.nb \in Nat
           /\ req.nb \notin 1..WriteRegistersLimit \/ req.count # 2 * req.nb
        \/ /\ req.fc = 23 /\ req.nb \in Nat /\ req.wnb \in Nat
           /\ req.nb \in 1..WrReadLimit /\ req.wnb \in 1..WrWriteLimit => req.count # 2 * req.wnb
    BY MalformedAssumption DEF MalformedAssumption, WRITE_COIL, WRITE_REGISTER, WRITE_COILS,
       WRITE_REGISTERS, MASK_WRITE, WRITE_AND_READ
  <2>. QED
    BY <2>1, Limits
<1>2. \A rsp : Answer(rsp, m).mapping = m
  BY DEF Answer
<1>3. CASE req.fc \notin {5, 6, 15, 16, 22, 23}
  BY <1>2, <1>3 DEF Reply, ReplyReadBits, ReplyReadRegisters, ReplySlaveId, ReadBits,
     ReadRegisters, READ_COILS, READ_DISCRETE_INPUTS, READ_HOLDING, READ_INPUT, WRITE_COIL,
     WRITE_REGISTER, WRITE_COILS, WRITE_REGISTERS, REPORT_SLAVE_ID, MASK_WRITE, WRITE_AND_READ
<1>4. CASE req.fc = 5 /\ req.value \notin {ON, {}}
  BY <1>2, <1>4, ReplyCases DEF ReplyWriteBit
<1>5. CASE req.fc = 15 /\ (req.nb < 1 \/ WriteBitsLimit < req.nb \/ req.count * 8 < req.nb)
  BY <1>2, <1>5, ReplyCases DEF ReplyWriteBits
<1>6. CASE req.fc = 16 /\ (req.nb < 1 \/ WriteRegistersLimit < req.nb \/ req.count # 2 * req.nb)
  BY <1>2, <1>6, ReplyCases DEF ReplyWriteRegisters
<1>7. CASE /\ req.fc = 23
           /\ \/ req.wnb < 1 \/ WrWriteLimit < req.wnb \/ req.nb < 1 \/ WrReadLimit < req.nb
              \/ req.count # 2 * req.wnb
  BY <1>2, <1>7, ReplyCases DEF ReplyWriteAndRead
<1>. QED
  BY <1>1, <1>3, <1>4, <1>5, <1>6, <1>7

-----------------------------------------------------------------------------
(* The inductive invariant                                                  *)

\* Where a client is says what it has on the wire: nothing, its request as it
\* was built, or an answer. A call with too many values never gets there.
StageFits(p) ==
    \/ stage[p] = "idle" /\ call[p] = None /\ wire[p] = None
    \/ stage[p] = "refused" /\ call[p] \in Calls /\ TooMany(call[p]) /\ wire[p] = None
    \/ /\ stage[p] = "sent" /\ call[p] \in Calls /\ ~TooMany(call[p])
       /\ wire[p] = Request(call[p])
    \/ /\ stage[p] = "answered" /\ call[p] \in Calls /\ ~TooMany(call[p])
       /\ wire[p].length \in 1..253

\* What a client has left behind is a call that was sent.
OldFits(p) == old[p] = None \/ (old[p] \in Calls /\ ~TooMany(old[p]))

\* The tables are tables, and every client is where it can be.
ExchangeInv ==
    /\ mapping \in Mappings
    /\ DOMAIN call = Clients /\ DOMAIN wire = Clients
    /\ DOMAIN stage = Clients /\ DOMAIN old = Clients
    /\ \A p \in Clients : StageFits(p) /\ OldFits(p)

\* No client has made a call, and the tables begin as they are given.
LEMMA ExchangeInit == Init => ExchangeInv
BY InitialAssumption DEF InitialAssumption, Init, ExchangeInv, StageFits, OldFits

\* A step of one client leaves what the others have as it was.
LEMMA OthersFit ==
  ASSUME NEW p \in Clients, NEW q \in Clients,
         stage'[q] = stage[q], call'[q] = call[q], wire'[q] = wire[q], old'[q] = old[q],
         StageFits(q), OldFits(q)
  PROVE  StageFits(q)' /\ OldFits(q)'
BY DEF StageFits, OldFits

\* The call that an old request was built from, done by the server.
LEMMA OldIsExact ==
  ASSUME ExchangeInv, NEW p \in Clients, old[p] # None
  PROVE  Exact(old[p])
<1>1. PICK c \in Calls : c = old[p] /\ ~TooMany(c)
  BY DEF ExchangeInv, OldFits
<1>2. Exact(c)
  BY <1>1, CallIsExact DEF ExchangeInv
<1>. QED
  BY <1>1, <1>2

\* The call a client waits for, done by the server.
LEMMA SentIsExact ==
  ASSUME ExchangeInv, NEW p \in Clients, stage[p] = "sent"
  PROVE  Exact(call[p]) /\ wire[p] = Request(call[p])
<1>1. PICK c \in Calls : c = call[p] /\ ~TooMany(c) /\ wire[p] = Request(c)
  BY DEF ExchangeInv, StageFits
<1>2. Exact(c)
  BY <1>1, CallIsExact DEF ExchangeInv
<1>. QED
  BY <1>1, <1>2

\* Each action preserves the invariant.
LEMMA ExchangeNext == ExchangeInv /\ [Next]_vars => ExchangeInv'
<1>. SUFFICES ASSUME ExchangeInv, [Next]_vars
              PROVE  ExchangeInv'
  OBVIOUS
<1>0. /\ mapping \in Mappings
      /\ DOMAIN call = Clients /\ DOMAIN wire = Clients
      /\ DOMAIN stage = Clients /\ DOMAIN old = Clients
      /\ \A p \in Clients : StageFits(p) /\ OldFits(p)
  BY DEF ExchangeInv
<1>1. ASSUME NEW p \in Clients, Call(p)
      PROVE  ExchangeInv'
  <2>1. PICK c \in Calls :
           /\ call' = [call EXCEPT ![p] = c]
           /\ IF TooMany(c)
              THEN stage' = [stage EXCEPT ![p] = "refused"] /\ UNCHANGED wire
              ELSE /\ wire' = [wire EXCEPT ![p] = Request(c)]
                   /\ stage' = [stage EXCEPT ![p] = "sent"]
    BY <1>1 DEF Call
  <2>2. stage[p] = "idle" /\ mapping' = mapping /\ old' = old
    BY <1>1 DEF Call
  <2>3. StageFits(p)' /\ OldFits(p)'
    BY <1>0, <2>1, <2>2 DEF StageFits, OldFits
  <2>4. ASSUME NEW q \in Clients, q # p
        PROVE  StageFits(q)' /\ OldFits(q)'
    BY <1>0, <2>1, <2>2, <2>4, OthersFit
  <2>5. DOMAIN call' = Clients /\ DOMAIN wire' = Clients /\ DOMAIN stage' = Clients
    BY <1>0, <2>1
  <2>. QED
    BY <1>0, <2>2, <2>3, <2>4, <2>5 DEF ExchangeInv
<1>2. ASSUME NEW p \in Clients, Finish(p), UNCHANGED mapping,
             \/ UNCHANGED old
             \/ stage[p] = "sent" /\ old' = [old EXCEPT ![p] = call[p]]
      PROVE  ExchangeInv'
  <2>1. StageFits(p)'
    BY <1>0, <1>2 DEF StageFits, Finish
  <2>2. OldFits(p)'
    BY <1>0, <1>2 DEF StageFits, OldFits
  <2>3. ASSUME NEW q \in Clients, q # p
        PROVE  StageFits(q)' /\ OldFits(q)'
    BY <1>0, <1>2, <2>3, OthersFit DEF Finish
  <2>4. DOMAIN call' = Clients /\ DOMAIN wire' = Clients /\ DOMAIN stage' = Clients
        /\ DOMAIN old' = Clients
    BY <1>0, <1>2 DEF Finish
  <2>. QED
    BY <1>0, <1>2, <2>1, <2>2, <2>3, <2>4 DEF ExchangeInv
<1>3. ASSUME NEW p \in Clients, Return(p)
      PROVE  ExchangeInv'
  BY <1>2, <1>3 DEF Return
<1>4. ASSUME NEW p \in Clients, GiveUp(p)
      PROVE  ExchangeInv'
  BY <1>2, <1>4 DEF GiveUp
<1>5. ASSUME NEW p \in Clients, Serve(p)
      PROVE  ExchangeInv'
  <2>1. PICK c \in Calls : c = call[p] /\ ~TooMany(c) /\ wire[p] = Request(c)
    BY <1>0, <1>5 DEF Serve, StageFits
  <2>2. Exact(c)
    BY <1>0, <2>1, CallIsExact
  <2>3. /\ mapping' = Reply(Request(c), mapping).mapping
        /\ wire' = [wire EXCEPT ![p] = Reply(Request(c), mapping).rsp]
        /\ stage' = [stage EXCEPT ![p] = "answered"] /\ call' = call /\ old' = old
    BY <1>5, <2>1 DEF Serve
  <2>4. mapping' \in Mappings /\ wire'[p].length \in 1..253
    BY <1>0, <2>2, <2>3 DEF Exact
  <2>5. StageFits(p)' /\ OldFits(p)'
    BY <1>0, <2>1, <2>3, <2>4 DEF StageFits, OldFits
  <2>6. ASSUME NEW q \in Clients, q # p
        PROVE  StageFits(q)' /\ OldFits(q)'
    BY <1>0, <2>3, <2>6, OthersFit
  <2>. QED
    BY <1>0, <2>3, <2>4, <2>5, <2>6 DEF ExchangeInv
<1>6. ASSUME NEW p \in Clients, ServeOld(p)
      PROVE  ExchangeInv'
  <2>1. mapping' \in Mappings
    BY <1>6, OldIsExact DEF ServeOld, Exact
  <2>2. \A q \in Clients : StageFits(q)' /\ OldFits(q)'
    BY <1>0, <1>6 DEF ServeOld, StageFits, OldFits
  <2>. QED
    BY <1>0, <1>6, <2>1, <2>2 DEF ServeOld, ExchangeInv
<1>7. CASE ServeStranger
  <2>1. mapping' = mapping
    BY <1>7, StrangerKeeps DEF ServeStranger
  <2>. QED
    BY <1>0, <1>7, <2>1 DEF ServeStranger, ExchangeInv, StageFits, OldFits
<1>8. CASE UNCHANGED vars
  BY <1>0, <1>8 DEF vars, ExchangeInv, StageFits, OldFits
<1>. QED
  BY <1>1, <1>3, <1>4, <1>5, <1>6, <1>7, <1>8 DEF Next

\* The mapping keeps its size, a client has its own request or an answer on the
\* wire, and what the server still has of it is a call that was sent.
THEOREM ExchangeInvariance == Spec => []ExchangeInv
<1>. QED
  BY ExchangeInit, ExchangeNext, PTL DEF Spec

\* Requests and responses of every call stay within a PDU, for tables of any
\* size and arguments of any value.
THEOREM ExchangeTypeCorrect == Spec => []TypeOK
<1>1. ExchangeInv => TypeOK
  <2>. SUFFICES ASSUME ExchangeInv
                PROVE  TypeOK
    OBVIOUS
  <2>1. ASSUME NEW p \in Clients
        PROVE  /\ stage[p] \in {"idle", "refused", "sent", "answered"}
               /\ IF stage[p] = "idle" THEN call[p] = None ELSE call[p] \in Calls
               /\ IF stage[p] \in {"sent", "answered"} THEN wire[p].length \in 1..253
                                                     ELSE wire[p] = None
               /\ old[p] \in Calls \cup {None}
    <3>1. StageFits(p) /\ OldFits(p)
      BY DEF ExchangeInv
    <3>2. stage[p] = "sent" => wire[p].length \in 1..253
      BY <3>1, RequestLength DEF StageFits
    <3>. QED
      BY <3>1, <3>2 DEF StageFits, OldFits
  <2>. QED
    BY <2>1 DEF ExchangeInv, TypeOK
<1>. QED
  BY <1>1, ExchangeInvariance, PTL

-----------------------------------------------------------------------------
(* The calls and the server are a memory                                    *)

\* What ModbusMemory's variable is of this model.
outcome == [p \in Clients |-> Outcome(p)]

\* No answer leaves a call pending.
LEMMA AnswerSettles ==
  ASSUME NEW c, NEW rsp
  PROVE  Returned(c, rsp).is # "pending"
<1>. DEFINE req == Request(c)
            rc  == Confirm(req, rsp)
<1>1. CASE rc = -1
  BY <1>1 DEF Returned, Is
<1>2. CASE rc = -2
  BY <1>2 DEF Returned, Is
<1>3. CASE rc >= 0 /\ req.fc \in ReadBits /\ rc # -1 /\ rc # -2
  BY <1>3 DEF Returned, Is
<1>4. CASE rc >= 0 /\ req.fc \in ReadRegisters \cup {WRITE_AND_READ} /\ req.fc \notin ReadBits
           /\ rc # -1 /\ rc # -2
  BY <1>4 DEF Returned, Is
<1>5. CASE ~(rc >= 0 /\ req.fc \in ReadBits \cup ReadRegisters \cup {WRITE_AND_READ})
           /\ rc # -1 /\ rc # -2
  BY <1>5 DEF Returned, Is
<1>. QED
  BY <1>1, <1>2, <1>3, <1>4, <1>5

\* What a call has come to changes only with its client.
LEMMA OutcomeChanges ==
  ASSUME NEW p \in Clients, NEW new, Outcome(p)' = new,
         \A q \in Clients : q # p => Outcome(q)' = Outcome(q)
  PROVE  outcome' = [outcome EXCEPT ![p] = new]
BY DEF outcome

\* What a call has come to hangs on the client's own stage, call and message.
LEMMA OutcomeKept ==
  ASSUME NEW q \in Clients, stage'[q] = stage[q], call'[q] = call[q], wire'[q] = wire[q]
  PROVE  Outcome(q)' = Outcome(q)
BY DEF Outcome

\* The exchange begins as the memory does.
LEMMA MemoryInit == Init => Memory!MInit
<1>. SUFFICES ASSUME Init
              PROVE  Memory!MInit
  OBVIOUS
<1>1. \A p \in Clients : Outcome(p) = Is("pending")
  BY DEF Init, Outcome
<1>. QED
  BY <1>1 DEF Init, Memory!MInit, Memory!Is, Is

\* A call begins; one with too many values is refused, which the memory allows.
LEMMA CallInvokes ==
  ASSUME ExchangeInv, NEW p \in Clients, Call(p)
  PROVE  Memory!Invoke(p)
<1>1. PICK c \in Calls :
         /\ call' = [call EXCEPT ![p] = c]
         /\ IF TooMany(c)
            THEN stage' = [stage EXCEPT ![p] = "refused"] /\ UNCHANGED wire
            ELSE /\ wire' = [wire EXCEPT ![p] = Request(c)]
                 /\ stage' = [stage EXCEPT ![p] = "sent"]
  BY DEF Call
<1>2. call[p] = None /\ mapping' = mapping /\ old' = old
  BY DEF Call, ExchangeInv, StageFits
<1>3. DOMAIN stage = Clients /\ DOMAIN call = Clients /\ DOMAIN wire = Clients
  BY DEF ExchangeInv
<1>4. ASSUME NEW q \in Clients, q # p
      PROVE  Outcome(q)' = Outcome(q)
  BY <1>1, <1>3, <1>4, OutcomeKept
<1>5. CASE TooMany(c)
  <2>1. Outcome(p)' = Is("error")
    BY <1>1, <1>3, <1>5 DEF Outcome
  <2>2. outcome' = [outcome EXCEPT ![p] = Is("error")]
    BY <1>4, <2>1, OutcomeChanges
  <2>3. ~Memory!Legal(c)
    BY <1>5, TooManyIsIllegal
  <2>. QED
    BY <1>1, <1>2, <2>2, <2>3 DEF Memory!Invoke, Memory!Is, Is, outcome
<1>6. CASE ~TooMany(c)
  <2>1. Outcome(p)' = Is("pending")
    BY <1>1, <1>3, <1>6 DEF Outcome
  <2>2. outcome' = [outcome EXCEPT ![p] = Is("pending")]
    BY <1>4, <2>1, OutcomeChanges
  <2>. QED
    BY <1>1, <1>2, <2>2 DEF Memory!Invoke, Memory!Is, Is, outcome
<1>. QED
  BY <1>5, <1>6

\* A client that stops waits for nothing.
LEMMA FinishSettles ==
  ASSUME ExchangeInv, NEW p \in Clients, Finish(p)
  PROVE  /\ call' = [call EXCEPT ![p] = None]
         /\ outcome' = [outcome EXCEPT ![p] = Is("pending")]
<1>1. DOMAIN stage = Clients /\ DOMAIN call = Clients /\ DOMAIN wire = Clients
  BY DEF ExchangeInv
<1>2. ASSUME NEW q \in Clients, q # p
      PROVE  Outcome(q)' = Outcome(q)
  BY <1>1, <1>2, OutcomeKept DEF Finish
<1>3. Outcome(p)' = Is("pending")
  BY <1>1 DEF Finish, Outcome
<1>. QED
  BY <1>2, <1>3, OutcomeChanges DEF Finish

\* Only a call that has been answered returns, which is when the memory lets it.
LEMMA ReturnReturns ==
  ASSUME ExchangeInv, NEW p \in Clients, Return(p)
  PROVE  Memory!Return(p)
<1>1. Outcome(p).is # "pending"
  BY AnswerSettles DEF Return, Outcome, Is
<1>. QED
  BY <1>1, FinishSettles DEF Return, Memory!Return, Memory!Is, Is, outcome

\* A client gives up a call as the memory allows, and the request may remain.
LEMMA GiveUpGivesUp ==
  ASSUME ExchangeInv, NEW p \in Clients, GiveUp(p)
  PROVE  Memory!GiveUp(p)
<1>1. call[p] # None
  BY InitialAssumption DEF InitialAssumption, GiveUp, ExchangeInv, StageFits
<1>2. stage[p] = "sent" => Outcome(p).is = "pending"
  BY DEF Outcome, Is
<1>. QED
  BY <1>1, <1>2, FinishSettles DEF GiveUp, Memory!GiveUp, Memory!Is, Is, outcome

\* The server's answer is the moment at which the call takes effect.
LEMMA ServeTakes ==
  ASSUME ExchangeInv, NEW p \in Clients, Serve(p)
  PROVE  Memory!Take(p)
<1>1. PICK c \in Calls : c = call[p] /\ wire[p] = Request(c)
  BY DEF Serve, ExchangeInv, StageFits
<1>2. Exact(c)
  BY <1>1, SentIsExact DEF Serve
<1>3. PICK rsp : rsp = Reply(Request(c), mapping).rsp
  OBVIOUS
<1>4. /\ mapping' = Reply(Request(c), mapping).mapping
      /\ wire' = [wire EXCEPT ![p] = rsp]
      /\ stage[p] = "sent" /\ stage' = [stage EXCEPT ![p] = "answered"]
      /\ call' = call /\ old' = old
  BY <1>1, <1>3 DEF Serve
<1>5. DOMAIN stage = Clients /\ DOMAIN call = Clients /\ DOMAIN wire = Clients
  BY DEF ExchangeInv
<1>6. PICK new : new = Memory!Outcome(c)
  OBVIOUS
<1>7. Outcome(p)' = new
  BY <1>1, <1>2, <1>3, <1>4, <1>5, <1>6 DEF Outcome, Exact
<1>8. ASSUME NEW q \in Clients, q # p
      PROVE  Outcome(q)' = Outcome(q)
  BY <1>4, <1>5, <1>8, OutcomeKept
<1>9. outcome' = [outcome EXCEPT ![p] = new]
  BY <1>7, <1>8, OutcomeChanges
<1>10. ByAddress(mapping)' = Memory!Effect(c)
  BY <1>2, <1>4 DEF Exact
<1>11. c # None /\ Outcome(p).is = "pending"
  BY <1>4, InitialAssumption DEF InitialAssumption, Outcome, Is
<1>. QED
  BY <1>1, <1>4, <1>6, <1>9, <1>10, <1>11 DEF Memory!Take, outcome

\* The request of a client that has gone.
LEMMA ServeOldTakes ==
  ASSUME ExchangeInv, NEW p \in Clients, ServeOld(p)
  PROVE  Memory!TakeAdrift(p)
<1>1. PICK c : c = old[p]
  OBVIOUS
<1>2. Exact(c)
  BY <1>1, OldIsExact DEF ServeOld
<1>3. mapping' = Reply(Request(c), mapping).mapping
  BY <1>1 DEF ServeOld
<1>4. ByAddress(mapping)' = Memory!Effect(c)
  BY <1>2, <1>3 DEF Exact
<1>5. \A q \in Clients : Outcome(q)' = Outcome(q)
  BY OutcomeKept DEF ServeOld
<1>6. outcome' = outcome
  BY <1>5 DEF outcome
<1>. QED
  BY <1>1, <1>4, <1>6 DEF ServeOld, Memory!TakeAdrift, outcome

\* What leaves the tables and the clients alone is nothing to the memory.
LEMMA NothingTaken ==
  ASSUME UNCHANGED <<mapping, call, wire, stage, old>>
  PROVE  UNCHANGED Memory!mvars
<1>1. \A q \in Clients : Outcome(q)' = Outcome(q)
  BY OutcomeKept
<1>. QED
  BY <1>1 DEF Memory!mvars, ByAddress

\* Every step of the exchange is one of the memory, or nothing to it.
LEMMA MemoryNext == ExchangeInv /\ [Next]_vars => [Memory!MNext]_(Memory!mvars)
<1>. SUFFICES ASSUME ExchangeInv, [Next]_vars
              PROVE  [Memory!MNext]_(Memory!mvars)
  OBVIOUS
<1>1. ASSUME NEW p \in Clients, Call(p) \/ Return(p) \/ GiveUp(p) \/ Serve(p) \/ ServeOld(p)
      PROVE  Memory!MNext
  BY <1>1, CallInvokes, ReturnReturns, GiveUpGivesUp, ServeTakes, ServeOldTakes DEF Memory!MNext
<1>2. CASE ServeStranger
  <2>1. mapping' = mapping
    BY <1>2, StrangerKeeps DEF ServeStranger
  <2>. QED
    BY <1>2, <2>1, NothingTaken DEF ServeStranger
<1>3. CASE UNCHANGED vars
  BY <1>3, NothingTaken DEF vars
<1>. QED
  BY <1>1, <1>2, <1>3 DEF Next

\* Every call of every client has its effect and its values at one moment, or
\* fails and has none; what is left behind is done once or never; and no
\* malformed request has any effect.
THEOREM MemoryRefinement == Spec => ImplementsMemory
<1>. QED
  BY MemoryInit, MemoryNext, ExchangeInvariance, PTL DEF Spec, ImplementsMemory, Memory!MSpec

=============================================================================
