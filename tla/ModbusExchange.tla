--------------------------- MODULE ModbusExchange ---------------------------
(***************************************************************************)
(* libmodbus's calls (modbus_read_bits ... modbus_write_and_read_registers *)
(* in src/libmodbus/src/modbus.c), made by modbusc runs that each have a   *)
(* connection of their own, against the modbus_reply of one server. A      *)
(* client may stop waiting and come back; the server still has its         *)
(* request. Another client sends requests no libmodbus client would.       *)
(***************************************************************************)
EXTENDS ModbusReply

CONSTANTS
    Clients,
    Calls,      \* the calls they make: see Request
    Malformed,  \* requests of the other client
    Initial,    \* the mapping the server starts with
    None

VARIABLES
    mapping,
    call,       \* of each client: what it calls, or None
    wire,       \* of each client: its request or its response, or None
    stage,      \* "idle", "refused", "sent", "answered"
    old         \* the call whose request it has left behind, or None

vars == <<mapping, call, wire, stage, old>>

(* The arguments of the functions of modbus.h: an array holds as many       *)
(* values as nb says, and modbus_write_bit and _register write one.         *)
ASSUME CallAssumption == \A c \in Calls :
    /\ c.addr \in Nat /\ c.nb \in Nat
    /\ \/ c.fn = "read" /\ c.table \in {"coils", "inputs", "registers", "inputRegisters"}
       \/ /\ c.fn = "write" /\ c.single \in BOOLEAN /\ (c.single => c.nb = 1)
          /\ \/ c.table = "coils" /\ c.values \in Seq(BOOLEAN)
             \/ c.table = "registers" /\ c.values \in Seq(Word)
          /\ c.nb = Len(c.values)
       \/ c.fn = "mask" /\ c.table = "registers" /\ c.nb = 1 /\ c.and \in Word /\ c.or \in Word
       \/ /\ c.fn = "write_and_read" /\ c.table = "registers"
          /\ c.waddr \in Nat /\ c.values \in Seq(Word) /\ c.wnb = Len(c.values)

(* The stranger writes nothing that the protocol gives a meaning: its       *)
(* writes have a value that is none, or numbers that are out of range or    *)
(* contradict each other.                                                   *)
ASSUME MalformedAssumption == \A req \in Malformed :
    \/ req.fc \notin {WRITE_COIL, WRITE_REGISTER, WRITE_COILS, WRITE_REGISTERS, MASK_WRITE,
                      WRITE_AND_READ}
    \/ req.fc = WRITE_COIL /\ req.value \notin {ON, {}}
    \/ /\ req.fc = WRITE_COILS /\ req.nb \in Nat
       /\ req.nb \notin 1..WriteBitsLimit \/ req.count * 8 < req.nb
    \/ /\ req.fc = WRITE_REGISTERS /\ req.nb \in Nat
       /\ req.nb \notin 1..WriteRegistersLimit \/ req.count # 2 * req.nb
    \/ /\ req.fc = WRITE_AND_READ /\ req.nb \in Nat /\ req.wnb \in Nat
       /\ req.nb \in 1..WrReadLimit /\ req.wnb \in 1..WrWriteLimit => req.count # 2 * req.wnb

ASSUME InitialAssumption == Initial \in Mappings /\ None \notin Calls

-----------------------------------------------------------------------------
(* The builders of requests.                                               *)

\* The limit each call checks before it sends anything.
NbLimit(c) ==
    CASE c.fn = "read" /\ c.table \in {"coils", "inputs"}    -> ReadBitsLimit
      [] c.fn = "read" /\ c.table \notin {"coils", "inputs"} -> ReadRegistersLimit
      [] c.fn = "write" /\ c.table = "coils"                 -> WriteBitsLimit
      [] c.fn = "write" /\ c.table # "coils"                 -> WriteRegistersLimit
      [] c.fn = "write_and_read"                             -> WrReadLimit
      [] OTHER                                               -> 1

TooMany(c) == c.nb > NbLimit(c) \/ (c.fn = "write_and_read" /\ c.wnb > WrWriteLimit)

\* modbus_write_bits: the values, in bytes.
BitsToBytes(values) ==
    [k \in 1..BitBytes(Len(values)) |->
        {j \in 0..7 : 8 * (k - 1) + j < Len(values) /\ values[8 * (k - 1) + j + 1]}]

\* write_single takes the value where the others take a number of values.
WriteSingle(fc, addr, value) == [fc |-> fc, addr |-> addr, value |-> value, length |-> 5]

ReadCode == [coils |-> READ_COILS, inputs |-> READ_DISCRETE_INPUTS,
             registers |-> READ_HOLDING, inputRegisters |-> READ_INPUT]

Request(c) ==
    CASE c.fn = "read" ->
            [fc |-> ReadCode[c.table], addr |-> c.addr, nb |-> c.nb, length |-> 5]
      [] c.fn = "write" /\ c.single /\ c.table = "coils" ->
            WriteSingle(WRITE_COIL, c.addr, IF c.values[1] THEN ON ELSE {})
      [] c.fn = "write" /\ c.single /\ c.table = "registers" ->
            WriteSingle(WRITE_REGISTER, c.addr, c.values[1])
      [] c.fn = "write" /\ ~c.single /\ c.table = "coils" ->
            [fc |-> WRITE_COILS, addr |-> c.addr, nb |-> c.nb, count |-> BitBytes(c.nb),
             data |-> BitsToBytes(c.values), length |-> RequestPdu(WRITE_COILS, c.nb)]
      [] c.fn = "write" /\ ~c.single /\ c.table = "registers" ->
            [fc |-> WRITE_REGISTERS, addr |-> c.addr, nb |-> c.nb, count |-> 2 * c.nb,
             data |-> c.values, length |-> RequestPdu(WRITE_REGISTERS, c.nb)]
      [] c.fn = "mask" ->
            [fc |-> MASK_WRITE, addr |-> c.addr, and |-> c.and, or |-> c.or, length |-> 7]
      [] c.fn = "write_and_read" ->
            [fc |-> WRITE_AND_READ, addr |-> c.addr, nb |-> c.nb, waddr |-> c.waddr,
             wnb |-> c.wnb, count |-> 2 * c.wnb, data |-> c.values,
             length |-> RequestPdu(WRITE_AND_READ, c.wnb)]

-----------------------------------------------------------------------------
(* check_confirmation: -1 for an exception, -2 for any other disagreement, *)
(* or the number of values (bytes, for bits).                              *)

\* The length compute_response_length_from_request expects.
Expected(req) ==
    ResponseLength(req.fc, IF req.fc \in ReadBits \cup ReadRegisters \cup {WRITE_AND_READ}
                           THEN req.nb ELSE 0)

\* Mutant: one value to a byte.
ConfirmReadUnpacked(req, rsp) == IF rsp.count = req.nb THEN rsp.count ELSE -2
ConfirmReadBits(req, rsp) == IF rsp.count = BitBytes(req.nb) THEN rsp.count ELSE -2

ConfirmReadRegisters(req, rsp) == IF rsp.count \div 2 = req.nb THEN rsp.count \div 2 ELSE -2

ConfirmWriteMultiple(req, rsp) ==
    IF req.addr = rsp.addr /\ req.nb = rsp.nb THEN rsp.nb ELSE -2

ConfirmWriteSingle(req, rsp) ==
    IF req.addr = rsp.addr /\ req.value = rsp.value THEN 1 ELSE -2

Confirm(req, rsp) ==
    CASE rsp.fc >= 128 -> IF rsp.length = 2 /\ req.fc = rsp.fc - 128 THEN -1 ELSE -2
      [] rsp.fc < 128 /\ (rsp.length # Expected(req) \/ rsp.fc # req.fc) -> -2
      [] OTHER ->
            CASE req.fc \in ReadBits -> ConfirmReadBits(req, rsp)
              [] req.fc \in ReadRegisters \cup {WRITE_AND_READ} -> ConfirmReadRegisters(req, rsp)
              [] req.fc \in {WRITE_COILS, WRITE_REGISTERS} -> ConfirmWriteMultiple(req, rsp)
              [] req.fc \in {WRITE_COIL, WRITE_REGISTER} -> ConfirmWriteSingle(req, rsp)
              [] OTHER -> 1

\* read_io_status: one boolean for each bit, of the bytes that were counted.
Unpack(rsp, bytes, nb) == [k \in 1..nb |-> (k - 1) % 8 \in rsp.data[(k - 1) \div 8 + 1]]

\* What a call comes to: "done" with the values it read, if any, or an error.
Is(what) == [is |-> what, values |-> <<>>]

Returned(c, rsp) ==
    LET req == Request(c)
        rc  == Confirm(req, rsp)
    IN  CASE rc = -1 -> Is("error")
          [] rc = -2 -> Is("bad data")
          [] rc >= 0 /\ req.fc \in ReadBits -> [is |-> "done", values |-> Unpack(rsp, rc, c.nb)]
          [] rc >= 0 /\ req.fc \in ReadRegisters \cup {WRITE_AND_READ} ->
                [is |-> "done", values |-> SubSeq(rsp.data, 1, rc)]
          [] OTHER -> Is(IF rc = c.nb THEN "done" ELSE "bad data")

\* What the call of a client has come to so far.
Outcome(p) ==
    CASE stage[p] = "answered" -> Returned(call[p], wire[p])
      [] stage[p] = "refused"  -> Is("error")
      [] OTHER                 -> Is("pending")

-----------------------------------------------------------------------------
(* The clients.                                                            *)

Init ==
    /\ mapping = Initial
    /\ call = [p \in Clients |-> None] /\ wire = [p \in Clients |-> None]
    /\ stage = [p \in Clients |-> "idle"]
    /\ old = [p \in Clients |-> None]

\* Nothing is sent if there are too many values (EMBMDATA).
Call(p) ==
    /\ stage[p] = "idle"
    /\ \E c \in Calls :
          /\ call' = [call EXCEPT ![p] = c]
          /\ IF TooMany(c)
             THEN stage' = [stage EXCEPT ![p] = "refused"] /\ UNCHANGED wire
             ELSE /\ wire' = [wire EXCEPT ![p] = Request(c)]
                  /\ stage' = [stage EXCEPT ![p] = "sent"]
    /\ UNCHANGED <<mapping, old>>

Finish(p) ==
    /\ call' = [call EXCEPT ![p] = None]
    /\ wire' = [wire EXCEPT ![p] = None]
    /\ stage' = [stage EXCEPT ![p] = "idle"]

\* What it returns is Outcome(p).
Return(p) ==
    /\ stage[p] \in {"refused", "answered"}
    /\ Finish(p)
    /\ UNCHANGED <<mapping, old>>

\* The response timeout, or a lost connection: the request may have been lost
\* with it, or be with the server still (a bound: one such request at a time).
GiveUp(p) ==
    /\ stage[p] \in {"sent", "answered"}
    /\ Finish(p)
    /\ \/ /\ stage[p] = "sent" /\ \A q \in Clients : old[q] = None
          /\ old' = [old EXCEPT ![p] = call[p]]
       \/ UNCHANGED old
    /\ UNCHANGED mapping

-----------------------------------------------------------------------------
(* The server takes one request at a time, from any connection.            *)

Serve(p) ==
    /\ stage[p] = "sent"
    /\ LET r == Reply(wire[p], mapping)
       IN  mapping' = r.mapping /\ wire' = [wire EXCEPT ![p] = r.rsp]
    /\ stage' = [stage EXCEPT ![p] = "answered"]
    /\ UNCHANGED <<call, old>>

ServeOld(p) ==
    /\ old[p] # None
    /\ mapping' = Reply(Request(old[p]), mapping).mapping
    /\ old' = [old EXCEPT ![p] = None]
    /\ UNCHANGED <<call, wire, stage>>

ServeStranger ==
    /\ \E req \in Malformed : mapping' = Reply(req, mapping).mapping
    /\ UNCHANGED <<call, wire, stage, old>>

-----------------------------------------------------------------------------
Next ==
    \/ \E p \in Clients : \/ Call(p) \/ Return(p) \/ GiveUp(p) \/ Serve(p) \/ ServeOld(p)
    \/ ServeStranger

Spec == Init /\ [][Next]_vars

-----------------------------------------------------------------------------
(* Properties.                                                             *)

\* Types; the mapping keeps its size, and no response is longer than a PDU.
TypeOK ==
    /\ mapping \in Mappings
    /\ \A p \in Clients :
          /\ stage[p] \in {"idle", "refused", "sent", "answered"}
          /\ IF stage[p] = "idle" THEN call[p] = None ELSE call[p] \in Calls
          /\ IF stage[p] \in {"sent", "answered"} THEN wire[p].length \in 1..253
                                                ELSE wire[p] = None
          /\ old[p] \in Calls \cup {None}

\* The tables by address.
ByAddress(m) ==
    LET shifted(tab, start) == [a \in {start + i : i \in DOMAIN tab} |-> tab[a - start]]
    IN  [coils          |-> shifted(m.coils, StartBits),
         inputs         |-> shifted(m.inputs, StartBits),
         registers      |-> shifted(m.registers, StartRegisters),
         inputRegisters |-> shifted(m.inputRegisters, StartRegisters)]

Memory == INSTANCE ModbusMemory WITH
    mem     <- ByAddress(mapping),
    Tables  <- ByAddress(Initial),
    outcome <- [p \in Clients |-> Outcome(p)],
    adrift  <- old,
    WriteLimit <- WrWriteLimit

(* The calls and the server together are a memory: every call that returns *)
(* has read or written all its values at one moment while it lasted, one   *)
(* that fails with an exception has changed nothing, one that gives up has *)
(* its effect once or never, and no malformed request has any.             *)
ImplementsMemory == Memory!MSpec
=============================================================================
