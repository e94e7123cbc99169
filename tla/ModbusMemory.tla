---------------------------- MODULE ModbusMemory ----------------------------
(***************************************************************************)
(* What a Modbus server is to its clients: four tables that every call     *)
(* reads or writes as a whole, at one moment between its invocation and    *)
(* its return. A call that gives up may still take effect, once, later.    *)
(***************************************************************************)
EXTENDS Integers, Sequences

CONSTANTS
    Clients,
    Calls,        \* the calls clients make
    Tables,       \* the initial contents: functions from addresses
    NbLimit(_),   \* the most values a call may carry
    WriteLimit,   \* the most values write_and_read may write
    None          \* no call

VARIABLES
    mem,          \* coils, inputs, registers, inputRegisters
    call,         \* the call each client has made, or None
    outcome,      \* what the call has come to: "pending", "done", "error"
    adrift        \* the call each client has given up on, or None

mvars == <<mem, call, outcome, adrift>>

-----------------------------------------------------------------------------
(* A call touches a range of addresses of a table, and fails as a whole if *)
(* they are not all there, or are too many or none.                        *)

Range1(addr, nb) == addr..addr + nb - 1

Within(table, addr, nb) == Range1(addr, nb) \subseteq DOMAIN mem[table]

Legal(c) ==
    /\ c.nb \in 1..NbLimit(c)
    /\ Within(c.table, c.addr, c.nb)
    /\ c.fn = "write_and_read" => c.wnb \in 1..WriteLimit /\ Within(c.table, c.waddr, c.wnb)

Put(table, addr, values) ==
    [mem EXCEPT ![table] = [a \in DOMAIN @ |->
        IF a \in Range1(addr, Len(values)) THEN values[a - addr + 1] ELSE @[a]]]

\* The memory after a legal call.
After(c) ==
    CASE c.fn = "read"           -> mem
      [] c.fn = "write"          -> Put(c.table, c.addr, c.values)
      [] c.fn = "mask"           ->
            Put(c.table, c.addr, <<(mem[c.table][c.addr] \cap c.and) \cup (c.or \ c.and)>>)
      [] c.fn = "write_and_read" -> Put(c.table, c.waddr, c.values)

Effect(c) == IF Legal(c) THEN After(c) ELSE mem

Is(what) == [is |-> what, values |-> <<>>]

Outcome(c) ==
    IF ~Legal(c) THEN Is("error")
    ELSE IF c.fn \in {"read", "write_and_read"}
         THEN [is |-> "done", values |-> [k \in 1..c.nb |-> After(c)[c.table][c.addr + k - 1]]]
         ELSE Is("done")

-----------------------------------------------------------------------------
MInit ==
    /\ mem = Tables
    /\ call = [p \in Clients |-> None]
    /\ outcome = [p \in Clients |-> Is("pending")]
    /\ adrift = [p \in Clients |-> None]

\* A call that cannot be answered may be refused at once.
Invoke(p) ==
    /\ call[p] = None
    /\ \E c \in Calls :
          /\ call' = [call EXCEPT ![p] = c]
          /\ outcome' = [outcome EXCEPT ![p] = Is("pending")]
                \/ (~Legal(c) /\ outcome' = [outcome EXCEPT ![p] = Is("error")])
    /\ UNCHANGED <<mem, adrift>>

Take(p) ==
    /\ call[p] # None /\ outcome[p].is = "pending"
    /\ mem' = Effect(call[p])
    /\ outcome' = [outcome EXCEPT ![p] = Outcome(call[p])]
    /\ UNCHANGED <<call, adrift>>

Return(p) ==
    /\ outcome[p].is # "pending"
    /\ call' = [call EXCEPT ![p] = None]
    /\ outcome' = [outcome EXCEPT ![p] = Is("pending")]
    /\ UNCHANGED <<mem, adrift>>

\* Whether it has taken effect, or will, is not known to the client.
GiveUp(p) ==
    /\ call[p] # None
    /\ call' = [call EXCEPT ![p] = None]
    /\ outcome' = [outcome EXCEPT ![p] = Is("pending")]
    /\ \/ adrift[p] = None /\ outcome[p].is = "pending"
          /\ adrift' = [adrift EXCEPT ![p] = call[p]]
       \/ UNCHANGED adrift
    /\ UNCHANGED mem

TakeAdrift(p) ==
    /\ adrift[p] # None
    /\ mem' \in {Effect(adrift[p]), mem}
    /\ adrift' = [adrift EXCEPT ![p] = None]
    /\ UNCHANGED <<call, outcome>>

MNext == \E p \in Clients : Invoke(p) \/ Take(p) \/ Return(p) \/ GiveUp(p) \/ TakeAdrift(p)

MSpec == MInit /\ [][MNext]_mvars
=============================================================================
