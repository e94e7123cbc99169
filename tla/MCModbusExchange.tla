-------------------------- MODULE MCModbusExchange --------------------------
(***************************************************************************)
(* Two clients and a stranger against small tables: nine bits, so that a   *)
(* byte fills and a second one begins, and two registers. The addresses    *)
(* start at 1, so that address 0 is below the tables.                      *)
(***************************************************************************)
EXTENDS ModbusExchange, TLC

CONSTANTS c1, c2

MCClients == {c1, c2}

ClientSymmetry == Permutations(MCClients)

\* A bound: bits and registers, which no request has in common, are not used
\* together in one behaviour.
OneFamily ==
    LET tables == {"coils", "inputs"}
        bits(c)      == c = None \/ c.table \in tables
        registers(c) == c = None \/ c.table \notin tables
    IN  \/ /\ mapping.registers = Initial.registers
           /\ \A p \in Clients : bits(call[p]) /\ bits(old[p])
        \/ /\ mapping.coils = Initial.coils
           /\ \A p \in Clients : registers(call[p]) /\ registers(old[p])

Zeros(n) == [i \in 0..n - 1 |-> FALSE]
Empty(n) == [i \in 0..n - 1 |-> {}]
Pattern  == [i \in 0..NbBits - 1 |-> i % 3 = 2]

MCInitial == [coils |-> Zeros(NbBits), inputs |-> Pattern,
              registers |-> Empty(NbRegisters),
              inputRegisters |-> [i \in 0..NbRegisters - 1 |-> {i}]]

Read(table, addr, nb) == [fn |-> "read", table |-> table, addr |-> addr, nb |-> nb]
Write(table, addr, values) ==
    [fn |-> "write", table |-> table, addr |-> addr, nb |-> Len(values), values |-> values,
     single |-> FALSE]
Single(table, addr, value) ==
    [fn |-> "write", table |-> table, addr |-> addr, nb |-> 1, values |-> <<value>>,
     single |-> TRUE]

Ones(n) == [i \in 1..n |-> TRUE]
Odd(n)  == [i \in 1..n |-> i % 2 = 1]
High == {8, 15}
Low  == {0, 7}

MCCalls ==
    { Read("coils", StartBits, NbBits),             \* all of them, two bytes
      Read("coils", StartBits + NbBits - 1, 2),     \* one too many
      Read("inputs", StartBits + 1, 8),             \* one byte, shifted
      Read("inputs", StartBits, ReadBitsLimit + 1), \* refused by the client
      Write("coils", StartBits, Odd(NbBits)),
      Write("coils", StartBits + 1, Ones(8)),
      Write("coils", StartBits + NbBits - 1, Ones(2)),
      Single("coils", StartBits + NbBits - 1, FALSE),
      Single("coils", StartBits + NbBits, TRUE),
      Read("registers", StartRegisters, NbRegisters),
      Read("inputRegisters", StartRegisters - 1, 1),
      Read("inputRegisters", StartRegisters, 0),
      Write("registers", StartRegisters, <<High, Low>>),
      Write("registers", StartRegisters + 1, <<Low, Low>>),
      Single("registers", StartRegisters + 1, Low),
      [fn |-> "mask", table |-> "registers", addr |-> StartRegisters, nb |-> 1,
       and |-> {0, 8}, or |-> {7, 8}],
      [fn |-> "write_and_read", table |-> "registers", addr |-> StartRegisters, nb |-> 2,
       waddr |-> StartRegisters + 1, wnb |-> 1, values |-> <<High>>],
      [fn |-> "write_and_read", table |-> "registers", addr |-> StartRegisters, nb |-> 1,
       waddr |-> StartRegisters + 2, wnb |-> 1, values |-> <<High>>],
      [fn |-> "write_and_read", table |-> "registers", addr |-> StartRegisters, nb |-> 1,
       waddr |-> StartRegisters, wnb |-> WrWriteLimit + 1, values |-> <<Low, High>>] }

\* What libmodbus does not send: no values, more values than bytes, too many
\* bytes, more values than a message may have, a coil neither on nor off, an
\* unknown function.
MCMalformed ==
    { [fc |-> WRITE_COILS, addr |-> StartBits, nb |-> 0, count |-> 0, data |-> <<>>, length |-> 6],
      [fc |-> WRITE_COILS, addr |-> StartBits, nb |-> 9, count |-> 1, data |-> <<0..7>>,
       length |-> 7],
      [fc |-> WRITE_REGISTERS, addr |-> StartRegisters, nb |-> 1, count |-> 4,
       data |-> <<High, High>>, length |-> 10],
      [fc |-> WRITE_COIL, addr |-> StartBits, value |-> {0}, length |-> 5],
      [fc |-> WRITE_AND_READ, addr |-> StartRegisters, nb |-> 0, waddr |-> StartRegisters,
       wnb |-> 1, count |-> 2, data |-> <<High>>, length |-> 12],
      [fc |-> WRITE_AND_READ, addr |-> StartRegisters, nb |-> 1, waddr |-> StartRegisters,
       wnb |-> WrWriteLimit + 1, count |-> 2 * (WrWriteLimit + 1), data |-> <<Low, High>>,
       length |-> 14],
      [fc |-> REPORT_SLAVE_ID, length |-> 1],
      [fc |-> 200, length |-> 1] }
=============================================================================
