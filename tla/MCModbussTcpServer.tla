------------------------- MODULE MCModbussTcpServer -------------------------
(* Instances of ModbussTcpServer for TLC.                                   *)
EXTENDS ModbussTcpServer, TLC

CONSTANTS g1, f1, f2

\* Only whole requests and hang-ups, or everything a stream can carry.
AllTraffic == Token
WholeOrHalf == {"plain", "head", "tail"}
HalfOnly == {"head"}

Faulty == Client \ Good
FaultySymmetry == Permutations(Faulty)
=============================================================================
