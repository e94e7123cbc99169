------------------------------- MODULE CInts -------------------------------
(* The ends of C's int (limits.h) and of its uint16_t (stdint.h).            *)
EXTENDS Integers

INT_MAX == 2147483647
INT_MIN == -2147483647 - 1
UINT16_MAX == 65535
=============================================================================
