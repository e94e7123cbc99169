-------------------------- MODULE ModbuscArguments --------------------------
(***************************************************************************)
(* How modbusc reads --addr, the slave address range (src/mbu-common.c),   *)
(* in the step that checks the values of its options (ModbuscChecks, of    *)
(* src/modbusc.c). What the command line is parsed to is CommandLine's.    *)
(***************************************************************************)
EXTENDS ModbuscChecks, ArgTable

VARIABLE text  \* the value of --addr

argumentVars == <<text, checkVars>>

-----------------------------------------------------------------------------
(* mbu-common.c                                                            *)

Prefixed(s, at) == At(s, at) = "0" /\ toupper(At(s, at + 1)) = "X"

\* Mutant: the base is the one strtol finds with base 0, 8 after a zero.
ParseNumberOctal(s) ==
    strtol(s, 1, IF Prefixed(s, AfterSign(s, 1)) THEN 16 ELSE IF At(s, 1) = "0" THEN 8 ELSE 10)
parse_number(s) == strtol(s, 1, IF Prefixed(s, AfterSign(s, 1)) THEN 16 ELSE 10)

\* Mutant: any byte is taken for a slave address.
InSlavesAnyByte(n) == n.end # 0 /\ InRange(n, 1) /\ ValueOf(n, 1) \in 0..255
\* errno is ERANGE only for numbers that are far too large as well.
InSlaves(n) == n.end # 0 /\ InRange(n, 1) /\ ValueOf(n, 1) \in 0..MaxSlave

mbu_parse_address_range(s) ==
    LET first == parse_number(s)
        rest  == From(s, first.end)
        last  == parse_number(From(rest, 2))
        start == ValueOf(first, 1)
        end   == ValueOf(last, 1)
    IN  IF ~InSlaves(first) THEN Rejected
        ELSE IF rest = "" THEN <<start, start>>
        ELSE IF \/ At(rest, 1) # "." \/ ~InSlaves(last) \/ last.end # Len(rest)
                \/ start >= end
             THEN Rejected ELSE <<start, end>>

-----------------------------------------------------------------------------
\* main in modbusc.c: the range is read, and then everything is checked.
Check == CheckRange(mbu_parse_address_range(text)) /\ UNCHANGED text

-----------------------------------------------------------------------------
(* Properties.                                                             *)

\* The regular expression modbusc gives argtable for --addr.
NumberLike(s) == Len(s) \in 1..3 /\ \A c \in CharsOf(s) : isdigit(c)
RangeLike(s) ==
    \E i \in Places(s, ".") : NumberLike(SubSeq(s, 1, i - 1)) /\ NumberLike(From(s, i + 1))

\* What such a number says, place by place.
NumberWritten(s) ==
    LET digit(i) == LET at == i - 3 + Len(s) IN IF at > 0 THEN DigitValue[At(s, at)] ELSE 0
    IN  100 * digit(1) + 10 * digit(2) + digit(3)

(* An address the user may write is read as decimal, whatever zeros it     *)
(* begins with, and a range is taken if and only if it increases and fits  *)
(* (README.md:79, tests/test-common.c:21-30); no other text gives a range  *)
(* outside the slave addresses.                                            *)
RangeAsWritten ==
    verdict # "unread" =>
        /\ range = Rejected \/ (0 <= range[1] /\ range[1] <= range[2] /\ range[2] <= MaxSlave)
        /\ NumberLike(text) =>
              LET n == NumberWritten(text)
              IN  range = IF n <= MaxSlave THEN <<n, n>> ELSE Rejected
        /\ RangeLike(text) =>
              LET dot   == CHOOSE i \in Places(text, ".") : TRUE
                  first == NumberWritten(SubSeq(text, 1, dot - 1))
                  last  == NumberWritten(From(text, dot + 1))
              IN  range = IF first < last /\ last <= MaxSlave THEN <<first, last>> ELSE Rejected

(* However the line is parsed, the checks see options that are numbers and *)
(* a range that is one, and are made once.                                 *)
ImplementsChecks == ChecksSpec
=============================================================================
