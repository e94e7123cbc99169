------------------------------ MODULE ArgTable ------------------------------
(***************************************************************************)
(* The entries of an argtable3 argument table (src/argtable3/argtable3.c)  *)
(* and what each kind of entry makes of a value: arg_lit, arg_int, arg_str *)
(* and arg_rex. An entry is a record; what has been scanned for it is kept *)
(* apart (ArgParse), as a sequence whose length is the entry's count.      *)
(*                                                                         *)
(* Memory never runs out; a long that is no int is only known not to fit.  *)
(***************************************************************************)
EXTENDS TRex, CInts, SequencesExt

Entry(kind, shorts, longs, min, max) ==
    [kind |-> kind, shorts |-> shorts, longs |-> longs, min |-> min, max |-> max,
     pattern |-> "", icase |-> FALSE]

\* The constructors. shorts is a string of letters, longs a sequence of names.
arg_litn(shorts, longs, min, max) == Entry("lit", shorts, longs, min, max)
arg_lit0(shorts, longs) == arg_litn(shorts, longs, 0, 1)
arg_intn(shorts, longs, min, max) == Entry("int", shorts, longs, min, max)
arg_int0(shorts, longs) == arg_intn(shorts, longs, 0, 1)
arg_int1(shorts, longs) == arg_intn(shorts, longs, 1, 1)
arg_str0(shorts, longs) == Entry("str", shorts, longs, 0, 1)
arg_str1(shorts, longs) == Entry("str", shorts, longs, 1, 1)
arg_rexn(shorts, longs, pattern, min, max, icase) ==
    [Entry("rex", shorts, longs, min, max) EXCEPT !.pattern = pattern, !.icase = icase]
arg_rex0(shorts, longs, pattern, icase) == arg_rexn(shorts, longs, pattern, 0, 1, icase)
arg_rex1(shorts, longs, pattern, icase) == arg_rexn(shorts, longs, pattern, 1, 1, icase)

HasValue(entry) == entry.kind # "lit"

\* An entry with neither short nor long options takes the words that are left over.
IsTagged(entry) == entry.shorts # "" \/ entry.longs # <<>>

-----------------------------------------------------------------------------
(* Numbers. A conversion gives the sign, the digits added up below zero    *)
(* (where an int reaches furthest), whether that fits an int, and the      *)
(* position after the last character used, 0 when there is no number       *)
(* (endptr == str).                                                        *)

NoNumber == [sign |-> 1, below |-> 0, fits |-> TRUE, end |-> 0]

HexValue == [c \in CharsOf("0123456789abcdefABCDEF") |->
                IF isdigit(c) THEN DigitValue[c]
                ELSE 9 + (CHOOSE i \in 1..6 : SameLetter(c, At("abcdef", i)))]
IsDigitOf(c, base) == c \in DOMAIN HexValue /\ HexValue[c] < base

RECURSIVE SkipSpaces(_, _)
SkipSpaces(t, i) == IF At(t, i) = " " THEN SkipSpaces(t, i + 1) ELSE i

SignAt(t, i) == IF At(t, i) = "-" THEN -1 ELSE 1
AfterSign(t, i) == IF At(t, i) \in {"-", "+"} THEN i + 1 ELSE i

\* The number made of the digits from i on, after those already in n.
RECURSIVE Digits(_, _, _, _)
Digits(t, i, base, n) ==
    IF ~IsDigitOf(At(t, i), base) THEN [n EXCEPT !.end = i]
    ELSE LET d == HexValue[At(t, i)]
             room == n.fits /\ n.below >= (INT_MIN + d + base - 1) \div base
         IN  Digits(t, i + 1, base,
                    [n EXCEPT !.fits = room, !.below = IF room THEN base * @ - d ELSE @])

\* strtol of the text from a position on.
AfterPrefix(t, i, base) ==
    IF base = 16 /\ At(t, i) = "0" /\ toupper(At(t, i + 1)) = "X" /\ IsDigitOf(At(t, i + 2), 16)
    THEN i + 2 ELSE i
NumberFrom(start, n) == IF n.end = start THEN NoNumber ELSE n
Unsigned(t, start, base, sign) ==
    NumberFrom(start, Digits(t, start, base, [NoNumber EXCEPT !.sign = sign]))
Signed(t, i, base) == Unsigned(t, AfterPrefix(t, AfterSign(t, i), base), base, SignAt(t, i))
strtol(t, from, base) == Signed(t, SkipSpaces(t, from), base)

\* A number with a sign, a zero and the letter X before what strtol reads.
Times(sign, n) == [n EXCEPT !.sign = sign * @]
AfterX(t, sign, zero, X, base) ==
    IF At(t, zero) = "0" /\ toupper(At(t, zero + 1)) = X
    THEN Times(SignAt(t, sign), strtol(t, zero + 2, base)) ELSE NoNumber
AfterSignX(t, sign, X, base) == AfterX(t, sign, AfterSign(t, sign), X, base)
strtol0X(t, X, base) == AfterSignX(t, SkipSpaces(t, 1), X, base)

\* The rest of the text is the suffix, in any case, and spaces.
detectsuffix(t, i, suffix) ==
    /\ \A k \in 1..Len(suffix) : toupper(At(t, i + k - 1)) = At(suffix, k)
    /\ SkipSpaces(t, i + Len(suffix)) = Len(t) + 1

Multiplier(t, i) ==
    CASE detectsuffix(t, i, "KB") -> 1024
      [] detectsuffix(t, i, "MB") -> 1048576
      [] detectsuffix(t, i, "GB") -> 1073741824
      [] detectsuffix(t, i, "")   -> 1
      [] OTHER                    -> 0

\* The number times m is an int, and which. (INT_MIN / m is exact.)
InRange(n, m) == n.fits /\ n.below >= (IF n.sign = -1 THEN INT_MIN \div m ELSE -(INT_MAX \div m))
ValueOf(n, m) == IF n.sign = -1 THEN m * n.below ELSE -(m * n.below)

Refused == [ok |-> FALSE, value |-> ""]
Taken(v) == [ok |-> TRUE, value |-> v]

\* The first of the readings that is a number, else the last.
OrElse(n, other) == IF n.end # 0 THEN n ELSE other
NumberRead(t) ==
    OrElse(strtol0X(t, "X", 16),
           OrElse(strtol0X(t, "O", 8), OrElse(strtol0X(t, "B", 2), strtol(t, 1, 10))))

Integer(n, m) == IF n.end = 0 \/ m = 0 \/ ~InRange(n, m) THEN Refused ELSE Taken(ValueOf(n, m))
Multiplied(t, n) == Integer(n, Multiplier(t, n.end))
arg_int_scan(t) == Multiplied(t, NumberRead(t))

arg_rex_scan(entry, t) ==
    IF trex_match(trex_compile(entry.pattern), entry.icase, t) THEN Taken(t) ELSE Refused

\* Mutant: an entry takes one value more than it has room for.
ScanfnOneMore(entry, count, t) ==
    IF count > entry.max THEN Refused
    ELSE CASE entry.kind = "int" -> arg_int_scan(t)
           [] entry.kind = "rex" -> arg_rex_scan(entry, t)
           [] OTHER              -> Taken(t)
\* A value for an entry that has `count` already: its scanfn.
scanfn(entry, count, t) ==
    IF count >= entry.max THEN Refused
    ELSE CASE entry.kind = "int" -> arg_int_scan(t)
           [] entry.kind = "rex" -> arg_rex_scan(entry, t)
           [] OTHER              -> Taken(t)

checkfn(entry, count) == count >= entry.min
=============================================================================
