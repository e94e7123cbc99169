-------------------------------- MODULE TRex --------------------------------
(***************************************************************************)
(* The regular expressions of argtable3 (trex in src/argtable3/            *)
(* argtable3.c): what a pattern is compiled to and what the result         *)
(* matches.                                                                *)
(*                                                                         *)
(* A node of the C code is a record; the nodes that follow one another     *)
(* through `next` are a sequence, so a pointer to a node is a sequence     *)
(* that begins with it and NULL is the empty one. A position in a text is  *)
(* the number of its next character, 0 where the code has NULL. Patterns   *)
(* are taken to be well formed, and the constructs no pattern of the two   *)
(* programs has (., [^..], \w and its like, \b, (?:..)) and the captured   *)
(* subexpressions, which arg_rex never asks for, are left out.             *)
(***************************************************************************)
EXTENDS Integers, Sequences

\* The character at a position; the terminating zero is "".
At(s, i) == IF i \in 1..Len(s) THEN SubSeq(s, i, i) ELSE ""
From(s, i) == SubSeq(s, i, Len(s))
Places(s, c) == {i \in 1..Len(s) : At(s, i) = c}

Uppers == "ABCDEFGHIJKLMNOPQRSTUVWXYZ"
Lowers == "abcdefghijklmnopqrstuvwxyz"
CharsOf(s) == {At(s, i) : i \in 1..Len(s)}
ToUpper == [c \in CharsOf(Lowers) |-> At(Uppers, CHOOSE i \in 1..26 : At(Lowers, i) = c)]
toupper(c) == IF c \in DOMAIN ToUpper THEN ToUpper[c] ELSE c
SameLetter(c, d) == toupper(c) = toupper(d)

DigitValue == [c \in CharsOf("0123456789") |-> (CHOOSE i \in 1..10 : At("0123456789", i) = c) - 1]
isdigit(c) == c \in DOMAIN DigitValue

Unbounded == 65535

-----------------------------------------------------------------------------
(* Compiling. Each operator takes the pattern and the position of _p and   *)
(* returns the nodes and the position after what it has read.              *)

Read(nodes, at) == [nodes |-> nodes, at |-> at]

trex_charnode(p, i) ==
    IF At(p, i) = "\\"
    THEN Read(<<[op |-> "CHAR", char |-> At(p, i + 1)]>>, i + 2)
    ELSE Read(<<[op |-> "CHAR", char |-> At(p, i)]>>, i + 1)

\* The characters between brackets. The programs' only class is a range of digits.
RECURSIVE Class(_, _)
Class(p, i) ==
    IF At(p, i) \in {"]", ""} THEN {}
    ELSE IF At(p, i + 1) = "-" /\ isdigit(At(p, i)) /\ isdigit(At(p, i + 2))
         THEN {c \in DOMAIN DigitValue :
                  DigitValue[c] \in DigitValue[At(p, i)]..DigitValue[At(p, i + 2)]}
              \cup Class(p, i + 3)
         ELSE {At(p, i)} \cup Class(p, i + 1)

trex_class(p, i) ==
    LET close == CHOOSE k \in i + 1..Len(p) :
                    At(p, k) = "]" /\ \A j \in i + 1..k - 1 : At(p, j) # "]"
    IN  Read(<<[op |-> "CLASS", chars |-> Class(p, i)]>>, close + 1)

RECURSIVE trex_parsenumber(_, _, _)
trex_parsenumber(p, i, n) ==
    IF isdigit(At(p, i)) THEN trex_parsenumber(p, i + 1, 10 * n + DigitValue[At(p, i)])
    ELSE [value |-> n, at |-> i]

\* How often what stands before may be repeated, and where that has been said.
Often(min, max, at) == [min |-> min, max |-> max, at |-> at]
UpTo(least, most) ==
    Often(least.value, IF most.at = least.at + 1 THEN Unbounded ELSE most.value, most.at + 1)
Braces(p, least) ==
    IF At(p, least.at) = "," THEN UpTo(least, trex_parsenumber(p, least.at + 1, 0))
    ELSE Often(least.value, least.value, least.at + 1)
Repetition(p, i) ==
    CASE At(p, i) = "*" -> Often(0, Unbounded, i + 1)
      [] At(p, i) = "+" -> Often(1, Unbounded, i + 1)
      [] At(p, i) = "?" -> Often(0, 1, i + 1)
      [] At(p, i) = "{" -> Braces(p, trex_parsenumber(p, i + 1, 0))
      [] OTHER          -> Often(1, 1, i)

RECURSIVE trex_list(_, _)

Joined(first, rest) == Read(first.nodes \o rest.nodes, rest.at)

\* One atom, before what says how often it is repeated.
Group(inside) == Read(<<[op |-> "EXPR", of |-> inside.nodes]>>, inside.at + 1)
Atom(p, i) ==
    CASE At(p, i) = "(" -> Group(trex_list(p, i + 1))
      [] At(p, i) = "[" -> trex_class(p, i + 1)
      [] At(p, i) = "$" -> Read(<<[op |-> "EOL"]>>, i + 1)
      [] OTHER          -> trex_charnode(p, i)

Repeated(atom, often) ==
    IF often.at = atom.at THEN atom
    ELSE Read(<<[op |-> "GREEDY", of |-> atom.nodes, min |-> often.min, max |-> often.max]>>,
              often.at)
RepeatedAtom(p, atom) == Repeated(atom, Repetition(p, atom.at))

RECURSIVE trex_element(_, _)
AndNext(p, here) == IF At(p, here.at) \in {"|", ")", "*", "+", ""} THEN here
                    ELSE Joined(here, trex_element(p, here.at))
trex_element(p, i) == AndNext(p, RepeatedAtom(p, Atom(p, i)))

Either(left, right) == Read(<<[op |-> "OR", left |-> left.nodes, right |-> right.nodes]>>, right.at)
OrNext(p, left) == IF At(p, left.at) = "|" THEN Either(left, trex_list(p, left.at + 1)) ELSE left
trex_list(p, i) ==
    OrNext(p, IF At(p, i) = "^" THEN Joined(Read(<<[op |-> "BOL"]>>, i + 1), trex_element(p, i + 1))
              ELSE trex_element(p, i))

trex_compile(p) == <<[op |-> "EXPR", of |-> trex_list(p, 1).nodes]>>

-----------------------------------------------------------------------------
(* Matching. `n` is the node (and what follows it), `s` the position in    *)
(* the text t, `next` the node that comes after the enclosing expression.  *)

RECURSIVE trex_matchnode(_, _, _, _, _)

\* The nodes of an alternative, none of which is told what follows.
RECURSIVE Alternative(_, _, _, _)
Alternative(t, icase, n, s) ==
    IF n = <<>> \/ s = 0 THEN s
    ELSE Alternative(t, icase, Tail(n), trex_matchnode(t, icase, n, s, <<>>))

RECURSIVE Subexpression(_, _, _, _, _)
Subexpression(t, icase, n, s, next) ==
    IF n = <<>> \/ s = 0 THEN s
    ELSE Subexpression(t, icase, Tail(n),
             trex_matchnode(t, icase, n, s, IF Tail(n) # <<>> THEN Tail(n) ELSE next), next)

\* Whether what follows a repetition matches already; an optional one is not asked.
StopsHere(t, icase, stop, s, next) ==
    /\ stop # <<>>
    /\ Head(stop).op = "GREEDY" => Head(stop).min # 0
    /\ LET after == IF Tail(stop) # <<>> THEN Tail(stop)
                    ELSE IF next # <<>> THEN Tail(next) ELSE <<>>
       IN  trex_matchnode(t, icase, stop, s, after) # 0

\* `found` repetitions end at `good`; another begins there.
RECURSIVE Repeat(_, _, _, _, _, _)
Repeat(t, icase, n, good, next, found) ==
    LET node == Head(n)
        stop == IF Tail(n) # <<>> THEN Tail(n) ELSE next
        s    == trex_matchnode(t, icase, node.of, good, stop)
        result(at, k) == IF k \in node.min..node.max THEN at ELSE 0
    IN  IF found >= node.max \/ s = 0 THEN result(good, found)
        ELSE IF \/ s > Len(t)
                \/ found + 1 >= node.min /\ StopsHere(t, icase, stop, s, next)
             THEN result(s, found + 1)
             ELSE Repeat(t, icase, n, s, next, found + 1)

Step(t, s, matches) == IF matches THEN s + 1 ELSE 0

trex_matchnode(t, icase, n, s, next) ==
    LET node == Head(n)
        c    == At(t, s)
    IN  CASE node.op = "GREEDY" -> Repeat(t, icase, n, s, next, 0)
          [] node.op = "OR" ->
                LET left == Alternative(t, icase, node.left, s)
                IN  IF left # 0 THEN left ELSE Alternative(t, icase, node.right, s)
          [] node.op = "EXPR"  -> Subexpression(t, icase, node.of, s, next)
          [] node.op = "BOL"   -> IF s = 1 THEN s ELSE 0
          [] node.op = "EOL"   -> IF s = Len(t) + 1 THEN s ELSE 0
          [] node.op = "CLASS" -> Step(t, s, c \in node.chars)
          [] node.op = "CHAR"  -> Step(t, s, c = node.char \/ (icase /\ SameLetter(c, node.char)))

trex_match(program, icase, t) == trex_matchnode(t, icase, program, 1, <<>>) = Len(t) + 1
=============================================================================
