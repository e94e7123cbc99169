------------------------------- MODULE Getopt -------------------------------
(***************************************************************************)
(* The order of the words while getopt_internal of argtable3               *)
(* (src/argtable3/argtable3.c) reads a command line: it skips operands,    *)
(* and moves them behind the options it has read. What a word says is      *)
(* ArgParse's; here a word is any value, and argv leaves out the program's *)
(* name, so that an index is the one of the C array.                       *)
(***************************************************************************)
EXTENDS Integers, Sequences

VARIABLES
    argv,                      \* the words, in arg_parse's own copy
    optind,                    \* the next word
    place,                     \* what is left of an option's word, "" for nothing
    nonopt_start, nonopt_end,  \* the operands skipped last, or None
    stage,                     \* "tagged" while getopt reads, "untagged" when it is done
    written,                   \* history: the words as they were written,
    order,                     \* where each word of argv was written,
    taken                      \* and which words were read as options or their values

history    == <<written, order, taken>>
getoptVars == <<argv, optind, place, nonopt_start, nonopt_end, stage, history>>

None == -1

-----------------------------------------------------------------------------
(* permute_args. Its loops are functions of the number of turns made.      *)

EuclidStep(p) == IF p[1] % p[2] = 0 THEN p ELSE <<p[2], p[1] % p[2]>>
Euclid(a, b) == LET pair[k \in Nat] == IF k = 0 THEN <<a, b>> ELSE EuclidStep(pair[k - 1])
                IN  pair
\* b grows less with every turn but the last, so b turns are enough.
gcd(a, b) == Euclid(a, b)[b][2]

Exchanged(v, i, j) == [v EXCEPT ![i] = v[j], ![j] = v[i]]
NextPos(pos, start, mid, end) == IF pos >= mid THEN pos - (mid - start) ELSE pos + (end - mid)
Turn(w, start, mid, end, cstart) ==
    LET pos == NextPos(w.pos, start, mid, end)
    IN  [nargv |-> Exchanged(w.nargv, pos, cstart), pos |-> pos]
Cycle(v, start, mid, end, cstart) ==
    LET after[j \in Nat] == IF j = 0 THEN [nargv |-> v, pos |-> cstart]
                            ELSE Turn(after[j - 1], start, mid, end, cstart)
    IN  after

\* Mutant: one cycle, as if the lengths of the blocks had no common divisor.
PermuteOneCycle(v, start, mid, end) == Cycle(v, start, mid, end, mid)[end - start].nargv
\* The words from start to mid - 1 and those from mid to end - 1 change places.
permute_args(v, start, mid, end) ==
    LET ncycle   == gcd(mid - start, end - mid)
        cyclelen == (end - start) \div ncycle
        after[i \in 0..ncycle] ==
            IF i = 0 THEN v
            ELSE Cycle(after[i - 1], start, mid, end, mid + (i - 1))[cyclelen].nargv
    IN  after[ncycle]

Permute(mid, end) ==
    /\ argv' = permute_args(argv, nonopt_start, mid, end)
    /\ order' = permute_args(order, nonopt_start, mid, end)

-----------------------------------------------------------------------------
(* getopt_internal, as far as the words' places go.                        *)

\* arg_parse makes its copy of the words, and getopt_long begins.
StartReading(words) ==
    /\ argv' = words /\ written' = words
    /\ order' = [i \in 1..Len(words) |-> i] /\ taken' = {}
    /\ optind' = 1 /\ place' = ""
    /\ nonopt_start' = None /\ nonopt_end' = None
    /\ stage' = "tagged"

AtNextWord == stage = "tagged" /\ place = ""
AtWord == AtNextWord /\ optind <= Len(argv)

\* An option ends a block of operands.
OptionSeen == IF nonopt_start # None /\ nonopt_end = None THEN optind ELSE nonopt_end

\* The words up to `end` have been read as an option.
Take(end) == taken' = taken \cup {order[i] : i \in optind..end - 1}

\* Mutant: what was read behind the last operands stays behind them.
LeaveOptionsEarly(blockEnd, end) ==
    /\ UNCHANGED <<argv, order>>
    /\ optind' = IF nonopt_start # None THEN nonopt_start ELSE end
    /\ nonopt_start' = None /\ nonopt_end' = None
    /\ Take(end)
    /\ stage' = "untagged"
    /\ UNCHANGED <<place, written>>
\* getopt_long returns -1: the operands are moved behind the options up to `end`.
LeaveOptions(blockEnd, end) ==
    /\ IF blockEnd = None THEN UNCHANGED <<argv, order>> ELSE Permute(blockEnd, end)
    /\ optind' = IF blockEnd # None THEN end - (blockEnd - nonopt_start)
                 ELSE IF nonopt_start # None THEN nonopt_start ELSE end
    /\ nonopt_start' = None /\ nonopt_end' = None
    /\ Take(end)
    /\ stage' = "untagged"
    /\ UNCHANGED <<place, written>>

EndOfWords == AtNextWord /\ optind > Len(argv) /\ LeaveOptions(nonopt_end, optind)

\* The word is --.
DashDash == AtWord /\ LeaveOptions(OptionSeen, optind + 1)

SkipOperand ==
    /\ AtWord
    /\ IF nonopt_start # None /\ nonopt_end # None
       THEN /\ Permute(nonopt_end, optind)
            /\ nonopt_start' = optind - (nonopt_end - nonopt_start)
            /\ nonopt_end' = None
       ELSE /\ nonopt_start' = IF nonopt_start = None THEN optind ELSE nonopt_start
            /\ UNCHANGED <<argv, order, nonopt_end>>
    /\ optind' = optind + 1
    /\ UNCHANGED <<place, stage, written, taken>>

\* An option's word is begun, with what follows its dash.
FetchOption(text) ==
    /\ AtWord
    /\ place' = text
    /\ nonopt_end' = OptionSeen
    /\ UNCHANGED <<argv, optind, nonopt_start, stage, history>>

\* Some of an option's word is read, and what is left of it, or it and so many words in all.
ReadOn(words, text) ==
    /\ place' = text /\ optind' = optind + words
    /\ Take(optind + words)
    /\ UNCHANGED <<argv, nonopt_start, nonopt_end, stage, written, order>>

-----------------------------------------------------------------------------
(* Reading any words in any way. A word that is left as it was, with its   *)
(* dash at the end, is an option when it is looked at again.               *)

GetoptInit == stage \notin {"tagged", "untagged"}

InOption == stage = "tagged" /\ place # ""

Reading ==
    \/ EndOfWords \/ DashDash
    \/ SkipOperand /\ nonopt_end # optind
    \/ FetchOption(place') /\ place' # ""
    \/ InOption /\ place' # "" /\ ReadOn(0, place')
    \/ /\ InOption
       /\ \E words \in 0..2 : optind + words <= Len(argv) + 1 /\ ReadOn(words, "")

\* Outside getopt, and in what main does with what it left.
Elsewhere == stage # "tagged" /\ stage' \notin {"tagged", "untagged"}
Operands == stage = "untagged" /\ stage' = "untagged" /\ UNCHANGED <<argv, history>>

GetoptNext ==
    \/ GetoptInit /\ \E words \in {argv'} : words \in Seq(STRING) /\ StartReading(words)
    \/ Reading \/ Operands \/ Elsewhere

GetoptSpec == GetoptInit /\ [][GetoptNext]_getoptVars

-----------------------------------------------------------------------------
(* Properties.                                                             *)

IsTaken(i) == order[i] \in taken

(* When getopt is done, no word is lost, changed or there twice; the words *)
(* read as options are in front of optind, all others are behind it, and   *)
(* each of the two groups is in the order in which it was written ("keeping *)
(* the same order of arguments in each block", argtable3.c:1489).           *)
InBlocks ==
    /\ Len(argv) = Len(written) /\ DOMAIN order = DOMAIN argv
    /\ \A i \in DOMAIN argv : order[i] \in DOMAIN written /\ argv[i] = written[order[i]]
    /\ \A i \in DOMAIN argv : IsTaken(i) <=> i < optind
    /\ \A i, j \in DOMAIN argv : i < j /\ (IsTaken(i) <=> IsTaken(j)) => order[i] < order[j]
BlocksKeepOrder == [][stage = "tagged" /\ stage' = "untagged" => InBlocks']_getoptVars
=============================================================================
