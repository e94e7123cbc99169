------------------------------ MODULE ArgParse ------------------------------
(***************************************************************************)
(* arg_parse of argtable3 (src/argtable3/argtable3.c): the words of a      *)
(* command line read against an argument table, first the tagged options   *)
(* with the getopt_long that comes with argtable3, which moves the         *)
(* operands behind the options as it goes (Getopt), then the untagged      *)
(* entries, then the check that nothing required is missing.               *)
(*                                                                         *)
(* An action is the handling of one option or one operand; the option that *)
(* a cluster such as -vh has left is `place`. Of the errors only the       *)
(* number is kept. POSIXLY_CORRECT is not set in the environment, no       *)
(* entry's value is optional and no entry's letter is W or -.              *)
(***************************************************************************)
EXTENDS ArgTable, Getopt

CONSTANTS
    Tables  \* the argument tables, by name

\* A letter or a long name belongs to one entry, and a value can be given as often as it must.
ASSUME TablesAssumption ==
    \A t \in {Tables[name] : name \in DOMAIN Tables} : \A i \in DOMAIN t :
        /\ t[i].kind \in {"lit", "int", "str", "rex"} /\ t[i].min <= t[i].max
        /\ \A j \in DOMAIN t \ {i} :
              /\ CharsOf(t[i].shorts) \cap CharsOf(t[j].shorts) = {}
              /\ ToSet(t[i].longs) \cap ToSet(t[j].longs) = {}

VARIABLES
    selected,  \* the argument table's name, or NoTable
    found,     \* what has been scanned for each entry; the length is its count
    errors,    \* the number of errors registered
    tabindex   \* the entry the operands are up to

cursor    == <<optind, place>>
operands  == <<nonopt_start, nonopt_end>>
results   == <<selected, found, errors, tabindex>>
parseVars == <<getoptVars, results>>

NoTable == ""
table == Tables[selected]
MaxErrors == 20

Register(n) == errors' = Min({errors + n, MaxErrors})

\* A value is offered to an entry, after n errors. What scanfn says is r.
Offered(i, t) == scanfn(table[i], Len(found[i]), t)
Keep(i, r) == found' = IF r.ok THEN [found EXCEPT ![i] = Append(@, r.value)] ELSE found
Answered(i, r, n) == Keep(i, r) /\ Register(IF r.ok THEN n ELSE n + 1)
Scan(i, t, n) == Answered(i, Offered(i, t), n)

Erroneous == Register(1) /\ UNCHANGED found

\* arg_reset, and the start of arg_parse_tagged. What getopt_long keeps in `place` from an
\* earlier call does not matter.
StartParsing(name, words) ==
    /\ selected' = name
    /\ StartReading(words)
    /\ found' = [i \in DOMAIN Tables[name] |-> <<>>]
    /\ errors' = 0
    /\ tabindex' = 1

-----------------------------------------------------------------------------
(* getopt_internal: the words.                                             *)

Word == argv[optind]
IsOperand(word) == At(word, 1) # "-" \/ word = "-"

NoWordIsLeft   == EndOfWords /\ UNCHANGED results
WordIsDashDash == DashDash /\ Word = "--" /\ UNCHANGED results
WordIsOperand  == SkipOperand /\ IsOperand(Word) /\ UNCHANGED results
WordIsOption ==
    FetchOption(From(Word, 2)) /\ ~IsOperand(Word) /\ Word # "--" /\ UNCHANGED results

-----------------------------------------------------------------------------
(* getopt_internal and arg_parse_tagged: one option.                       *)

OptionDone(words) == ReadOn(words, "")
NothingElse == UNCHANGED <<selected, tabindex>>

HasWord(i) == i <= Len(argv)

\* The long option of `place`, which begins with the second dash.
Equals == Places(place, "=")
NameGiven == SubSeq(place, 2, IF Equals = {} THEN Len(place) ELSE Min(Equals) - 1)
Begins(name, long) == Len(name) <= Len(long) /\ SubSeq(long, 1, Len(name)) = name
Exact(name) == {i \in DOMAIN table : name \in ToSet(table[i].longs)}
Partial(name) == {i \in DOMAIN table : \E long \in ToSet(table[i].longs) : Begins(name, long)}
\* Mutant: the first name that begins so is taken.
MatchFirst(name) == IF Partial(name) = {} THEN {} ELSE {Min(Partial(name))}
\* The entry the name stands for, if there is one and only one.
Match(name) ==
    IF Exact(name) # {} THEN {Min(Exact(name))}
    ELSE IF Cardinality(Partial(name)) = 1 THEN Partial(name) ELSE {}

InLongOption == InOption /\ At(place, 1) = "-"

\* A dash that ends a cluster of short options. The word is not left behind.
MalformedOption ==
    /\ InLongOption /\ place = "-"
    /\ OptionDone(0) /\ Erroneous /\ NothingElse

UnknownLongOption ==
    /\ InLongOption /\ place # "-" /\ Match(NameGiven) = {}
    /\ OptionDone(1) /\ Erroneous /\ NothingElse

LongFlag ==
    /\ InLongOption /\ place # "-"
    /\ \E i \in Match(NameGiven) :
          /\ ~HasValue(table[i])
          /\ IF Equals = {} THEN Scan(i, "", 0) ELSE Erroneous
    /\ OptionDone(1) /\ NothingElse

\* An empty value is an error, and is offered all the same.
ScanLong(i, t) == Scan(i, t, IF t = "" THEN 1 ELSE 0)

LongValue ==
    /\ InLongOption /\ place # "-"
    /\ \E i \in Match(NameGiven) :
          /\ HasValue(table[i])
          /\ \/ /\ Equals # {}
                /\ ScanLong(i, From(place, Min(Equals) + 1)) /\ OptionDone(1)
             \/ /\ Equals = {} /\ HasWord(optind + 1)
                /\ ScanLong(i, argv[optind + 1]) /\ OptionDone(2)
             \/ /\ Equals = {} /\ ~HasWord(optind + 1)
                /\ Erroneous /\ OptionDone(1)
    /\ NothingElse

InShortOption == InOption /\ At(place, 1) # "-"
Letter == At(place, 1)
Rest == From(place, 2)
find_shortoption(c) == {i \in DOMAIN table : c \in CharsOf(table[i].shorts)}

\* Mutant: the word is not left behind after its last letter.
NextLetterStays == ReadOn(0, Rest)
NextLetter == ReadOn(IF Rest = "" THEN 1 ELSE 0, Rest)

UnknownShortOption ==
    /\ InShortOption /\ find_shortoption(Letter) = {}
    /\ NextLetter /\ Erroneous /\ NothingElse

ShortFlag ==
    /\ InShortOption /\ find_shortoption(Letter) # {}
    /\ LET i == Min(find_shortoption(Letter))
       IN  ~HasValue(table[i]) /\ Scan(i, "", 0)
    /\ NextLetter /\ NothingElse

ShortValue ==
    /\ InShortOption /\ find_shortoption(Letter) # {}
    /\ LET i == Min(find_shortoption(Letter))
       IN  /\ HasValue(table[i])
           /\ \/ Rest # "" /\ Scan(i, Rest, 0) /\ OptionDone(1)
              \/ Rest = "" /\ HasWord(optind + 1)
                 /\ Scan(i, argv[optind + 1], 0) /\ OptionDone(2)
              \/ Rest = "" /\ ~HasWord(optind + 1) /\ Erroneous /\ OptionDone(1)
    /\ NothingElse

-----------------------------------------------------------------------------
(* arg_parse_untagged and arg_parse_check.                                 *)

UntaggedFrom(i) == {j \in i..Len(table) : ~IsTagged(table[j])}

\* The operand goes to the entry the operands are up to, or that entry is done.
Settled(i, r) == /\ Keep(i, r)
                 /\ tabindex' = (IF r.ok THEN i ELSE i + 1)
                 /\ optind' = (IF r.ok THEN optind + 1 ELSE optind)
OfferOperand ==
    /\ stage = "untagged" /\ HasWord(optind) /\ UntaggedFrom(tabindex) # {}
    /\ LET i == Min(UntaggedFrom(tabindex)) IN Settled(i, Offered(i, argv[optind]))
    /\ UNCHANGED <<selected, argv, place, operands, errors, stage, history>>

\* Each operand no entry takes is an error. (The first may keep the one its entry gave.)
LeftOver ==
    /\ stage = "untagged" /\ HasWord(optind) /\ UntaggedFrom(tabindex) = {}
    /\ Register(Len(argv) - optind + 1)
    /\ optind' = Len(argv) + 1
    /\ UNCHANGED <<selected, argv, place, operands, found, tabindex, stage, history>>

arg_parse_check ==
    /\ stage = "untagged" /\ ~HasWord(optind)
    /\ IF errors = 0
       THEN Register(Cardinality({i \in DOMAIN table : ~checkfn(table[i], Len(found[i]))}))
       ELSE UNCHANGED errors
    /\ stage' = "parsed"
    /\ UNCHANGED <<selected, argv, cursor, operands, found, tabindex, history>>

LongOption == MalformedOption \/ UnknownLongOption \/ LongFlag \/ LongValue
ShortOption == UnknownShortOption \/ ShortFlag \/ ShortValue

Parse ==
    \/ NoWordIsLeft \/ WordIsDashDash \/ WordIsOperand \/ WordIsOption
    \/ LongOption \/ ShortOption
    \/ OfferOperand \/ LeftOver \/ arg_parse_check

-----------------------------------------------------------------------------
\* Types: the indices stay within argv and the table, the operands skipped last are
\* a block before the next word, and no entry has more values than it has room for.
TypeOK ==
    /\ optind \in 1..Len(argv) + 1
    /\ errors \in 0..MaxErrors
    /\ nonopt_start \in 1..Len(argv) \cup {None}
    /\ nonopt_end # None => nonopt_start < nonopt_end /\ nonopt_end <= optind
    /\ nonopt_start = None => nonopt_end = None
    /\ selected # NoTable =>
          /\ tabindex \in 1..Len(table) + 1
          /\ DOMAIN found = DOMAIN table
          /\ \A i \in DOMAIN table : Len(found[i]) <= table[i].max
=============================================================================
