---------------------------- MODULE CommandLine ----------------------------
(***************************************************************************)
(* The command lines of the two programs, from argv to what main starts:   *)
(* main of src/modbuss.c and main of src/modbusc.c with the arg_parse they *)
(* call, the checks of the values and the contexts made of them.           *)
(*                                                                         *)
(* A line is a sequence of items, one for each thing its author means: the *)
(* words, the option they are an instance of and the value they give it.   *)
(* The programs see the words only; what is meant is for the properties.   *)
(***************************************************************************)
EXTENDS ArgParse, ModbuscArguments, ModbusContext

CONSTANTS
    Lines,  \* pairs of a program and a line
    Values  \* pairs of a text and other options, for modbusc's checks alone

VARIABLES
    program, line,  \* which program, and the items of its command line
    outcome,        \* what main came to
    started         \* the contexts it goes on with, and the sizes of a mapping

mainVars == <<program, line, outcome, started>>
vars     == <<parseVars, argumentVars, mainVars>>

-----------------------------------------------------------------------------
(* The tables.                                                             *)

Command(name) == arg_rex1("", <<>>, name, TRUE)
DataBits == arg_rex0("", <<"data-bits">>, "^(7|8)$", FALSE)
StopBits == arg_rex0("", <<"stop-bits">>, "^(1|2)$", FALSE)
Device   == arg_str1("d", <<"dev">>)
Port     == arg_int0("p", <<"port">>)
Ip       == arg_str0("i", <<"ip">>)
Help     == arg_lit0("h", <<"help">>)
Version  == arg_lit0("", <<"version">>)
Parity(max) == arg_rexn("p", <<"parity">>, "^(N|E|O)$", 0, max, TRUE)

Sizes == <<"co", "di", "hr", "ir">>
ServerOptions == <<arg_int0("a", <<"addr">>)>> \o [i \in 1..4 |-> arg_int0("", <<Sizes[i]>>)]
ServerFlags == <<arg_lit0("v", <<"verbose">>), Help, Version>>

ClientOptions ==
    << arg_rex1("a", <<"addr">>, "^[0-9]{1,3}(\\.[0-9]{1,3})?$", FALSE),
       arg_int1("r", <<"reg">>), arg_int1("f", <<"func">>),
       arg_intn("w", <<"write">>, 0, MaxWriteBits),
       arg_int0("c", <<"count">>), arg_int0("o", <<"timeout">>),
       arg_lit0("1", <<"base-1">>), arg_int0("e", <<"itf-delay">>),
       arg_litn("v", <<"verbose">>, 0, 2), Help, Version >>

ProgramTables ==
    [name \in {"modbuss rtu", "modbuss tcp", "modbusc rtu", "modbusc tcp"} |->
        CASE name = "modbuss rtu" ->
                <<Command("rtu")>> \o ServerOptions
                \o <<Device, arg_int1("b", <<"baud">>), DataBits, StopBits, Parity(1)>> \o ServerFlags
          [] name = "modbuss tcp" ->
                <<Command("tcp")>> \o ServerOptions \o <<Port, Ip>> \o ServerFlags
          [] name = "modbusc rtu" ->
                <<Command("rtu")>> \o ClientOptions
                \o <<Device, arg_intn("b", <<"baud">>, 1, 16), DataBits, StopBits, Parity(3)>>
          [] name = "modbusc tcp" -> <<Command("tcp")>> \o ClientOptions \o <<Port, Ip>>]

Named(name) == CHOOSE i \in DOMAIN table : table[i].longs = <<name>>
Given(name) == found[Named(name)]
\* The value, or the default main sets before it parses.
ValueOr(name, default) == IF Given(name) = <<>> THEN default ELSE Given(name)[1]

-----------------------------------------------------------------------------
(* main, up to arg_parse.                                                  *)

WordsOf(items) == FlattenSeq([i \in DOMAIN items |-> items[i].words])
NothingStarted == [contexts |-> <<>>, sizes |-> <<>>]
NoValues == [function |-> 0]

Init ==
    /\ selected = NoTable /\ optind = 1 /\ place = "" /\ nonopt_start = None /\ nonopt_end = None
    /\ found = <<>> /\ errors = 0 /\ tabindex = 1
    /\ written = <<>> /\ order = <<>> /\ taken = {}
    /\ range = Rejected /\ verdict = "unread" /\ outcome = "none" /\ started = NothingStarted
    /\ \/ /\ \E l \in Lines : program = l[1] /\ line = l[2]
          /\ argv = WordsOf(line) /\ stage = "main" /\ text = "" /\ args = NoValues
       \/ /\ \E v \in Values : text = v[1] /\ args = v[2]
          /\ program = "modbusc" /\ line = <<>> /\ argv = <<>> /\ stage = "checks"

equals_ignore_case(left, right) ==
    Len(left) = Len(right) /\ \A i \in 1..Len(left) : SameLetter(At(left, i), At(right, i))

Finish(how) == stage' = "ended" /\ outcome' = how

AtMain == stage = "main"
Alone(word) == Len(argv) = 1 /\ equals_ignore_case(argv[1], word)
IsCommand(name) == argv # <<>> /\ equals_ignore_case(argv[1], name)
UnchangedButStage == UNCHANGED <<results, argv, cursor, operands, history,
                                 argumentVars, program, line, started>>

HelpAlone == AtMain /\ (Alone("--help") \/ Alone("-h")) /\ Finish("help") /\ UnchangedButStage
VersionAlone == AtMain /\ Alone("--version") /\ Finish("version") /\ UnchangedButStage
NoCommand ==
    /\ AtMain /\ ~Alone("--help") /\ ~Alone("-h") /\ ~Alone("--version")
    /\ ~IsCommand("rtu") /\ ~IsCommand("tcp")
    /\ Finish("usage") /\ UnchangedButStage

ParseLine ==
    /\ AtMain
    /\ \E command \in {"rtu", "tcp"} :
          IsCommand(command) /\ StartParsing(program \o " " \o command, argv)
    /\ UNCHANGED <<argumentVars, mainVars>>

InArgParse == Parse /\ UNCHANGED <<argumentVars, mainVars>>

-----------------------------------------------------------------------------
(* main, after arg_parse.                                                  *)

Parsed == stage = "parsed"
ToRun == Parsed /\ Given("version") = <<>> /\ Given("help") = <<>> /\ errors = 0
IsRtu == selected \in {"modbuss rtu", "modbusc rtu"}

PrintVersion == Parsed /\ Given("version") # <<>> /\ Finish("version") /\ UnchangedButStage
PrintHelp ==
    /\ Parsed /\ Given("version") = <<>> /\ Given("help") # <<>>
    /\ Finish("help") /\ UnchangedButStage
PrintErrors ==
    /\ Parsed /\ Given("version") = <<>> /\ Given("help") = <<>> /\ errors # 0
    /\ Finish("errors") /\ UnchangedButStage

\* Mutant: any port of 16 bits is taken.
ServerValuesOkAnyPort ==
    /\ ValueOr("addr", 1) \in 1..MaxSlave
    /\ \A i \in 1..4 : ValueOr(Sizes[i], 100) \in 1..65536
    /\ IF IsRtu THEN ValueOr("baud", 0) > 0 ELSE ValueOr("port", 502) \in 0..65535
ServerValuesOk ==
    /\ ValueOr("addr", 1) \in 1..MaxSlave
    /\ \A i \in 1..4 : ValueOr(Sizes[i], 100) \in 1..65536
    /\ IF IsRtu THEN ValueOr("baud", 0) > 0 ELSE ValueOr("port", 502) \in 1..65535

FirstDigit(s) == DigitValue[At(s, 1)]
SerialContext(baud, parity) ==
    modbus_new_rtu(ValueOr("dev", ""), baud, toupper(At(parity, 1)),
                   FirstDigit(ValueOr("data-bits", "8")), FirstDigit(ValueOr("stop-bits", "1")))
TcpContext == modbus_new_tcp(ValueOr("ip", "127.0.0.1"), ValueOr("port", 502))

ServerContext == IF IsRtu THEN SerialContext(ValueOr("baud", 0), ValueOr("parity", "E"))
                          ELSE TcpContext
\* The server's checks, its context and its mapping.
StartServer ==
    /\ ToRun /\ program = "modbuss"
    /\ LET ctx  == ServerContext
           ctxs == modbus_set_slave(ctx, ValueOr("addr", 1))
       IN  IF ServerValuesOk /\ ctx # NULL /\ ctxs # NULL
           THEN /\ Finish("serving")
                /\ started' = [contexts |-> <<ctxs>>,
                               sizes |-> [i \in 1..4 |-> ValueOr(Sizes[i], 100)]]
           ELSE Finish("refused") /\ UNCHANGED started
    /\ UNCHANGED <<results, argv, cursor, operands, history, argumentVars,
                   program, line>>

\* The first of the values that is no bit or no register, for the function; else the last.
WriteValue(function, values) ==
    LET bad == {i \in DOMAIN values :
                   values[i] \notin (IF function \in {WRITE_COIL, WRITE_COILS} THEN {0, 1}
                                                                              ELSE 0..65535)}
    IN  IF values = <<>> THEN 0 ELSE values[IF bad # {} THEN Min(bad) ELSE Len(values)]
WorstBaud == LET bad == {i \in DOMAIN Given("baud") : Given("baud")[i] <= 0}
             IN  Given("baud")[IF bad # {} THEN Min(bad) ELSE 1]

\* modbusc goes on to check the values.
CheckValues ==
    /\ ToRun /\ program = "modbusc"
    /\ text' = ValueOr("addr", "")
    /\ args' = [reg |-> ValueOr("reg", 0), baseOne |-> Given("base-1") # <<>>,
                function |-> ValueOr("func", 0), count |-> ValueOr("count", 1),
                writes |-> Len(Given("write")),
                value |-> WriteValue(ValueOr("func", 0), Given("write")),
                timeout |-> ValueOr("timeout", 1000), delay |-> ValueOr("itf-delay", 200),
                tcp |-> ~IsRtu, port |-> IF IsRtu THEN 502 ELSE ValueOr("port", 502),
                baud |-> IF IsRtu THEN WorstBaud ELSE 9600]
    /\ stage' = "checks"
    /\ UNCHANGED <<results, argv, cursor, operands, history, range, verdict, mainVars>>

CheckArguments == stage = "checks" /\ Check /\ UNCHANGED <<parseVars, mainVars>>

Parities == IF Given("parity") = <<>> THEN <<"E">> ELSE Given("parity")
\* Mutant: both settings are taken at one index.
SerialContextsPaired ==
    [i \in 1..Len(Given("baud")) * Len(Parities) |->
        SerialContext(Given("baud")[((i - 1) % Len(Given("baud"))) + 1],
                      Parities[((i - 1) % Len(Parities)) + 1])]
\* One context for each rate and, within it, each parity.
SerialContexts ==
    [i \in 1..Len(Given("baud")) * Len(Parities) |->
        SerialContext(Given("baud")[((i - 1) \div Len(Parities)) + 1],
                      Parities[((i - 1) % Len(Parities)) + 1])]

\* A client with values of its own has no line to start from, and ends with the verdict.
StartClient ==
    /\ stage = "checks" /\ verdict # "unread" /\ selected # NoTable
    /\ IF verdict = "ok"
       THEN /\ Finish("requesting")
            /\ started' = [contexts |-> IF IsRtu THEN SerialContexts ELSE <<TcpContext>>,
                           sizes |-> <<>>]
       ELSE Finish("refused") /\ UNCHANGED started
    /\ UNCHANGED <<results, argv, cursor, operands, history, argumentVars,
                   program, line>>

Next ==
    \/ HelpAlone \/ VersionAlone \/ NoCommand \/ ParseLine
    \/ InArgParse
    \/ PrintVersion \/ PrintHelp \/ PrintErrors
    \/ StartServer
    \/ CheckValues \/ CheckArguments \/ StartClient

Spec == Init /\ [][Next]_vars
FairSpec == Spec /\ WF_vars(Next)

-----------------------------------------------------------------------------
(* What a line means. An item has its words, of which kind it is (an       *)
(* option, the command, another operand, or the -- that ends the options), *)
(* what it is to be read as, pairs of an option and a value, and whether   *)
(* it is a good one.                                                       *)

HasLine == selected # NoTable \/ args = NoValues
Dashes == {i \in DOMAIN line : line[i].kind = "--"}
ItemsRead == IF Dashes = {} THEN line ELSE SubSeq(line, 1, Min(Dashes) - 1)
ItemsAfter == IF Dashes = {} THEN <<>> ELSE SubSeq(line, Min(Dashes) + 1, Len(line))

Asked(option) ==
    LET reads == FlattenSeq([i \in DOMAIN ItemsRead |-> ItemsRead[i].reads])
        these == SelectSeq(reads, LAMBDA read : read[1] = option)
    IN  [i \in DOMAIN these |-> these[i][2]]
AskedOr(option, default) == IF Asked(option) = <<>> THEN default ELSE Asked(option)[1]

\* The words in the order getopt leaves them in: options, and behind them the operands.
OptionWords ==
    WordsOf(SelectSeq(ItemsRead, LAMBDA item : item.kind = "option"))
    \o (IF Dashes = {} THEN <<>> ELSE <<"--">>)
OperandWords ==
    WordsOf(SelectSeq(ItemsRead, LAMBDA item : item.kind # "option")) \o WordsOf(ItemsAfter)

KeyOf(entry) == IF entry.longs = <<>> THEN "command" ELSE entry.longs[1]

\* Every item is a good one, and each option is given as often as its entry says.
WellFormed ==
    /\ \A i \in DOMAIN ItemsRead : ItemsRead[i].good
    /\ ItemsAfter = <<>>
    /\ \A i \in DOMAIN table :
          /\ Len(Asked(KeyOf(table[i]))) >= table[i].min
          /\ Len(Asked(KeyOf(table[i]))) <= table[i].max

\* The values are those the help and the README allow.
ServerAllows ==
    /\ AskedOr("addr", 1) \in 1..247
    /\ \A size \in {"co", "di", "hr", "ir"} : AskedOr(size, 100) \in 1..65536
    /\ IF IsRtu THEN AskedOr("baud", 0) > 0 /\ AskedOr("dev", "") # ""
       ELSE AskedOr("port", 502) \in 1..65535 /\ Len(AskedOr("ip", "127.0.0.1")) \in 1..15

Function == AskedOr("func", 0)
NumberOfValues == IF Function \in Writes THEN Len(Asked("write")) ELSE AskedOr("count", 1)
FirstRegister == AskedOr("reg", 0) - Len(Asked("base-1"))
AddressAllowed(t) ==
    \/ NumberLike(t) /\ NumberWritten(t) <= MaxSlave
    \/ \E dot \in Places(t, ".") :
          LET first == SubSeq(t, 1, dot - 1) last == From(t, dot + 1)
          IN  /\ NumberLike(first) /\ NumberLike(last)
              /\ NumberWritten(first) < NumberWritten(last) /\ NumberWritten(last) <= MaxSlave

ClientAllows ==
    /\ AddressAllowed(AskedOr("addr", ""))
    /\ Function \in ReadBits \cup ReadRegisters \cup Writes
    /\ NumberOfValues \in 1..MaxValues(Function, "indication")
    /\ Function \in Single => NumberOfValues = 1
    /\ Function \notin Writes => Asked("write") = <<>>
    /\ FirstRegister >= 0 /\ FirstRegister <= MaxAddress
    /\ FirstRegister + NumberOfValues - 1 <= MaxAddress
    /\ \A v \in ToSet(Asked("write")) :
          v \in (IF Function \in {WRITE_COIL, WRITE_COILS} THEN {0, 1} ELSE 0..65535)
    /\ AskedOr("timeout", 1000) > 0 /\ AskedOr("itf-delay", 200) >= 0
    /\ IF IsRtu THEN \A b \in ToSet(Asked("baud")) : b > 0
                ELSE AskedOr("port", 502) \in 1..65535

Allowed == IF program = "modbuss" THEN ServerAllows ELSE ClientAllows

-----------------------------------------------------------------------------
(* Properties.                                                             *)

(* However options and operands are mixed, getopt ends with the options    *)
(* first and the operands behind them, each group in the order it was      *)
(* written ("keeping the same order of arguments in each block",           *)
(* argtable3.c:1489), and hands over the first operand.                    *)
OperandsKeepOrder ==
    (HasLine /\ stage = "untagged" /\ tabindex = 1 /\ found[1] = <<>>) =>
        /\ argv = OptionWords \o OperandWords
        /\ optind = Len(OptionWords) + 1

(* The promises of the parts: getopt leaves the words as Getopt says, and  *)
(* main's checks of modbusc's values are those of ModbuscChecks, so what   *)
(* is proved of the two modules holds of the programs.                     *)
ImplementsParts == GetoptSpec /\ ImplementsChecks

(* A command line is taken exactly if each of its items is, wherever it    *)
(* stands, and then every option has the values written for it, in their   *)
(* order: no value of one option is read as another option, as an operand  *)
(* or as a different number, whichever of the spellings is used.           *)
ReadAsWritten ==
    (HasLine /\ stage = "parsed") =>
        /\ (errors = 0) <=> WellFormed
        /\ WellFormed => \A i \in DOMAIN table : found[i] = Asked(KeyOf(table[i]))

(* main starts the program if and only if the command line is well formed  *)
(* and its values are allowed, unless it asks for the help or the version, *)
(* and prints these only if it does (README.md:139). An abbreviation asks  *)
(* as well, and --help alone in any case.                                  *)
StatusTellsTruth ==
    (HasLine /\ outcome # "none") =>
        LET asks == Asked("help") # <<>> \/ Asked("version") # <<>>
        IN  /\ outcome \in {"help", "version"} => asks
            /\ outcome \in {"serving", "requesting"} => ~asks /\ WellFormed /\ Allowed
            /\ outcome \in {"errors", "refused"} => ~asks /\ ~(WellFormed /\ Allowed)
            /\ outcome = "usage" => line = <<>> \/ line[1].kind # "command"

\* What a line asked for is: the rate is one termios has, and so are the flags.
LineAsAsked(ctx, baud, parity) ==
    LET settings == LineSettings(ctx)
    IN  /\ settings.device = AskedOr("dev", "")
        /\ baud \in Speeds => settings.speed = baud
        /\ ("CS7" \in settings.flags) <=> (AskedOr("data-bits", "8") = "7")
        /\ ("CS8" \in settings.flags) <=> (AskedOr("data-bits", "8") = "8")
        /\ ("CSTOPB" \in settings.flags) <=> (AskedOr("stop-bits", "1") = "2")
        /\ ("PARENB" \in settings.flags) <=> (parity \notin {"N", "n"})
        /\ ("PARODD" \in settings.flags) <=> (parity \in {"O", "o"})
        /\ ("INPCK" \in settings.flags) <=> ("PARENB" \in settings.flags)

(* What main starts has the settings written: the server its address,      *)
(* sizes and the one line or address and port, the client a connection for *)
(* every rate and every parity, each pair once, or its host and port. A    *)
(* host that begins with a zero binds every interface.                     *)
SettingsAsWritten ==
    (HasLine /\ outcome \in {"serving", "requesting"}) =>
        LET contexts == started.contexts
            bauds    == Asked("baud")
            parities == IF Asked("parity") = <<>> THEN <<"E">> ELSE Asked("parity")
            host     == AskedOr("ip", "127.0.0.1")
        IN  /\ outcome = "serving" =>
                  /\ contexts[1].slave = AskedOr("addr", 1)
                  /\ started.sizes = [i \in 1..4 |-> AskedOr(Sizes[i], 100)]
            /\ ~IsRtu =>
                  /\ Len(contexts) = 1
                  /\ contexts[1] # NULL =>
                        /\ contexts[1].port = AskedOr("port", 502) /\ contexts[1].ip = host
                        /\ (At(host, 1) # "0" \/ host = "0.0.0.0") /\ inet_pton(host) =>
                              modbus_tcp_listen(contexts[1]) =
                                  [backend |-> "tcp", ip |-> host, port |-> AskedOr("port", 502)]
            /\ IsRtu /\ AskedOr("dev", "") # "" =>
                  /\ Len(contexts) = Len(bauds) * Len(parities)
                  /\ \A b \in DOMAIN bauds, p \in DOMAIN parities : \E i \in DOMAIN contexts :
                        /\ i = (b - 1) * Len(parities) + p
                        /\ LineAsAsked(contexts[i], bauds[b], parities[p])

\* The characters getopt has still to read, and one for each word not begun.
RECURSIVE CharsFrom(_)
CharsFrom(i) == IF i > Len(argv) THEN 0 ELSE Len(argv[i]) + 1 + CharsFrom(i + 1)
Unread == IF place = "" THEN CharsFrom(optind) ELSE Len(place) + CharsFrom(optind + 1)

(* Every step of getopt reads on, whatever letters, clusters, values and   *)
(* operands the words mix: no word or part of one is read a second time,   *)
(* and so the parsing ends. The one exception is a dash at the end of a    *)
(* cluster (see ParseEnds).                                                *)
ReadsOn ==
    [][stage = "tagged" /\ stage' = "tagged" => Unread' < Unread \/ place = "-"]_vars

(* main comes to an end with every command line ("Both programs return     *)
(* zero for successful commands and nonzero for invalid arguments",        *)
(* README.md:139).                                                         *)
ParseEnds == <>(outcome # "none" \/ (~HasLine /\ verdict # "unread"))
=============================================================================
