--------------------------- MODULE MCCommandLine ---------------------------
(***************************************************************************)
(* Command lines for TLC. A line is its command and items of a menu: for   *)
(* the TCP server any two of them, any five of a few that move operands    *)
(* about; for the other three programs what is required, in two spellings, *)
(* and an item before it and one behind. modbusc's checks also have short  *)
(* texts over a few characters, all addresses and ranges of up to three    *)
(* digits each over some digits, and options at both ends of every limit.  *)
(***************************************************************************)
EXTENDS CommandLine

-----------------------------------------------------------------------------
(* Items.                                                                  *)

Item(kind, words, reads, good) == [kind |-> kind, words |-> words, reads |-> reads, good |-> good]

Opt(words, option, value) == Item("option", words, <<<<option, value>>>>, TRUE)
Flag(word, option) == Opt(<<word>>, option, "")
Cluster(words, reads) == Item("option", words, reads, TRUE)
Bad(words) == Item("option", words, <<>>, FALSE)
BadButReads(words, reads) == Item("option", words, reads, FALSE)
Cmd(word) == Item("command", <<word>>, <<<<"command", word>>>>, TRUE)
Operand(word) == Item("operand", <<word>>, <<>>, FALSE)
EndOptions == Item("--", <<"--">>, <<>>, TRUE)

Flags ==
    { Flag("-v", "verbose"), Flag("--verb", "verbose"), Flag("-h", "help"), Flag("--he", "help"),
      Flag("--version", "version"), Flag("--vers", "version"),
      Cluster(<<"-vh">>, <<<<"verbose", "">>, <<"help", "">>>>),
      Cluster(<<"-v-help">>, <<<<"verbose", "">>, <<"help", "">>>>),
      Cluster(<<"-vv">>, <<<<"verbose", "">>, <<"verbose", "">>>>),
      Cluster(<<"-vvv">>, <<<<"verbose", "">>, <<"verbose", "">>, <<"verbose", "">>>>) }

Junk ==
    { Bad(<<"--ver">>), Bad(<<"--help=1">>), Bad(<<"--bogus">>), Bad(<<"-x">>), Bad(<<"-=5">>),
      Bad(<<"--HELP">>), Bad(<<"-:">>), Bad(<<"-xxxxxxxxxxxxxxxxxxxxxx">>), Bad(<<"--=5">>),
      BadButReads(<<"-xv">>, <<<<"verbose", "">>>>), BadButReads(<<"-vx">>, <<<<"verbose", "">>>>),
      Operand("extra"), Operand("-"), Operand("tcp"), Operand(""), EndOptions }

\* An option without its value, which only the end of the line can have.
Cut == {Bad(<<"-a">>), Bad(<<"--addr">>), BadButReads(<<"-va">>, <<<<"verbose", "">>>>)}

Numbers ==
    { <<"5", 5>>, <<"010", 10>>, <<"0x10", 16>>, <<"0o17", 15>>, <<"0b101", 5>>, <<" +7", 7>>,
      <<"64KB", 65536>>, <<"1GB", 1073741824>>, <<"-2GB", -2147483647 - 1>>, <<"-1", -1>>,
      <<"2147483647", 2147483647>>, <<"-2147483648", -2147483647 - 1>>, <<"2097151kb ", 2147482624>> }
NotNumbers ==
    {"", "x", "0x", "5x", "--5", "2147483648", "-2147483649", "2GB", "2097152KB", "5 5", "-0x80000001",
     "5K", "99999999999999999999"}

\* An option that takes a number, in its spellings.
Spellings(short, long, t, value) ==
    { Opt(<<short \o t>>, long, value), Opt(<<short, t>>, long, value),
      Opt(<<"--" \o long, t>>, long, value), Opt(<<"--" \o long \o "=" \o t>>, long, value),
      Cluster(<<"-v" \o SubSeq(short, 2, 2) \o t>>, <<<<"verbose", "">>, <<long, value>>>>) }

-----------------------------------------------------------------------------
(* Lines.                                                                  *)

ServerTcpOptions ==
    UNION {{Opt(<<"-p", n[1]>>, "port", n[2]), Opt(<<"--co=" \o n[1]>>, "co", n[2])} : n \in Numbers}
    \cup {Bad(<<"--hr=" \o t>>) : t \in NotNumbers}
    \cup Spellings("-a", "addr", "247", 247)
    \cup { Opt(<<"-a248">>, "addr", 248), Opt(<<"--ad", "0">>, "addr", 0),
           Opt(<<"--di", "65537">>, "di", 65537), Opt(<<"--d=65536">>, "di", 65536),
           Opt(<<"-p", "0">>, "port", 0), Opt(<<"--port=65536">>, "port", 65536), Bad(<<"--i=9">>),
           Opt(<<"-i", "0.0.0.0">>, "ip", "0.0.0.0"), Opt(<<"--ip", "10.0.0.255">>, "ip", "10.0.0.255"),
           Opt(<<"-i0177.0.0.1">>, "ip", "0177.0.0.1"), Opt(<<"-i", "-v">>, "ip", "-v"),
           Opt(<<"-i", "1.2.3.4567890123">>, "ip", "1.2.3.4567890123"), Opt(<<"-i", "">>, "ip", ""),
           Opt(<<"--ip==">>, "ip", "="), BadButReads(<<"--ip=">>, <<<<"ip", "">>>>) }

ServerTcpItems == ServerTcpOptions \cup Flags \cup Junk
Movers == {Operand("x"), Operand("y"), Flag("-v", "verbose"), Opt(<<"-a", "5">>, "addr", 5), EndOptions}

ServerTcp ==
    {<<Cmd("tcp")>> \o items : items \in SeqOf(ServerTcpItems, 2)}
    \cup {<<Cmd("TcP")>> \o items : items \in SeqOf(Movers, 5)}
    \cup {<<Cmd("tcp")>> \o items \o <<last>> : items \in SeqOf(Flags \cup Junk, 1), last \in Cut}
    \cup {<<Cmd("tcp")>> \o [i \in 1..n |-> Operand("x")] : n \in 19..22}

\* What is required, and an item before and one behind.
Around(command, required, items) ==
    {<<Cmd(command)>> \o before \o r \o behind :
        before \in SeqOf(items, 1), r \in required, behind \in SeqOf(items, 1)}

Serial ==
    { Opt(<<"-p", "e">>, "parity", "e"), Opt(<<"--parity=O">>, "parity", "O"),
      Opt(<<"-pN">>, "parity", "N"), Opt(<<"-pn">>, "parity", "n"), Bad(<<"-pEE">>), Bad(<<"-pM">>),
      Opt(<<"--data-bits=7">>, "data-bits", "7"), Opt(<<"--data", "8">>, "data-bits", "8"),
      Opt(<<"--stop-bits", "1">>, "stop-bits", "1"), Opt(<<"--stop=2">>, "stop-bits", "2"),
      Bad(<<"--stop=12">>), Bad(<<"--data-bits=9">>),
      Opt(<<"-b", "38400">>, "baud", 38400), Opt(<<"-b14400">>, "baud", 14400),
      Opt(<<"--baud=0">>, "baud", 0), Opt(<<"-b", "-9600">>, "baud", -9600),
      Opt(<<"-d", "">>, "dev", ""), Opt(<<"--dev=b">>, "dev", "b") }

ServerRtu ==
    Around("rtu", { <<Opt(<<"-d", "ttyS0">>, "dev", "ttyS0"), Opt(<<"-b", "19200">>, "baud", 19200)>>,
                    <<Opt(<<"--baud=9600">>, "baud", 9600), Opt(<<"-d-">>, "dev", "-")>>,
                    <<Opt(<<"-b9600">>, "baud", 9600)>>, <<Opt(<<"-db9600">>, "dev", "b9600")>> },
           Serial \cup Flags \cup Junk)

Request(f) == <<Opt(<<"-a", "1.10">>, "addr", "1.10"), Opt(<<"-f", f[1]>>, "func", f[2]),
                Opt(<<"--reg=1">>, "reg", 1)>>
ClientOptionItems ==
    { Flag("-1", "base-1"), Flag("--base-1", "base-1"), Flag("--base", "base-1"),
      Opt(<<"-c", "125">>, "count", 125), Opt(<<"-c126">>, "count", 126),
      Opt(<<"-w", "0x1">>, "write", 1), Opt(<<"-w65536">>, "write", 65536), Opt(<<"-w", "-1">>, "write", -1),
      Cluster(<<"--write=1", "-w2", "-w", "0">>, <<<<"write", 1>>, <<"write", 2>>, <<"write", 0>>>>),
      Cluster(<<"-1vw", "1">>, <<<<"base-1", "">>, <<"verbose", "">>, <<"write", 1>>>>),
      Opt(<<"-o", "0">>, "timeout", 0), Opt(<<"--time=1500">>, "timeout", 1500),
      Opt(<<"-e", "0">>, "itf-delay", 0), Opt(<<"--itf=-1">>, "itf-delay", -1),
      Bad(<<"-a", "1.2.3">>), Bad(<<"-a0x1">>), Opt(<<"-a2">>, "addr", "2"), Opt(<<"-f3">>, "func", 3) }

ClientTcp ==
    Around("tcp", {Request(f) : f \in {<<"3", 3>>, <<"0x0F", 15>>, <<"6", 6>>, <<"16", 16>>, <<"7", 7>>}},
           ClientOptionItems \cup Flags \cup Junk
           \cup {Opt(<<"-p65535">>, "port", 65535), Opt(<<"-p", "0">>, "port", 0),
                 Opt(<<"--ip=10.1.1.1">>, "ip", "10.1.1.1")})
    \cup {<<Cmd("tcp"), Opt(<<"-a", a>>, "addr", a), Opt(<<"-r0">>, "reg", 0), Opt(<<"-f3">>, "func", 3)>> :
             a \in {"0", "247", "248", "1.247", "2.1", "007.008", "1.1", "1.248"}}

Bauds(n) == [i \in 1..n |-> Opt(<<"-b", "9600">>, "baud", 9600)]
ClientRtu ==
    Around("rtu", {Request(<<"3", 3>>) \o <<Opt(<<"-d", "a">>, "dev", "a")>> \o b :
                      b \in { <<Opt(<<"-b", "300">>, "baud", 300)>>,
                              <<Opt(<<"-b300">>, "baud", 300), Opt(<<"--baud", "600">>, "baud", 600)>> }},
           Serial \cup { Cluster(<<"-pO", "-p", "n">>, <<<<"parity", "O">>, <<"parity", "n">>>>),
                         Cluster(<<"-pe", "-pe", "-pe">>,
                                 <<<<"parity", "e">>, <<"parity", "e">>, <<"parity", "e">>>>) })
    \cup {<<Cmd("RTU")>> \o Request(<<"3", 3>>) \o <<Opt(<<"-d", "a">>, "dev", "a")>> \o Bauds(n) :
             n \in {0, 15, 16, 17}}

Bare ==
    { <<>>, <<Flag("--help", "help")>>, <<Flag("--HELP", "help")>>, <<Flag("-H", "help")>>,
      <<Flag("--Version", "version")>>, <<Flag("-v", "verbose")>>, <<Operand("udp")>>,
      <<Flag("-v", "verbose"), Cmd("tcp")>>, <<Flag("--help", "help"), Cmd("tcp")>>, <<Operand("tcpx")>> }

\* A dash at the end of a cluster, with other items before and behind it.
HangingLines ==
    {"modbuss"} \X {<<Cmd("tcp")>> \o before \o <<Bad(<<"-v-">>)>> \o behind :
                       before \in SeqOf(Flags \cup {Operand("x")}, 1),
                       behind \in SeqOf({Flag("--help", "help"), Operand("x")}, 1)}

MCLines ==
    {"modbuss"} \X (ServerTcp \cup ServerRtu \cup Bare) \cup HangingLines
    \cup {"modbusc"} \X (ClientTcp \cup ClientRtu \cup Bare)

-----------------------------------------------------------------------------
(* The values of modbusc's options.                                        *)

\* Strings of up to n of the characters.
RECURSIVE TextsOf(_, _)
TextsOf(chars, n) ==
    IF n = 0 THEN {""} ELSE LET shorter == TextsOf(chars, n - 1)
                            IN  shorter \cup {c \o t : c \in chars, t \in shorter}

AddressDigits == TextsOf({"0", "2", "4", "7", "8"}, 3) \ {""}

AllTexts == TextsOf({"0", "2", "7", ".", "x", "-", "+", " "}, 4) \cup AddressDigits
            \cup {a \o "." \o b : a \in AddressDigits, b \in TextsOf({"2", "4", "8"}, 3) \ {""}}

Defaults == [reg |-> 0, baseOne |-> FALSE, function |-> READ_HOLDING, count |-> 1, writes |-> 0,
             value |-> 0, timeout |-> 1000, delay |-> 200, tcp |-> TRUE, port |-> 502,
             baud |-> 9600]

Counts == {-1, 0, 1, 2, 123, 124, 125, 126, 1968, 1969, 2000, 2001}
Registers == {INT_MIN, -1, 0, 1, 2, 63536, 63537, 65411, 65412, 65413, 65534, 65535, 65536, 65537,
              INT_MAX}

MCArguments ==
    {[Defaults EXCEPT !.reg = r, !.baseOne = b, !.function = f, !.count = c] :
        r \in Registers, b \in BOOLEAN, f \in 0..7 \cup {15, 16, 23}, c \in Counts}
    \cup
    {[Defaults EXCEPT !.reg = r, !.baseOne = b, !.function = f, !.writes = w, !.value = v] :
        r \in Registers, b \in BOOLEAN, f \in {READ_COILS} \cup Writes, w \in Counts \ {-1},
        v \in {-1, 0, 1, 2, 65535, 65536}}
    \cup
    {[Defaults EXCEPT !.timeout = t, !.delay = d, !.tcp = k, !.port = p, !.baud = p] :
        t \in {-1, 0, 1, 999, 1000, 1250, INT_MAX}, d \in {-1, 0, 200}, k \in BOOLEAN,
        p \in {-1, 0, 1, 65535, 65536}}

MCValues == AllTexts \X {Defaults} \cup {"2"} \X MCArguments
=============================================================================
