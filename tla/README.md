# Verification of modbus-utils

`modbus-utils` is two command-line programs, `modbusc` (a Modbus client that sends one request
to each slave address of a range) and `modbuss` (a Modbus server on TCP or on a serial line),
built on a vendored libmodbus. This directory holds TLA+ models of the parts that carry logic,
TLC configurations that check them, and TLAPS proofs about them.

- [Inventory](#inventory): the system's parts
- [Models](#models): module by module, against the code
- [Runs](#runs): what TLC checks, with which bounds, under which fairness
- [Disagreements](#disagreements-between-the-code-and-what-is-said-of-it)
- [Proofs](#proofs)
- [Left out](#what-is-not-modelled) and [Plan](#plan)

## Inventory

| Component | State | Operations | Hard behaviour | What makes it correct |
|---|---|---|---|---|
| `modbuss` TCP loop, `run_tcp_server` in `src/modbuss.c` | `connections`, `ready`, `selected`, `socket_fd`, `highest_socket`, `stop_requested`, the socket in `ctx` | select, accept, receive, reply, close, clean up | one thread for all clients; descriptors reused in the middle of a pass; clients that stall, pipeline or leave; signals; EMFILE and `FD_SETSIZE` | the select set is the set of open sockets; every ready socket is visited; the thread waits only in `select`; one client's conduct hurts that client only; nothing leaks; a stop request ends it |
| `modbuss` RTU loop, `run_rtu_server` | `stop_requested`, `ctx_rtu->confirmation_to_ignore`, the receive buffer | open, receive, reply, close and open again | requests and answers of everybody on one line, not told apart; the flag outlives what it was set for; CRC errors in the middle of traffic | its own requests are heard and answered; it never speaks out of turn; it finds its place again after a rough time |
| argtable3, `arg_parse` in `src/argtable3/argtable3.c` | the words, `optind`, `place`, the block of operands skipped, counts and values of the entries, the number of errors | skip an operand, take an option or a letter of a cluster, offer a value, offer an operand, check what is missing | operands moved behind options in the middle of parsing; abbreviations; values that look like options; numbers in four bases with suffixes; a small backtracking matcher | what is written is what is read, in whatever order; every word is read once |
| `modbuss` command line, `main` | the argument tables, the values, the context | parse, limits on counts, ports, addresses, the context and mapping | defaults, two tables by command | it starts exactly with the settings written, or says why not |
| `modbusc` scan, `connect_and_process` and `process_requests` in `src/modbusc.c` | `successes`, address, serial setting, `ctx_tcp->t_id`, the descriptor, `ctx_rtu->old_tios` | open, set up, ask, receive, next address, close | late answers stay in the buffer; a lost connection is not made again; each step of the set-up may fail | an address is reported only if its slave carried out the request; no request is repeated; the exit status agrees with what was reported; the serial line is given back as it was found |
| `modbusc` command line, `main` | the argument tables, the values, a list of contexts | parse, checks in order, one context for each rate and parity | ends of ranges, `--base-1`, arithmetic on `int` | what passes can be sent, what can be sent passes; every pair of rate and parity once |
| `mbu-common` (`src/mbu-common.c`) | none | address ranges, timeouts | prefixes, overflow in `strtol` | a range is read as it is written |
| libmodbus framing, `_modbus_receive_msg` in `src/libmodbus/src/modbus.c` | `step`, `length_to_read`, `msg_length`, the timer | ask for the header, the fixed part, the counted part | arbitrary pieces, several frames in one piece, lying count bytes, silence | whole frames, one at a time, inside the buffer, and never for ever |
| libmodbus requests and confirmations | the request, the response | eleven `modbus_*` calls, `check_confirmation` | a timeout leaves the effect unknown; exceptions; packed bits | a call reads or writes all of its values at one moment |
| libmodbus replies and mapping, `modbus_reply` | four tables | one case per function code | ranges that end outside a table; bit packing; write and read in one | a refused request changes nothing |
| libmodbus TCP backend (`modbus-tcp.c`) | `t_id`, the socket | context, listen, connect with a timeout, accept, select, recv, flush, close, transaction identifier | header length never read | an answer is matched with its request |
| libmodbus RTU backend (`modbus-rtu.c`) | `confirmation_to_ignore`, the port and its settings | context, line settings, receive, CRC, flush, close | see the RTU loop | see the RTU loop |
| libmodbus TCP-PI, data helpers, Windows code, build files and tests | | | | see [Left out](#what-is-not-modelled) |

How they interact. `main` of either program parses its options (argtable3, `mbu-common`), then
runs one loop; everything is one thread per process, and the only asynchronous code is the
signal handler `request_stop`, which sets `stop_requested`. The loops call libmodbus, which
calls the backend through a table of functions (`select`, `recv`, `send`, `check_integrity`,
`pre_check_confirmation`, `flush`). Client and server share nothing but a byte stream, and a
serial line is shared with other slaves as well. So the concurrency is between the processes,
the kernel's queues, timers and signals, and the failures are those of lines and connections.
The hazards of this code, each with its line and the properties aimed at it, are listed in
`PROJECT.json` under `hazards`; those no property covers carry the reason.

## Models

| Module | What it models |
|---|---|
| `ModbussTcpServer` | `run_tcp_server` with the kernel's descriptor table and listen queue |
| `ModbusService` | abstract: what `modbuss tcp` promises, without descriptors and `select` |
| `ModbusPdu` | function codes, the length tables of the reader and the lengths of the writers |
| `ModbusFraming` | `_modbus_receive_msg` on a byte stream |
| `ModbussRtuServer` | `run_rtu_server` and `_modbus_rtu_receive` on a bus with a master and another slave |
| `ModbuscClient` | the scan of `modbusc`, with its connections and its slaves |
| `ModbusScan` | abstract: what a scan promises |
| `ModbusReply` | `modbus_reply` on the four tables (operators) |
| `ModbusExchange` | composes the request calls of several clients with one server's `modbus_reply` |
| `ModbusMemory` | abstract: four tables read and written atomically |
| `TRex`, `ArgTable` | argtable3's regular expressions, numbers and entries (operators) |
| `Getopt` | where `getopt_internal` has the words while it reads them, and `permute_args` |
| `ArgParse` | composes both into `arg_parse`, one action per option or operand |
| `ModbusContext` | the contexts `modbus_new_*` makes, and what the operating system is asked for |
| `ModbuscChecks` | the checks `modbusc` makes of its numbers, against the limits of the protocol |
| `ModbuscArguments` | how `--addr` is read (`mbu-common`), in the step that makes the checks |
| `CommandLine` | composes them into `main` of both programs, from `argv` to what is started |
| `CInts` | the ends of C's `int` and `uint16_t` |
| `MC...` | instances for TLC: constants and inputs |
| `Extrema`, `ModbussTcpServerProofs`, `ModbusFramingProofs`, `ModbussRtuProofs`, `ModbuscClientProofs`, `ModbusExchangeProofs`, `ModbuscChecksProofs`, `GetoptProofs` | theorems |

Some modules hold, in front of a definition, a second form of it marked "Mutant": the way a
plausible bug in that code would look. They are used by no specification; they are there to be
put in the place of the definition, which must then break the property `PROJECT.json` names.

### `ModbussTcpServer`

`pc` is where the thread is; each value stands for a place from which another actor can make a
difference. `BeginPass` is the loop test and the copy `ready = connections`; `EnterSelect` is
separate from it because a signal in between interrupts nothing. `SelectReturns` overwrites
`ready` and sets `selected`. `Visit` is the `for` loop's next ready descriptor with its
`selected--`, and `Resume` its `socket_fd++`. The four results of `accept` are four actions,
and the kernel's rule that the lowest free descriptor is handed out is kept, since descriptor
reuse within a pass depends on it. `modbus_receive` on a socket is one step for a whole frame
and two for a frame that comes in parts (`pc = "bytes"`), because only then is the thread held
by one client; what a frame is is a token. `modbus_reply` blocks in `send` while the client's
buffer is full, as on the blocking sockets the code uses, and `ReplyPurges` is the flush of
`response_exception`. `CloseSocket` is close, `FD_CLR` and the loop that lowers
`highest_socket`, in one step, as nothing can see it half done.
Clients outside `Good` do what they like: send anything of `Traffic`, hang up, connect again.
`Good` clients send whole requests and read their answers.

`ModbusService` says what this must amount to: a queue, a set of admitted clients and one frame
in hand. It never drops a client except for what that client did. The refinement maps `serving`
to the owner of the descriptor being read and `frame` to what `pc` and `request` say.

### `ModbusFraming`

A line is a row of frames; only the function code and the count byte of a frame are told apart,
all other bytes are `Filler`, so the positions are real byte positions while the data is left
out. `need`, `step` and `len` are `length_to_read`, `step` and `msg_length`; `AskFor` is the
code's re-arming of the timer with `byte_timeout`. `ReadPart` is a short `recv`. A call's first
wait has no limit for a server and `response_timeout` for a client. A failed call closes a
server's connection and lets a client go on, in the middle of the stream if it has to. `torn`
records that a call has been cut short, after which no framing can be promised.

### `ModbussRtuServer`

Whether a message is read with the right tables depends only on `confirmation_to_ignore` and on
what comes next, and `ModbusFraming` shows that right tables give whole messages. So the buffer
is a sequence of messages, and a message read with the wrong tables leaves an arbitrary rest,
takes some of the next message, or is discarded. A CRC is right or wrong. The environment is a
master, another slave and the cable, with two regimes. In the rough one anything goes: the
master gives up when it likes and asks again. In the calm one the master waits longer than the
server can be busy, and the other slave answers within `response_timeout` or not at all; noise,
broadcasts and unimplemented functions still occur. `Calm` turns a rough bus into a calm one.

### `ModbuscClient` and `ModbusScan`

One action per step of `process_requests`, with the loops around it in `Return` and `Advance`.
A connection is made in steps that may each fail: `Open` (a descriptor), then `SetLine`
(`tcgetattr` into `old_tios`, `tcsetattr`) or `StartConnect` and `Established` (`_connect` with
its `select`), and `SetUpFails` for every return of -1 after the descriptor is there. `main`
then only frees the context, so what a failing step does not close stays open; `Close` is
`modbus_close`, which alone puts `old_tios` back. Of the settings of the line, `tios` says only
whose they are: a setting of the run, or `AsFound`.
A slave's answer is a record of unit, transaction identifier and kind; it goes into `buffer`
whenever the slave gets to it, in time or not, and each request reads the first thing there.
`Matches` is `pre_check_confirmation` of the two backends, including the length 0 that makes
an answer after a broadcast fail. `Remaining` is what reading garbage leaves.
`asked`, `served`, `reported`, `timely` and `spoilt` are history variables; the first three
are the state of `ModbusScan`.

### `ModbusReply`, `ModbusExchange`, `ModbusMemory`

`Reply(req, m)` is `modbus_reply`: the response and the new mapping, with the checks of each
function code in the code's order. A byte is the set of its bits, so that shifts and masks are
set operations and packing is checked for what it does. `Request` and `Returned` are the request
functions of libmodbus around the exchange: what they send and what they make of the response
(`check_confirmation`, `read_io_status`, `read_registers`). In `ModbusExchange` several clients
call, give up (`GiveUp`: the request may be lost, or carried out later by `ServeOld`) and call
again, next to a stranger that sends requests libmodbus would not build. `ModbusMemory` promises
that each call takes effect at one moment between its call and its return.

### `TRex`, `ArgTable`, `Getopt`, `ArgParse`

`TRex` compiles a pattern to the nodes the C code links and matches with its strategy, which is
greedy with one look ahead and not a search of all alternatives: whether `^(7|8)$` or the
pattern of `--addr` accepts a text is computed, not assumed. `ArgTable` has the four kinds of
entry the programs use and what each makes of a value: `arg_int_scan` tries `0x`, `0o` and `0b`
before decimal, then a suffix `KB`, `MB` or `GB`, and refuses what does not fit an `int`. A
number that has left the range of an `int` is only known not to fit. Numbers are kept below
zero while their digits are added up, as TLC's integers are 32 bits wide.

`Getopt` is `getopt_internal` without what the words say: `argv`, `optind`, `place`,
`nonopt_start` and `nonopt_end` are the C variables, `SkipOperand`, `FetchOption`, `DashDash` and
`EndOfWords` the four ends of its search for the next option, and `ReadOn` what every option does
to `place` and `optind`. `permute_args` and `gcd` are the C loops, as functions of the number of
turns made: the words move cycle by cycle, as in the code. `written`, `order` and `taken` are
history: the words as they were given, where each stood, and which were read as options or their
values. `GetoptSpec` reads any words in any way that respects this.

`ArgParse` is `arg_parse`: the four actions of `Getopt` with what each asks of the word
(`NoWordIsLeft`, `WordIsDashDash`, `WordIsOperand`, `WordIsOption`), and one action for each thing
an option can be. Then `OfferOperand` and `LeftOver` are `arg_parse_untagged`, and
`arg_parse_check` the end. Of an error only the number registered is kept, with the limit of 20.

### `ModbusContext`, `ModbuscChecks`, `ModbuscArguments`, `CommandLine`

`ModbusContext` has the constructors' refusals, the flags and speed `_modbus_rtu_connect` asks for
(an unknown rate becomes 9600), and what `modbus_tcp_listen` binds (every interface, if the text
begins with a zero). In `ModbuscChecks`, `Verdict` is the checks of `modbusc` in order, with the
widths of `int` and of the 16-bit fields, and `CheckRange` the step that makes them; `ChecksSpec`
is that step alone, for any options and any range. `ModbuscArguments` adds how the range is read:
`mbu_parse_address_range` is `strtol` and its callers over the text. The two are apart because the
checks are about numbers, which can be proved about, and the reading is about texts, which cannot.
`CommandLine` has the two programs' tables, the shortcuts `main` takes before it parses, the
parsing, and what it makes of the result: help, version, errors, a refusal, or contexts.

A line for TLC is a sequence of items. An item has its words, and apart from them what its
author means: which option, which value, well formed or not. The programs see the words only;
the properties compare what came of them with what was meant.

## Runs

| Run | States | Depth | Time | Question | Answer |
|---|---|---|---|---|---|
| `tcp_serving` | 292,610 | 51 | 12 s | with everything a stream can carry, does the loop serve as `ModbusService` says, keep good clients, and wait only in `select`? | yes |
| `tcp_fdset` | 693,564 | 55 | 11 s | with three clients and few descriptors, are select set, `highest_socket`, `selected` and the connection table kept right? | yes |
| `tcp_live` | 343,770 | 58 | 52 s | are good clients answered, the queue emptied, stop requests honoured once anything happens? | yes |
| `tcp_stop` | | | | does a stop request always end the server? | **no** |
| `framing` | 221,862 | 139 | 24 s | whole frames, inside the buffer, in finite time, for every function code and any delivery? | yes |
| `rtu_bus` | 106,010 | 18 | 12 s | on a calm bus, is every request heard and answered and nothing said out of turn; does it recover from a rough one; does it end? | yes |
| `rtu_ignore` | | | | is only a confirmation ever ignored, on any bus? | **no** |
| `scan` | 326,840 | 31 | 21 s | does a scan keep the promise of `ModbusScan`, on TCP and RTU, give the line back, whatever fails, and end? | yes |
| `scan_late` | | | | does the exit status count a slave that answered in time, after another answered late? | **no** |
| `exchange` | 81,177 | 23 | 70 s | are calls and server together an atomic memory, with malformed requests and abandoned calls? | yes |
| `arguments` | 546,864 | 59 | 45 s | is a command line read as it is written, does the program start exactly then and with those settings, and are the limits those of the protocol, neither wider nor narrower? are options and operands each left in their order? do the parts do what the proofs about them assume? | yes |
| `arguments_hang` | | | | does every command line come to an end? | **no** |

(Distinct states; two workers.)

### Bounds, and why they are enough

- `tcp_*`: the loop's state about a client is whether it is queued, on a descriptor, readable or
  gone, so two clients (one good, one not) already give every interaction of two, and the third
  in `tcp_fdset` and `tcp_live` lets one descriptor be closed between two others and be reused.
  `Listener = 1` leaves a foreign descriptor below it and `MaxFd` 3 or 4 leaves two or three for
  clients, so that EMFILE happens with three clients; `FdSetSize = 4` rejects descriptor 4, while
  `FdSetSize = 5` leaves EMFILE as the only limit. `Backlog = 2` lets accept leave the listener
  readable. `InCap` (requests waiting in one socket) is 2 where pipelining matters, and a socket
  of capacity 1 still fills; `OutCap = 1` makes `send` block. `Traffic` is every token in
  `tcp_serving`; `tcp_fdset` and `tcp_live` use fewer tokens and more clients. In `tcp_fdset` the
  two faulty clients are interchangeable, which the symmetry uses (it checks no liveness).
- `framing`: every function code both directions know, with the smallest and the largest number
  of values, on both backends, in front of another frame; and frames whose count byte lies, at
  0, 255 and both sides of the buffer's limit. A delivery ends at, or 1, 8 or 13 bytes from, an end of
  a frame (`Breaks`): inside the header, between each two parts, and one byte short. The proofs
  do without these bounds.
- `rtu_bus`: `MaxBuffer = 2` messages wait unread, so the one being misread can take some of the
  next; a rest is misread at most `MaxResidue = 2` times. A master has one request outstanding.
- `scan`: two serial settings, three addresses starting with the broadcast, each slave absent,
  good or refusing. `MaxTid = 3` is the least that keeps the identifiers of one connection
  apart, as 65535 does with at most 248 requests; `MaxServed = 2` is one more than the promise
  allows, so that breaking it would be seen.
- `exchange`: nine bits, so that a byte fills and a second begins, and two registers; tables
  that start at address 1, so that addresses exist on both sides of them. The six limits of
  `modbus.h` are six constants here, in the order of the real ones but scaled to the tables
  (`WrWriteLimit` is below what the table holds, so that a write of addresses that are all there
  is too long; the real ones are in `framing` and `arguments`, and within the proofs' assumption).
  One abandoned request is with the server at a time. `OneFamily` keeps bits and registers out
  of one behaviour, since no request touches both. The clients are symmetric.
- `arguments`: for `modbuss tcp`, every pair of items of a menu (each option in each of its
  spellings, numbers in every base and suffix and at both ends of an `int`, texts that are no
  numbers, flags, clusters, abbreviations that are unique, ambiguous or exact, unknown options,
  operands, `--`), and all lines of up to five items that move operands about, which gives
  blocks of every length with and without a common divisor. For the other three tables what is
  required in several forms, with an item before it and one behind; values missing at the end of
  a line; the 20 errors of the limit; 16 rates and one more. For the checks of `modbusc` alone:
  all texts of up to four characters from eight, all numbers and ranges of up to three digits
  over some digits, and the other options at each end of each limit.

### Fairness

- TCP: `WF(ServerStep)`, as one thread runs the loop and nothing but `select` and `send` blocks
  it (both are guards), and `WF(ReadAnswer(c))`: clients read their answers. The second is an
  assumption on clients, needed because `send` has no timeout (a hazard without a property). A
  signal, a failing `select` and everything else clients do is never forced.
- Framing: the thread runs and `select`'s timer expires; neither the peer's bytes nor a reset
  need come.
- RTU: the server runs, a wait of the master and the other slave's answer come to an end. The
  master need not ask, a bus need not become calm (`Resyncs` supposes that it does).
- Scan: the client runs and its timeout expires; no slave need answer.
- Command lines: nothing is needed for safety; `arguments_hang` supposes that the program runs
  (`WF(Next)`), as nothing in parsing waits. That parsing ends otherwise is stated in `arguments`
  as a step property, `ReadsOn`: each step leaves less of the words to be read.

Deadlock is checked in the `tcp` runs on behaviours that may go on (a server that has returned
stutters by `Returned`). The other runs say `CHECK_DEADLOCK FALSE`: their systems really stop,
when the scan has ended, the RTU server has returned, the stream has been read and
closed, the command line has been dealt with; in `exchange` the constraint ends behaviours.

## Disagreements between the code and what is said of it

1. **A stop request can be missed** (`tcp_stop`, `src/modbuss.c:119-121`). The loop tests
   `stop_requested` and then calls `select` without a timeout; a SIGTERM handled in between sets
   the flag and interrupts nothing, so an idle server stays. `src/tests/tcp-loopback.sh:66-67`
   sends SIGTERM and waits. `tcp_live` shows that this is the only gap, and that any socket
   becoming readable closes it.
2. **A request can be taken for an answer** (`rtu_ignore`,
   `src/libmodbus/src/modbus-rtu.c:296`). After a request for another slave, whatever comes
   within `response_timeout` is discarded, while `src/libmodbus/NEWS:306` says that
   confirmations from other slaves are. A master that gives up on an absent slave sooner than
   that loses its next request to this server. `rtu_bus` shows that a patient master does not.
3. **A slave that answered in time may not count** (`scan_late`,
   `src/libmodbus/src/modbus.c:1305`). `src/README.md:139-141` says that the exit status is
   nonzero if no slave responded successfully. Every request reads one message; once one answer
   is late, each later request reads the answer before its own and fails, to the end of the
   scan. `scan` shows that no address is ever reported wrongly by this.

4. **Some command lines are never done with** (`arguments_hang`,
   `src/argtable3/argtable3.c:1832`). After a cluster of short options that ends in a dash, as in
   `modbuss tcp -v-`, the parser reports a malformed option without leaving the word, and finds
   it again for ever, while `src/README.md:139` says that the programs return nonzero for
   invalid arguments. `ReadsOn` shows that it is the only such case among the lines modelled.

What else reads differently than one may expect, and contradicts no document: after a prefix
`strtol` takes a sign and a prefix of its own, so `--count=0x-5` is -5 and `0x0x10` is 16; a baud
rate without a constant in `termios.h` is accepted and becomes 9600; a server address that begins
with a zero, such as `0177.0.0.1`, binds every interface.

A related observation, in the hazards: an idle RTU server is not stopped by SIGTERM until the
next message, as `_modbus_rtu_select` calls `select` again after `EINTR`; `Ends` is stated with
that in mind.

## Proofs

TLAPS checks, for all values of the constants that meet the named assumptions:

| Theorem | Module | States |
|---|---|---|
| `LoopInvariance` | `ModbussTcpServerProofs` | the inductive invariant `LoopInv` |
| `TypeCorrect`, `SelectSetCorrect`, `HighestCorrect`, `PassCorrect` | same | `TypeOK`, `SelectSetIsOpenSet`, `HighestIsMax`, `PassIsExact` |
| `TableCorrect`, `NeverBlocks`, `NoLeak` | same | `ConnectionTable`, `NeverWaitsOnIdle`, `NothingLeaks` |
| `GoodInvariance`, `IsolationCorrect` | same | the inductive invariant `GoodInv`, `GoodClientsKept` |
| `FreshInvariance`, `ServiceRefinement` | same | the inductive invariant `FreshInv`, `ImplementsService`: the loop implements `ModbusService` |
| `FramingTypeCorrect` | `ModbusFramingProofs` | `TypeOK`, for any frames and deliveries |
| `BufferSafe` | same | `InBuffer`, whatever the count bytes say |
| `FramesWhole` | same | `WholeFrames`, for every function, number of values and delivery |
| `BusInvariant`, `BusTypes` | `ModbussRtuProofs` | the inductive invariant `BusInv`, `TypeOK` |
| `CalmRequestsHeard`, `CalmTalksInTurn`, `CalmNothingMissed` | same | `RequestsHeardWhenCalm`, `TalksInTurn`, `NothingMissed` |
| `ScanInvariant`, `ScanTypes` | `ModbuscClientProofs` | the inductive invariant `ScanInv`, `TypeOK` |
| `LineRestored` | same | `LineGivenBack` |
| `CalmScanReports` | same | `OnlyLateAnswersHurt` |
| `ScanKeepsPromise` | same | `ImplementsScan`: the scan implements `ModbusScan` |
| `ExchangeInvariance`, `ExchangeTypeCorrect` | `ModbusExchangeProofs` | the inductive invariant `ExchangeInv`, `TypeOK` |
| `MemoryRefinement` | same | `ImplementsMemory`: calls and server together implement `ModbusMemory` |
| `ChecksInvariance` | `ModbuscChecksProofs` | the inductive invariant `ChecksInv` |
| `AcceptedCorrect`, `TurnedDownCorrect` | same | `AcceptedIsSendable`, `SendableIsAccepted`, for any integers |
| `GcdCorrect` | `GetoptProofs` | `gcd` is the greatest common divisor |
| `PermuteExchangesBlocks` | same | `permute_args` exchanges two blocks of any lengths, and nothing else |
| `ReadingInvariance` | same | the inductive invariant `ReadingInv` |
| `WordsKeepOrder` | same | `BlocksKeepOrder`, for command lines of any length |

**Assumptions.** `ClientAssumption` (the good clients are clients, traffic is tokens),
`FdAssumption` (descriptors are naturals, the listener is one that fits `select`),
`BoundAssumption` (the queues hold something; on the serial bus, the buffer does). For the framing
`Assumption`: the backends are the two of the library, frames lie end to end, the rest of the
bytes is a byte. For the scan `RangeAssumption`: there is a setting, the range is not empty, and
the identifiers of one connection do not wrap (at most 248 requests, 65536 identifiers). For the
exchange `MappingAssumption` (tables of any size at any start; each of the six limits is anything
from one to libmodbus's own value, so 2000 and 1968 bits and 125, 123, 121 and 125 registers are
covered), `CallAssumption` (a call is one of libmodbus's functions, with as many values as it
says), `MalformedAssumption` (the requests of the stranger, which libmodbus would not build, are
ones to which the protocol gives no effect: no write, or one that is too long or contradicts
itself) and
`InitialAssumption` (the tables begin with values of their width). The checks and the words of
a command line need none. TLC evaluates them in the runs.

**The select loop.** None of the listed invariants is inductive. `PassIsExact` (`selected` counts
the ready descriptors ahead, and each is still watched) needs, when `select` returns, that the
snapshot handed to it is a copy of the select set (`ReadyIsWatched`); when accept hands out a
descriptor, that a ready one ahead is open and so not free, which is `SelectSetIsOpenSet`; and
when a socket is closed, that it is the one being served, hence behind the scan
(`VisitIsWatched`). Lowering `highest_socket` needs that the listener, the lowest of the watched
descriptors, is still there (`ListenerOpen`).
`LoopInv` is their conjunction, and the proof has one step per action. `ShrinkFindsMax` is the
lemma about the loop that lowers `highest_socket`; `Extrema` derives least and greatest elements
of sets of naturals from well-founded induction. To it is added that no client is
in two places (`ConnectionTable`, with lemmas about queues without repetition) and that what
`select` reported readable stays so until it is visited (`ReadyStaysReadable`), as only the
server itself takes from an inbox; this gives `NeverWaitsOnIdle`, the property the single
thread depends on, and with `SelectSetIsOpenSet` and `HighestIsMax` that the final loop closes
everything.

**Isolation and the service.** `GoodClientsKept` is about steps: it follows from `GoodInv`, which
says that all a good client has sent are whole plain requests, and that the states in which the
server waits for the rest of a frame or closes a connection (`bytes`, `close`) are never about
one. `ServiceRefinement` takes the groups of actions one by one: accepting is `Admit` or
`Refuse`, or a stutter where the code only prints; reading is `Take`, `Complete` or `GiveUp`;
replying `Answer` or `Purge`; closing
`Drop`, and the final loop `End`; and `select`, the walk over the descriptors and
signals are stutters. It needs `LoopInv` to know that the descriptor being served has an
owner, `ConnectionTable` that this client is in no other place, and `FreshInv` that a client
without a connection has nothing left in either direction, as closing must have cleared it.

**The framing.** `LineInv` says what each `step` has asked for (`Asked`) and that the message lies
in what has arrived (`Shape`, `Behind`); it gives `BufferSafe` with no assumption on what the peer
sends, and with `Answered` (the last result and the timer) `FramingTypeCorrect`. `FramesWhole`
adds `OnTrack`: until a timeout or a frame libmodbus does not build, each call begins where a
frame begins, and what is read and still needed stays within it. The lemmas `TablesAgree` (the
reader's tables give the writers' lengths, for every function code, direction and number of
values) and `PduFits` carry it.

**The serial bus.** That no request is taken for a confirmation is not inductive: it hangs on where
`confirmation_to_ignore` stands in the stream. `LineInv` says what the buffer can hold on a calm
bus: foreign requests, each followed by its answer, begun by a lone answer exactly if the flag is
set, and at the end at most one request more, the one the master waits on (or what a misread noisy
one has left, alone). `WaitInv` says where that request is at each `pc`, and that the other slave
still owes an answer only while the flag waits for it or the request is in the buffer; this is what
makes it safe that a confirmation is given up after `response_timeout`. `HeadIsOut` follows: a
request the server takes is the only message waiting, so nothing is lost by the purge of
`response_exception` or by closing the port, and `MissInv` (the master is not left waiting) is
kept. Every part is claimed for a calm bus only; a rough one is left to `Resyncs`.

**The scan.** `ScanInv` has seven parts, each with a lemma that every step keeps it.
`DeviceInv` says what is open and whose settings the line has at each `pc`; `LineGivenBack` is
the part of it a user sees. `OrderInv` puts the requests made before the next one, in the order
of `ModbusScan!Before`, and ties `t_id` to the address: on a connection `t_id` is the number of
requests made, which is why no identifier comes twice. `ServeInv` says that a slave works on a
request once and has not carried it out, so that a late one is not a second one; on TCP
its identifier is that of its unit, on RTU it was asked with the slaves' own setting.
`BufferInv` follows: a good answer in the buffer that matches the current request by identifier
(TCP) or address (RTU) comes from that slave, and that slave has carried out *this* request. This is
what `AReport` of `ModbusScan` needs. `CountInv` relates `successes` and main's total to what
was reported (a cardinality, for `TypeOK` and the exit status). `CalmInv` says that while nothing
has gone wrong on the line the buffer holds at most the answer being waited for. The refinement
is the identity on `asked`, `served`, `reported` and `exit`: `Ask` is `AAsk`, `Serve` is `AServe`
or a stutter (an exception), `Receive` is `AReport` or a stutter, the last return of a setting is
`AFinish`, every other step is a stutter.

**The exchange.** The core is `CallIsExact`: for any mapping and any call, what `modbus_reply`
does with the request the call builds, and what the call makes of the response, is `Effect` and
`Outcome` of `ModbusMemory`. There is a lemma for each function code (`ReadBitsExact` to
`WriteAndReadExact`), with a case for what the tables allow and one for the exception, and under
them the lemmas about bytes: `PackedBit` and `SentBit` (bit `k` is at place `k % 8` of byte `k
\div 8`, on both sides), `WordsReturned` and `WordsStored`. `ExchangeInv` says that the tables
keep their sizes and widths, and that what a client has on the wire is its own request as it was
built or an answer no longer than a PDU. The refinement maps a served request to the moment of its
effect; the abandoned ones are carried out later or never, as `ModbusMemory` allows, and the
requests of the stranger are shown to leave every table alone.

**The checks.** `ChecksInv` says that the verdict is still the one that the options and the range
deserve. `AcceptedCorrect` then goes through the checks that passed, and `TurnedDownCorrect`
through the one that did not, which must be the count's or the range's. The theorems are about
`ChecksSpec`, with any integers; that `modbusc` makes its checks as `ChecksSpec` does, once and on
numbers, however the line is parsed, is `ImplementsChecks`, a part of `ImplementsParts`, which TLC
checks on the command lines of `arguments`.

**The words of a command line.** `permute_args` moves the words in as many cycles of
swaps as the blocks' lengths have a greatest common divisor. The provers know neither that
a loop's function exists nor induction with a predicate, so both are derived from the least
element of a set of naturals: `Counting` for a set, `Iteration` for a sequence of steps
(`EuclidTurns`, `CycleTurns` and `AllInCycles` apply it to the three loops). `GcdCorrect`: a turn
of Euclid's keeps the common divisors and the sums of multiples (`EuclidStepKeeps`), and `b` turns
are enough as the remainders fall. With the lengths `a` and `b`, `n = a + b` and
`L = n \div gcd(a, b)`, a cycle walks the places `cstart + k * b` modulo `n`; since the gcd is a
sum of multiples of the lengths, it comes back after `L` steps and not before, and has then been
at all places that agree with `cstart` modulo the gcd (`PartsOfLengths`, `WalkIsCircle`). Each swap
carries a word one step along it (`OneTurn`, `CycleMoves`, `OneCycle`); the gcd's number of cycles
leaves no place out, and this is `PermuteExchangesBlocks`.
`BlocksKeepOrder` is about the last step only. `ReadingInv` says what is so at every word before:
the words read as options stand in front of `optind` in their order, but for one block of operands
in theirs, from `nonopt_start` to `nonopt_end` (or to `optind`, if no option came after it), and the
words ahead are untouched. Reading an option adds to the one (`ReadOption`), skipping an operand
to the other (`ReadOperand`), and a permutation moves the block up to `optind` (`MoveOperands`).
That `arg_parse`, with all it makes of the words' texts, reads as `GetoptSpec` does, is the other
half of `ImplementsParts`, which TLC checks.

**Only model-checked.** All liveness properties (`GoodClientsAnswered`, `BacklogDrains`,
`StopNeedsOneEvent`, `ReceiveEnds`, `Resyncs`, `Ends`, `ScanEnds`), which are beyond the prover;
and the properties of `ArgParse`, `ModbuscArguments` and `CommandLine` (`TypeOK`, `RangeAsWritten`,
`ImplementsParts`, `ReadsOn`, `OperandsKeepOrder`, `ReadAsWritten`, `StatusTellsTruth`,
`SettingsAsWritten`): they reach RECURSIVE operators (a matcher, `strtol`), and the characters of
a string mean nothing to the provers. `OperandsKeepOrder` says of the lines of `arguments`, whose
items are known, that the words `BlocksKeepOrder` calls options are the ones written as options.
On a rough bus `Resyncs` alone says something.

## What is not modelled

- **The error recovery modes** of libmodbus (`modbus_set_error_recovery`): neither program
  enables them. `modbus_report_slave_id` and raw requests as a client: not called.
- **TCP-PI, the float and single-bit data helpers, `mbu_parse_int`**: used by neither program.
- **Windows code**: other system calls behind the same interface.
- **CRC computation, RTS and RS-485, socket options, name resolution**: a CRC is right or wrong;
  the programs leave RTS off; of the steps of a set-up it matters that each may fail.
- **Of argtable3**: the texts of help and errors, the kinds of entry no table has (`arg_dbl`,
  `arg_date`, `arg_file`), `arg_cmd`, dynamic strings, and the constructs of its regular
  expressions no pattern uses. Allocation failures end the programs at once.
- **Build files, the release workflow and the tests**: read as statements of what the code should do.

## Plan

In this order, most important behaviour first; what is done is marked.

1. *(done)* `ModbussTcpServer` with `ModbusService`; its invariants, refinement, liveness.
2. *(done)* `ModbusPdu`, `ModbusFraming`; invariants and liveness.
3. *(done)* `ModbussRtuServer`, resting on the framing.
4. *(done)* `ModbuscClient` with `ModbusScan`.
5. *(done)* `ModbusReply`, `ModbusExchange` with `ModbusMemory`.
6. *(done)* `ModbuscArguments` with `mbu-common`; argtable3 in `TRex`, `ArgTable`, `Getopt`, `ArgParse`;
   both programs' command lines in `CommandLine`, down to the contexts of `ModbusContext`.
7. *(done)* Connection set-up and closing in `ModbuscClient`.
8. *(done)* Proofs of the select loop's and the framing's invariants, and of the scan with its
   refinement, of the serial bus while it is calm, and of the checks of `modbusc`.
9. `modbus_tcp_listen` as steps of its own before `ModbussTcpServer`'s loop.
10. A system module that composes the scan with the TCP server, so that the slaves' answers in
    `ModbuscClient` come from `ModbussTcpServer` and its delays.
11. *(done)* Proofs of `ImplementsService`, and of `ImplementsMemory` from a lemma per function
    code of `modbus_reply`.
12. *(done)* A proof that the mapping keeps its type under `Reply`.
13. *(done)* The stepping of `getopt_internal` apart from the texts it compares, in `Getopt`, with
    proofs that `permute_args` exchanges blocks of any lengths and that no word loses its order.
