-------------------------- MODULE ModbussTcpServer --------------------------
(***************************************************************************)
(* The event loop of `modbuss tcp` (run_tcp_server in src/modbuss.c): one  *)
(* thread that multiplexes a listener and its client sockets with select, *)
(* and serves each ready socket to completion before it looks at the next. *)
(*                                                                         *)
(* The descriptor table, the select set, the snapshot `ready`, the count   *)
(* `selected` and `highest_socket` are kept exactly; the bytes of a frame  *)
(* are abstracted to what the loop can tell apart (see Token).             *)
(***************************************************************************)
EXTENDS Integers, FiniteSets, Sequences

CONSTANTS
    Client,     \* the peers; each holds at most one connection at a time
    Good,       \* the clients that only send whole, answerable requests
    NoClient,   \* owner of a descriptor that is not a client socket
    Listener,   \* descriptor returned by modbus_tcp_listen
    MaxFd,      \* largest descriptor the process may own
    FdSetSize,  \* FD_SETSIZE
    Backlog,    \* MAX_CONNECTIONS, the listen() backlog
    Traffic,    \* the tokens the other clients send
    InCap,      \* bound: tokens a socket's receive buffer holds
    OutCap      \* bound: answers a socket's send buffer holds

-----------------------------------------------------------------------------
(* What arrives on a connection.                                           *)
(*   "plain"  a whole request that modbus_reply answers                    *)
(*   "purge"  a whole request answered by an exception with to_flush       *)
(*   "fatal"  a whole request for which modbus_reply returns -1 (FC 0x07)  *)
(*   "head"   the first bytes of a frame                                   *)
(*   "tail"   the bytes that complete a frame, or stray bytes if no frame  *)
(*            is under way                                                 *)
Kind  == {"plain", "purge", "fatal"}
Token == Kind \cup {"head", "tail"}

(* Descriptors below the listener were open when socket() chose the lowest *)
(* free one for it; the server never closes them.                          *)
Fd       == 0..MaxFd
ClientFd == (Listener + 1)..MaxFd

ASSUME ClientAssumption == /\ Good \subseteq Client
                           /\ NoClient \notin Client
                           /\ Traffic \subseteq Token
ASSUME FdAssumption == /\ Listener \in Nat
                       /\ MaxFd \in Nat
                       /\ FdSetSize \in Nat
                       /\ Listener < FdSetSize
                       /\ Listener <= MaxFd
ASSUME BoundAssumption == /\ Backlog \in Nat \ {0}
                          /\ InCap \in Nat \ {0}
                          /\ OutCap \in Nat \ {0}

VARIABLES
    \* run_tcp_server
    pc,           \* where the thread is
    stop,         \* stop_requested
    status,       \* return value
    connections,  \* fd_set connections
    ready,        \* fd_set ready
    selected,     \* descriptors select reported and the scan has not visited
    fd,           \* socket_fd
    highest,      \* highest_socket
    request,      \* request in the query buffer
    \* the operating system
    listening,    \* the listener is open
    owner,        \* client socket open on each descriptor
    backlog,      \* connections the kernel completed and nobody accepted
    peer,         \* the client's end of its connection
    inbox,        \* received, not yet read
    outbox        \* sent, not yet read by the client

serverVars == <<status, connections, ready, selected, fd, highest, request>>
netVars    == <<listening, owner, backlog, peer, inbox, outbox>>
vars       == <<pc, stop, serverVars, netVars>>

Place == {"loop", "enter", "select", "interrupted", "scan", "accept",
          "receive", "bytes", "reply", "close", "cleanup", "returned"}

\* The type of each variable.
TypeOK ==
    /\ pc \in Place
    /\ stop \in BOOLEAN
    /\ status \in {0, -1}
    /\ connections \subseteq Fd
    /\ ready \subseteq Fd
    /\ selected \in Nat
    /\ fd \in 0..(MaxFd + 1)
    /\ highest \in Listener..MaxFd
    /\ request \in Kind
    /\ listening \in BOOLEAN
    /\ owner \in [ClientFd -> Client \cup {NoClient}]
    /\ backlog \in Seq(Client)
    /\ peer \in [Client -> {"none", "up", "fin"}]
    /\ inbox \in [Client -> Seq(Token)]
    /\ outbox \in [Client -> 0..OutCap]

-----------------------------------------------------------------------------
(* Descriptors                                                             *)

FreeFd  == {f \in ClientFd : owner[f] = NoClient}
OpenFd  == {f \in ClientFd : owner[f] # NoClient}
            \cup (IF listening THEN {Listener} ELSE {})

\* A connection is accepted and on a descriptor, or waits to be.
Admitted(c) == \E f \in ClientFd : owner[f] = c
Queued(c)   == \E i \in 1..Len(backlog) : backlog[i] = c

\* What select(2) reports as readable.
Readable(f) ==
    \/ f = Listener /\ backlog # <<>>
    \/ /\ f \in ClientFd
       /\ owner[f] # NoClient
       /\ inbox[owner[f]] # <<>> \/ peer[owner[f]] = "fin"

\* The connections of clients cs no longer exist.
Forget(cs) ==
    /\ peer'   = [c \in Client |-> IF c \in cs THEN "none" ELSE peer[c]]
    /\ inbox'  = [c \in Client |-> IF c \in cs THEN <<>> ELSE inbox[c]]
    /\ outbox' = [c \in Client |-> IF c \in cs THEN 0 ELSE outbox[c]]

\* Mutant: highest_socket is lowered once, as if only the last socket closed.
ShrinkByOne(open) == IF highest > Listener THEN highest - 1 ELSE highest

\* Where the loop over highest_socket stops when `open` is the select set.
ShrinkHighest(open) ==
    CHOOSE h \in Listener..highest :
        /\ h = Listener \/ h \in open
        /\ \A g \in (h + 1)..highest : g \notin open

Init ==
    /\ pc = "loop"
    /\ stop = FALSE
    /\ status = 0
    /\ connections = {Listener}
    /\ ready = {}
    /\ selected = 0
    /\ fd = 0
    /\ highest = Listener
    /\ request = "plain"
    /\ listening = TRUE
    /\ owner = [f \in ClientFd |-> NoClient]
    /\ backlog = <<>>
    /\ peer = [c \in Client |-> "none"]
    /\ inbox = [c \in Client |-> <<>>]
    /\ outbox = [c \in Client |-> 0]

-----------------------------------------------------------------------------
(* The select loop                                                         *)

\* Mutant: the loop does not look at stop_requested.
BeginPassForEver ==
    /\ pc = "loop"
    /\ pc' = "enter"
    /\ ready' = connections
    /\ UNCHANGED <<stop, status, connections, selected, fd, highest, request, netVars>>

\* while (!stop_requested) { fd_set ready = connections;
BeginPass ==
    /\ pc = "loop"
    /\ pc' = IF stop THEN "cleanup" ELSE "enter"
    /\ ready' = IF stop THEN ready ELSE connections
    /\ UNCHANGED <<stop, status, connections, selected, fd, highest, request, netVars>>

\* The thread enters the kernel: from here on a signal interrupts the wait.
EnterSelect ==
    /\ pc = "enter"
    /\ pc' = "select"
    /\ UNCHANGED <<stop, serverVars, netVars>>

\* select has no timeout: it returns when a watched descriptor is readable.
SelectReturns ==
    LET r == {f \in ready : f <= highest /\ Readable(f)} IN
    /\ pc \in {"select", "interrupted"}
    /\ r # {}
    /\ pc' = "scan"
    /\ ready' = r
    /\ selected' = Cardinality(r)
    /\ fd' = 0
    /\ UNCHANGED <<stop, status, connections, highest, request, netVars>>

\* errno == EINTR && stop_requested: only request_stop is installed, so an
\* interrupted wait finds the flag set.
SelectInterrupted ==
    /\ pc = "interrupted"
    /\ pc' = "cleanup"
    /\ status' = IF stop THEN status ELSE -1
    /\ UNCHANGED <<stop, connections, ready, selected, fd, highest, request, netVars>>

\* Any other failure of select (EBADF, ENOMEM) ends the server.
SelectFails ==
    /\ pc \in {"select", "interrupted"}
    /\ pc' = "cleanup"
    /\ status' = -1
    /\ UNCHANGED <<stop, connections, ready, selected, fd, highest, request, netVars>>

\* Mutant: FD_ISSET tests the select set and not the answer of select.
UnvisitedConnections == {f \in connections : fd <= f /\ f <= highest}

\* The descriptors the scan has still to visit.
Unvisited == {f \in ready : fd <= f /\ f <= highest}

\* Mutant: the listener's visit is not counted.
VisitUncounted ==
    /\ pc = "scan"
    /\ selected > 0
    /\ \E f \in Unvisited :
          /\ \A g \in Unvisited : f <= g
          /\ fd' = f
          /\ pc' = IF f = Listener THEN "accept" ELSE "receive"
          /\ selected' = IF f = Listener THEN selected ELSE selected - 1
    /\ UNCHANGED <<stop, status, connections, ready, highest, request, netVars>>

\* The scan reaches the next ready descriptor.
Visit ==
    /\ pc = "scan"
    /\ selected > 0
    /\ \E f \in Unvisited :
          /\ \A g \in Unvisited : f <= g
          /\ fd' = f
          /\ pc' = IF f = Listener THEN "accept" ELSE "receive"
    /\ selected' = selected - 1
    /\ UNCHANGED <<stop, status, connections, ready, highest, request, netVars>>

PassEnds ==
    /\ pc = "scan"
    /\ selected = 0 \/ Unvisited = {}
    /\ pc' = "loop"
    /\ UNCHANGED <<stop, serverVars, netVars>>

\* The scan's socket_fd++.
Resume ==
    /\ pc' = "scan"
    /\ fd' = fd + 1

-----------------------------------------------------------------------------
(* accept: the kernel hands out the lowest free descriptor                 *)

LowestFree(f) == f \in FreeFd /\ \A g \in FreeFd : f <= g

AcceptClient ==
    /\ pc = "accept"
    /\ backlog # <<>>
    /\ \E f \in FreeFd :
          /\ LowestFree(f)
          /\ f < FdSetSize
          /\ owner' = [owner EXCEPT ![f] = Head(backlog)]
          /\ connections' = connections \cup {f}
          /\ highest' = IF f > highest THEN f ELSE highest
    /\ backlog' = Tail(backlog)
    /\ Resume
    /\ UNCHANGED <<stop, status, ready, selected, request, listening, peer, inbox, outbox>>

\* Mutant: the rejected socket is not closed.
RejectUnclosed ==
    /\ pc = "accept"
    /\ backlog # <<>>
    /\ \E f \in FreeFd : LowestFree(f) /\ f >= FdSetSize
    /\ backlog' = Tail(backlog)
    /\ Resume
    /\ UNCHANGED <<stop, status, connections, ready, selected, highest, request,
                   listening, owner, peer, inbox, outbox>>

\* client >= FD_SETSIZE: the socket is closed at once.
RejectClient ==
    /\ pc = "accept"
    /\ backlog # <<>>
    /\ \E f \in FreeFd : LowestFree(f) /\ f >= FdSetSize
    /\ backlog' = Tail(backlog)
    /\ Forget({Head(backlog)})
    /\ Resume
    /\ UNCHANGED <<stop, status, connections, ready, selected, highest, request,
                   listening, owner>>

\* EMFILE: the connection stays in the backlog, the listener stays readable.
AcceptExhausted ==
    /\ pc = "accept"
    /\ backlog # <<>>
    /\ FreeFd = {}
    /\ Resume
    /\ UNCHANGED <<stop, status, connections, ready, selected, highest, request, netVars>>

\* Mutant: accept's -1 is added to the select set.
AcceptAddsError ==
    /\ pc = "accept"
    /\ backlog # <<>>
    /\ peer[Head(backlog)] = "fin"
    /\ backlog' = Tail(backlog)
    /\ Forget({Head(backlog)})
    /\ connections' = connections \cup {-1}
    /\ Resume
    /\ UNCHANGED <<stop, status, ready, selected, highest, request, listening, owner>>

\* ECONNABORTED: the client left before it was accepted.
AcceptAborted ==
    /\ pc = "accept"
    /\ backlog # <<>>
    /\ peer[Head(backlog)] = "fin"
    /\ backlog' = Tail(backlog)
    /\ Forget({Head(backlog)})
    /\ Resume
    /\ UNCHANGED <<stop, status, connections, ready, selected, highest, request,
                   listening, owner>>

-----------------------------------------------------------------------------
(* modbus_set_socket, modbus_receive                                       *)

\* Mutant: the last socket is selected, not the ready one.
PeerOfHighest == owner[highest]

\* modbus_set_socket: whose socket modbus_receive and modbus_reply use.
Peer == owner[fd]

\* The query buffer holds a whole request of kind k.
GotRequest(k) ==
    /\ request' = k
    /\ pc' = "reply"

ReadToken ==
    /\ inbox[Peer] # <<>>
    /\ inbox' = [inbox EXCEPT ![Peer] = Tail(@)]
    /\ UNCHANGED <<stop, status, connections, ready, selected, fd, highest,
                   listening, owner, backlog, peer, outbox>>

ReceiveFrame ==
    /\ pc = "receive"
    /\ ReadToken
    /\ Head(inbox[Peer]) \in Kind
    /\ GotRequest(Head(inbox[Peer]))

\* The first bytes of a frame: the next wait has the byte timeout.
ReceiveHead ==
    /\ pc = "receive"
    /\ ReadToken
    /\ Head(inbox[Peer]) = "head"
    /\ pc' = "bytes"
    /\ UNCHANGED request

\* Stray bytes are parsed as if they began a frame.
ReceiveStray ==
    /\ pc = "receive"
    /\ ReadToken
    /\ Head(inbox[Peer]) = "tail"
    /\ \/ \E k \in Kind : GotRequest(k)
       \/ pc' \in {"bytes", "close"} /\ UNCHANGED request

\* The rest of the frame arrives within the byte timeout, or bytes that
\* cannot belong to it do.
ReceiveRest ==
    /\ pc = "bytes"
    /\ ReadToken
    /\ \/ \E k \in Kind : GotRequest(k)
       \/ /\ Head(inbox[Peer]) # "tail"
          /\ pc' = "close"
          /\ UNCHANGED request

\* Mutant: no byte timeout; only the end of the connection ends the wait.
NoByteTimeout ==
    /\ pc = "bytes"
    /\ inbox[Peer] = <<>>
    /\ peer[Peer] = "fin"
    /\ pc' = "close"
    /\ UNCHANGED <<stop, serverVars, netVars>>

\* Nothing more arrives: ETIMEDOUT, or recv returns 0 because the client left.
ByteTimeout ==
    /\ pc = "bytes"
    /\ inbox[Peer] = <<>>
    /\ pc' = "close"
    /\ UNCHANGED <<stop, serverVars, netVars>>

ReceiveEof ==
    /\ pc = "receive"
    /\ inbox[Peer] = <<>>
    /\ peer[Peer] = "fin"
    /\ pc' = "close"
    /\ UNCHANGED <<stop, serverVars, netVars>>

-----------------------------------------------------------------------------
(* modbus_reply                                                            *)

\* send() on a blocking socket waits for room in the send buffer.
ReplySent ==
    /\ pc = "reply"
    /\ request = "plain"
    /\ outbox[Peer] < OutCap
    /\ outbox' = [outbox EXCEPT ![Peer] = @ + 1]
    /\ Resume
    /\ UNCHANGED <<stop, status, connections, ready, selected, highest, request,
                   listening, owner, backlog, peer, inbox>>

\* send() fails because the client closed its end.
ReplyFails ==
    /\ pc = "reply"
    /\ request = "plain"
    /\ peer[Peer] = "fin"
    /\ pc' = "close"
    /\ UNCHANGED <<stop, serverVars, netVars>>

\* to_flush: after the response timeout the receive buffer is emptied, and
\* with it whatever the client pipelined; then the exception is sent.
ReplyPurges ==
    /\ pc = "reply"
    /\ request = "purge"
    /\ inbox' = [inbox EXCEPT ![Peer] = <<>>]
    /\ request' = "plain"
    /\ UNCHANGED <<pc, stop, status, connections, ready, selected, fd, highest,
                   listening, owner, backlog, peer, outbox>>

\* Mutant: the result of modbus_reply is ignored.
RefusalIgnored ==
    /\ pc = "reply"
    /\ request = "fatal"
    /\ Resume
    /\ UNCHANGED <<stop, status, connections, ready, selected, highest, request, netVars>>

\* modbus_reply returns -1 before it sends anything.
ReplyRefused ==
    /\ pc = "reply"
    /\ request = "fatal"
    /\ pc' = "close"
    /\ UNCHANGED <<stop, serverVars, netVars>>

-----------------------------------------------------------------------------
(* Closing                                                                 *)

\* Mutant: FD_CLR is forgotten.
CloseWithoutClear ==
    /\ pc = "close"
    /\ owner' = [owner EXCEPT ![fd] = NoClient]
    /\ Forget({Peer})
    /\ Resume
    /\ UNCHANGED <<stop, status, connections, ready, selected, highest, request,
                   listening, backlog>>

\* Mutant: FD_CLR takes the listener out of the set.
CloseClearsListener ==
    /\ pc = "close"
    /\ owner' = [owner EXCEPT ![fd] = NoClient]
    /\ Forget({Peer})
    /\ connections' = connections \ {fd, Listener}
    /\ highest' = ShrinkHighest(connections \ {fd})
    /\ Resume
    /\ UNCHANGED <<stop, status, ready, selected, request, listening, backlog>>

\* close_socket_fd, FD_CLR, and highest_socket lowered to what is still open.
CloseSocket ==
    /\ pc = "close"
    /\ owner' = [owner EXCEPT ![fd] = NoClient]
    /\ Forget({Peer})
    /\ connections' = connections \ {fd}
    /\ highest' = ShrinkHighest(connections \ {fd})
    /\ Resume
    /\ UNCHANGED <<stop, status, ready, selected, request, listening, backlog>>

\* Mutant: the last loop stops before highest_socket.
ClosingBelow == {f \in connections : f < highest}

\* The sockets the last loop of the function closes.
Closing == {f \in connections : f <= highest}

CleanUp ==
    /\ pc = "cleanup"
    /\ pc' = "returned"
    /\ owner' = [f \in ClientFd |-> IF f \in Closing THEN NoClient ELSE owner[f]]
    /\ listening' = (listening /\ Listener \notin Closing)
    /\ backlog' = IF Listener \in Closing THEN <<>> ELSE backlog
    /\ Forget({c \in Client : \/ \E f \in Closing \ {Listener} : owner[f] = c
                              \/ Listener \in Closing /\ Queued(c)})
    /\ UNCHANGED <<stop, status, connections, ready, selected, fd, highest, request>>

\* run_tcp_server has returned to main.
Returned ==
    /\ pc = "returned"
    /\ UNCHANGED vars

-----------------------------------------------------------------------------
(* The environment                                                         *)

\* SIGINT or SIGTERM: request_stop runs. Only a wait in progress is cut short.
Signal ==
    /\ pc # "returned"
    /\ stop' = TRUE
    /\ pc' = IF pc = "select" THEN "interrupted" ELSE pc
    /\ UNCHANGED <<serverVars, netVars>>

Connect(c) ==
    /\ listening
    /\ peer[c] = "none"
    /\ Len(backlog) < Backlog
    /\ peer' = [peer EXCEPT ![c] = "up"]
    /\ backlog' = Append(backlog, c)
    /\ UNCHANGED <<pc, stop, serverVars, listening, owner, inbox, outbox>>

Send(c, t) ==
    /\ peer[c] = "up"
    /\ Len(inbox[c]) < InCap
    /\ inbox' = [inbox EXCEPT ![c] = Append(@, t)]
    /\ UNCHANGED <<pc, stop, serverVars, listening, owner, backlog, peer, outbox>>

ReadAnswer(c) ==
    /\ peer[c] = "up"
    /\ outbox[c] > 0
    /\ outbox' = [outbox EXCEPT ![c] = @ - 1]
    /\ UNCHANGED <<pc, stop, serverVars, listening, owner, backlog, peer, inbox>>

HangUp(c) ==
    /\ peer[c] = "up"
    /\ peer' = [peer EXCEPT ![c] = "fin"]
    /\ UNCHANGED <<pc, stop, serverVars, listening, owner, backlog, inbox, outbox>>

-----------------------------------------------------------------------------
SelectStep  == BeginPass \/ EnterSelect \/ SelectReturns \/ SelectInterrupted
               \/ Visit \/ PassEnds
AcceptStep  == AcceptClient \/ RejectClient \/ AcceptExhausted \/ AcceptAborted
ReceiveStep == ReceiveFrame \/ ReceiveHead \/ ReceiveStray \/ ReceiveRest
               \/ ByteTimeout \/ ReceiveEof
ReplyStep   == ReplySent \/ ReplyFails \/ ReplyPurges \/ ReplyRefused
CloseStep   == CloseSocket \/ CleanUp

ServerStep == SelectStep \/ AcceptStep \/ ReceiveStep \/ ReplyStep \/ CloseStep

ClientStep == \E c \in Client :
    \/ Connect(c)
    \/ ReadAnswer(c)
    \/ c \in Good /\ Send(c, "plain")
    \/ c \notin Good /\ (HangUp(c) \/ \E t \in Traffic : Send(c, t))

Next == ServerStep \/ SelectFails \/ ClientStep \/ Signal \/ Returned

Spec == Init /\ [][Next]_vars

(* The thread runs whenever it can, and a client reads what it is sent (the *)
(* server's send() has no timeout). A select that fails, a signal, and     *)
(* everything else a client does are not forced to happen.                 *)
FairSpec ==
    /\ Spec
    /\ WF_vars(ServerStep)
    /\ \A c \in Client : WF_vars(ReadAnswer(c))

-----------------------------------------------------------------------------
(* Safety                                                                  *)

Running == pc # "returned"

\* The places inside the body of the scan.
Visiting == pc \in {"accept", "receive", "bytes", "reply", "close"}

\* The descriptors the current pass has yet to visit: after fd once its visit
\* has begun, from fd on between two visits.
Ahead == {f \in ready : IF pc = "scan" THEN fd <= f ELSE fd < f}

\* The select set holds exactly the sockets that are open: no socket is
\* closed without FD_CLR (the next select would fail with EBADF) and none is
\* accepted and then forgotten.
SelectSetIsOpenSet == Running => connections = OpenFd

\* highest_socket is the largest descriptor of the select set: a smaller value
\* would starve a client and leave its socket open at the end, a larger one
\* makes select look at closed descriptors.
HighestIsMax ==
    Running => /\ highest \in connections
               /\ \A f \in connections : f <= highest

\* In the middle of a pass `selected` counts the ready descriptors not yet
\* visited, and each of them is still open and watched, whatever was
\* accepted, closed or shrunk since select returned.
PassIsExact ==
    pc = "scan" \/ Visiting =>
        /\ selected = Cardinality(Ahead)
        /\ Ahead \subseteq connections

\* What the next visit relies on: the snapshot handed to select is a copy of
\* the select set, and the descriptor being served is in it.
ReadyIsWatched == pc \in {"enter", "select", "interrupted"} => ready \subseteq connections
VisitIsWatched == Visiting => fd \in connections /\ (pc = "accept" <=> fd = Listener)
ListenerOpen   == Running => listening

\* The inductive invariant behind the first three properties above.
LoopInv ==
    /\ TypeOK
    /\ SelectSetIsOpenSet
    /\ HighestIsMax
    /\ PassIsExact
    /\ ReadyIsWatched
    /\ VisitIsWatched
    /\ ListenerOpen

\* The thread never calls accept or modbus_receive (whose first wait has no
\* timeout) on a socket with nothing to read: one idle client, or a
\* descriptor reused since `ready` was copied, would stop the whole server.
NeverWaitsOnIdle ==
    /\ pc = "accept" => backlog # <<>>
    /\ pc = "receive" => Readable(fd)

\* Nothing the loop or a client does in between takes away what select saw on
\* a descriptor the pass has still to visit.
ReadyStaysReadable ==
    pc = "scan" \/ Visiting => \A f \in Ahead : Readable(f)

\* A connection is in one place, on one descriptor or once in the backlog, and
\* exactly the clients that have a connection are in either.
ConnectionTable ==
    /\ \A f, g \in ClientFd : owner[f] # NoClient /\ owner[f] = owner[g] => f = g
    /\ \A i, j \in 1..Len(backlog) : backlog[i] = backlog[j] => i = j
    /\ \A c \in Client : ~ (Admitted(c) /\ Queued(c))
    /\ \A c \in Client : peer[c] # "none" <=> Admitted(c) \/ Queued(c)

\* The inductive invariant behind the three properties above.
ServeInv == ConnectionTable /\ ReadyStaysReadable /\ NeverWaitsOnIdle

\* However the loop ended, every socket it opened is closed when it returns.
NothingLeaks == pc = "returned" => OpenFd = {}

\* Isolation: a client that sends whole, answerable requests keeps its
\* connection, and its requests are taken from its socket one at a time,
\* whatever the other clients send, pipeline, abandon or close, until the
\* server stops.
GoodClientsKept ==
    [][\A c \in Good :
          /\ Admitted(c) /\ ~Admitted(c)' => pc = "cleanup"
          /\ Admitted(c)' /\ Len(inbox'[c]) < Len(inbox[c])
                => inbox'[c] = Tail(inbox[c]) /\ pc = "receive" /\ owner[fd] = c]_vars

-----------------------------------------------------------------------------
(* Refinement: the loop implements the serial service.                      *)

Service == INSTANCE ModbusService WITH
    open     <- listening,
    queue    <- backlog,
    admitted <- {c \in Client : Admitted(c)},
    left     <- {c \in Client : peer[c] = "fin"},
    asked    <- inbox,
    unread   <- outbox,
    serving  <- IF pc \in {"bytes", "reply", "close"} THEN owner[fd] ELSE NoClient,
    frame    <- CASE pc = "bytes" -> "part"
                  [] pc = "reply" -> request
                  [] pc = "close" -> "bad"
                  [] OTHER        -> "none"

\* Every behaviour of the select loop is one of the serial service: frames are
\* answered on the connection they came from and connections are dropped only
\* for their own client's conduct.
ImplementsService == Service!ServiceSpec

-----------------------------------------------------------------------------
(* Liveness                                                                *)

Ending == pc \in {"cleanup", "returned"}

\* A request of a well-behaved client on an accepted socket is answered, or
\* the server stops: a client that abandons a frame, hangs up or pipelines
\* delays it by a byte timeout, never for ever.
GoodClientsAnswered ==
    \A c \in Good :
        (Admitted(c) /\ inbox[c] # <<>> /\ outbox[c] = 0)
            ~> (outbox[c] > 0 \/ Ending)

\* A connection the kernel completed does not wait for ever: it is accepted or
\* refused, or the process is out of descriptors, or the server stops.
BacklogDrains ==
    \A c \in Good : Queued(c) ~> (~Queued(c) \/ FreeFd = {} \/ Ending)

\* A stop request ends the server wherever it finds the thread, except between
\* the test of stop_requested and the wait in select; there it ends it once any
\* socket becomes readable.
StopNeedsOneEvent ==
    (stop /\ (pc \notin {"enter", "select"} \/ \E f \in connections : Readable(f)))
        ~> (pc = "returned")

\* tests/tcp-loopback.sh:66-67 sends SIGTERM and waits for the server to end.
StopHonoured == stop ~> (pc = "returned")
=============================================================================
