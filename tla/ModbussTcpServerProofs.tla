----------------------- MODULE ModbussTcpServerProofs -----------------------
(* Proofs about the select loop of modbuss, for any number of clients and   *)
(* descriptors: what it watches, that it only ever waits in select, that it *)
(* leaks nothing when it returns and keeps its clients apart, and that it   *)
(* implements the serial service.                                           *)
EXTENDS ModbussTcpServer, Extrema, FiniteSetTheorems, SequenceTheorems, TLAPS

USE FdAssumption, ClientAssumption, BoundAssumption
    DEF FdAssumption, ClientAssumption, BoundAssumption

-----------------------------------------------------------------------------
(* Lemmas about the operators of the model                                  *)

\* The loop that lowers highest_socket stops at the largest watched
\* descriptor: the listener is always watched, so it never passes it.
LEMMA ShrinkFindsMax ==
  ASSUME highest \in Listener..MaxFd,
         NEW open \in SUBSET Fd,
         Listener \in open,
         \A f \in open : f <= highest
  PROVE  /\ ShrinkHighest(open) \in open
         /\ ShrinkHighest(open) \in Listener..highest
         /\ \A f \in open : f <= ShrinkHighest(open)
<1>. DEFINE Stop(h) == /\ h = Listener \/ h \in open
                       /\ \A g \in (h + 1)..highest : g \notin open
<1>1. PICK m \in open : \A f \in open : f <= m
  BY MaxExists DEF Fd
<1>2. m \in Listener..highest
  BY <1>1 DEF Fd
<1>3. Stop(m)
  BY <1>1, <1>2 DEF Fd
<1>4. ShrinkHighest(open) \in Listener..highest /\ Stop(ShrinkHighest(open))
  BY <1>2, <1>3 DEF ShrinkHighest
<1>. QED
  BY <1>4 DEF Fd

\* From n + 1 on and after n are the same.
LEMMA AfterNat ==
  ASSUME NEW R \in SUBSET Nat, NEW n \in Nat
  PROVE  {g \in R : n + 1 <= g} = {g \in R : n < g}
<1>1. \A g \in R : n + 1 <= g <=> n < g
  OBVIOUS
<1>. QED
  BY <1>1, Zenon

\* What lies after the least element from n on is the rest of them.
LEMMA AfterLeast ==
  ASSUME NEW R \in SUBSET Nat, NEW n \in Nat, NEW m \in R, n <= m,
         \A g \in R : n <= g => m <= g
  PROVE  {g \in R : m < g} = {g \in R : n <= g} \ {m}
<1>1. \A g \in R : m < g <=> n <= g /\ g # m
  OBVIOUS
<1>. QED
  BY <1>1, Zenon

\* A part of the snapshot is finite, and one visit takes one from its count.
LEMMA ReadyIsFinite ==
  ASSUME NEW S \in SUBSET Fd
  PROVE  IsFiniteSet(S) /\ Cardinality(S) \in Nat
<1>1. IsFiniteSet(Fd)
  BY FS_Interval DEF Fd
<1>2. IsFiniteSet(S)
  BY <1>1, FS_Subset
<1>. QED
  BY <1>2, FS_CardinalityType

-----------------------------------------------------------------------------
(* The initial state                                                        *)

\* The loop starts with the listener alone in the select set.
LEMMA InitLoopInv == Init => LoopInv
<1>. SUFFICES ASSUME Init
              PROVE  LoopInv
  OBVIOUS
<1>1. TypeOK
  <2>1. /\ <<>> \in Seq(Client)
        /\ <<>> \in Seq(Token)
    OBVIOUS
  <2>2. inbox \in [Client -> Seq(Token)]
    BY <2>1 DEF Init
  <2>3. outbox \in [Client -> 0..OutCap]
    BY DEF Init
  <2>4. owner \in [ClientFd -> Client \cup {NoClient}]
    BY DEF Init
  <2>5. /\ peer \in [Client -> {"none", "up", "fin"}]
        /\ backlog \in Seq(Client)
    BY <2>1 DEF Init
  <2>6. /\ pc \in Place /\ stop \in BOOLEAN /\ status \in {0, -1}
        /\ request \in Kind /\ listening \in BOOLEAN
    BY DEF Init, Place, Kind
  <2>7. /\ connections \subseteq Fd /\ ready \subseteq Fd /\ selected \in Nat
        /\ fd \in 0..(MaxFd + 1) /\ highest \in Listener..MaxFd
    BY DEF Init, Fd
  <2>. QED
    BY <2>2, <2>3, <2>4, <2>5, <2>6, <2>7 DEF TypeOK
<1>2. SelectSetIsOpenSet /\ HighestIsMax /\ ListenerOpen
  BY DEF Init, SelectSetIsOpenSet, HighestIsMax, ListenerOpen, OpenFd, ClientFd
<1>3. PassIsExact /\ ReadyIsWatched /\ VisitIsWatched
  BY DEF Init, PassIsExact, ReadyIsWatched, VisitIsWatched, Visiting
<1>. QED
  BY <1>1, <1>2, <1>3 DEF LoopInv

-----------------------------------------------------------------------------
(* Steps that leave the loop's own state alone                              *)

loopVars == <<connections, ready, selected, fd, highest, listening, owner>>

\* A step that neither opens nor closes a socket and stays in the same part of
\* the pass keeps every part of the invariant but the types.
LEMMA SamePlace ==
  ASSUME LoopInv, UNCHANGED loopVars, TypeOK',
         \/ pc' = pc
         \/ pc \in {"receive", "bytes", "reply"} /\ pc' \in {"bytes", "reply", "close"}
         \/ pc = "enter" /\ pc' = "select"
         \/ pc = "select" /\ pc' = "interrupted"
         \/ pc' \in {"loop", "cleanup"} /\ pc # "returned"
  PROVE  LoopInv'
<1>. USE DEF loopVars
<1>1. SelectSetIsOpenSet'
  BY DEF LoopInv, SelectSetIsOpenSet, OpenFd, Running
<1>2. HighestIsMax'
  BY DEF LoopInv, HighestIsMax, Running
<1>3. ListenerOpen'
  BY DEF LoopInv, ListenerOpen, Running
<1>4. PassIsExact'
  BY DEF LoopInv, PassIsExact, Ahead, Visiting
<1>5. ReadyIsWatched'
  BY DEF LoopInv, ReadyIsWatched
<1>6. VisitIsWatched'
  BY DEF LoopInv, VisitIsWatched, Visiting
<1>. QED
  BY <1>1, <1>2, <1>3, <1>4, <1>5, <1>6 DEF LoopInv

\* While a client socket is being served, it is open and somebody's.
LEMMA PeerIsClient ==
  ASSUME LoopInv, pc \in {"receive", "bytes", "reply", "close"}
  PROVE  fd \in ClientFd /\ fd \in connections /\ Peer \in Client
<1>1. fd \in OpenFd /\ fd # Listener /\ fd \in connections
  BY DEF LoopInv, VisitIsWatched, SelectSetIsOpenSet, Visiting, Running
<1>2. fd \in ClientFd /\ owner[fd] # NoClient
  BY <1>1 DEF OpenFd
<1>. QED
  BY <1>1, <1>2 DEF Peer, LoopInv, TypeOK

\* Dropping the first element of a typed, non-empty sequence.
LEMMA TailType ==
  ASSUME NEW S, NEW s \in Seq(S), s # <<>>
  PROVE  Head(s) \in S /\ Tail(s) \in Seq(S)
OBVIOUS

\* Forgetting clients keeps the types of what the kernel holds for them.
LEMMA ForgetType ==
  ASSUME TypeOK, NEW cs, Forget(cs)
  PROVE  /\ peer' \in [Client -> {"none", "up", "fin"}]
         /\ inbox' \in [Client -> Seq(Token)]
         /\ outbox' \in [Client -> 0..OutCap]
<1>1. <<>> \in Seq(Token)
  OBVIOUS
<1>. QED
  BY <1>1 DEF Forget, TypeOK

\* What the clients and signals do does not touch the loop.
LEMMA ClientKeepsInv ==
  ASSUME LoopInv, ClientStep
  PROVE  LoopInv'
<1>1. UNCHANGED loopVars /\ pc' = pc
  BY DEF ClientStep, Connect, Send, ReadAnswer, HangUp, loopVars, serverVars
<1>2. UNCHANGED <<stop, status, request>>
  BY DEF ClientStep, Connect, Send, ReadAnswer, HangUp, serverVars
<1>3. backlog' \in Seq(Client)
  <2>1. ASSUME NEW c \in Client, Connect(c)
        PROVE  backlog' \in Seq(Client)
    BY <2>1 DEF Connect, LoopInv, TypeOK
  <2>2. CASE UNCHANGED backlog
    BY <2>2 DEF LoopInv, TypeOK
  <2>. QED
    BY <2>1, <2>2 DEF ClientStep, Send, ReadAnswer, HangUp
<1>4. peer' \in [Client -> {"none", "up", "fin"}]
  BY DEF ClientStep, Connect, Send, ReadAnswer, HangUp, LoopInv, TypeOK
<1>5. inbox' \in [Client -> Seq(Token)]
  <2>1. ASSUME NEW c \in Client, NEW t \in Token, Send(c, t)
        PROVE  inbox' \in [Client -> Seq(Token)]
    BY <2>1 DEF Send, LoopInv, TypeOK
  <2>2. CASE UNCHANGED inbox
    BY <2>2 DEF LoopInv, TypeOK
  <2>3. "plain" \in Token
    BY DEF Token, Kind
  <2>. QED
    BY <2>1, <2>2, <2>3 DEF ClientStep, Connect, ReadAnswer, HangUp
<1>6. outbox' \in [Client -> 0..OutCap]
  <2>1. ASSUME NEW c \in Client, ReadAnswer(c)
        PROVE  outbox' \in [Client -> 0..OutCap]
    BY <2>1 DEF ReadAnswer, LoopInv, TypeOK
  <2>2. CASE UNCHANGED outbox
    BY <2>2 DEF LoopInv, TypeOK
  <2>. QED
    BY <2>1, <2>2 DEF ClientStep, Connect, Send, HangUp
<1>7. TypeOK'
  BY <1>1, <1>2, <1>3, <1>4, <1>5, <1>6 DEF LoopInv, TypeOK, loopVars
<1>. QED
  BY <1>1, <1>7, SamePlace

\* SIGINT or SIGTERM sets the flag and may cut the wait short.
LEMMA SignalKeepsInv ==
  ASSUME LoopInv, Signal
  PROVE  LoopInv'
<1>1. UNCHANGED loopVars
  BY DEF Signal, loopVars, serverVars, netVars
<1>2. TypeOK'
  BY DEF Signal, serverVars, netVars, LoopInv, TypeOK, Place
<1>3. pc' = pc \/ (pc = "select" /\ pc' = "interrupted")
  BY DEF Signal
<1>. QED
  BY <1>1, <1>2, <1>3, SamePlace

-----------------------------------------------------------------------------
(* Steps of the select loop                                                 *)

\* The start of a pass, select, the scan and its end keep the invariant.
LEMMA SelectKeepsInv ==
  ASSUME LoopInv, SelectStep \/ SelectFails
  PROVE  LoopInv'
<1>. USE DEF netVars, serverVars, loopVars
<1>1. CASE BeginPass
  <2>1. TypeOK'
    BY <1>1 DEF BeginPass, LoopInv, TypeOK, Place
  <2>2. SelectSetIsOpenSet' /\ HighestIsMax' /\ ListenerOpen'
    BY <1>1 DEF BeginPass, LoopInv, SelectSetIsOpenSet, HighestIsMax, ListenerOpen,
                OpenFd, Running
  <2>3. PassIsExact' /\ ReadyIsWatched' /\ VisitIsWatched'
    BY <1>1 DEF BeginPass, PassIsExact, ReadyIsWatched, VisitIsWatched, Visiting
  <2>. QED
    BY <2>1, <2>2, <2>3 DEF LoopInv
<1>2. CASE EnterSelect
  <2>1. TypeOK'
    BY <1>2 DEF EnterSelect, LoopInv, TypeOK, Place
  <2>. QED
    BY <1>2, <2>1, SamePlace DEF EnterSelect
<1>3. CASE SelectReturns
  <2>. DEFINE r == {f \in ready : f <= highest /\ Readable(f)}
  <2>1. r \subseteq Fd /\ r \subseteq connections
    BY <1>3 DEF SelectReturns, LoopInv, TypeOK, ReadyIsWatched
  <2>2. Cardinality(r) \in Nat
    BY <2>1, ReadyIsFinite
  <2>3. pc' = "scan" /\ ready' = r /\ selected' = Cardinality(r) /\ fd' = 0
        /\ UNCHANGED <<stop, status, connections, highest, request, netVars>>
    BY <1>3 DEF SelectReturns
  <2>4. TypeOK'
    BY <2>1, <2>2, <2>3 DEF LoopInv, TypeOK, Place
  <2>5. Ahead' = r
    BY <2>1, <2>3 DEF Ahead, Fd
  <2>6. SelectSetIsOpenSet' /\ HighestIsMax' /\ ListenerOpen'
    BY <1>3, <2>3 DEF SelectReturns, LoopInv, SelectSetIsOpenSet, HighestIsMax, ListenerOpen,
                OpenFd, Running
  <2>7. PassIsExact' /\ ReadyIsWatched' /\ VisitIsWatched'
    BY <2>1, <2>3, <2>5 DEF PassIsExact, ReadyIsWatched, VisitIsWatched, Visiting
  <2>. QED
    BY <2>4, <2>6, <2>7 DEF LoopInv
<1>4. CASE SelectInterrupted \/ SelectFails
  <2>1. TypeOK'
    BY <1>4 DEF SelectInterrupted, SelectFails, LoopInv, TypeOK, Place
  <2>. QED
    BY <1>4, <2>1, SamePlace DEF SelectInterrupted, SelectFails
<1>5. CASE Visit
  <2>1. PICK f \in Unvisited :
            /\ \A g \in Unvisited : f <= g
            /\ fd' = f
            /\ pc' = IF f = Listener THEN "accept" ELSE "receive"
    BY <1>5 DEF Visit
  <2>2. /\ pc = "scan" /\ selected > 0 /\ selected' = selected - 1
        /\ UNCHANGED <<stop, status, connections, ready, highest, request, netVars>>
    BY <1>5 DEF Visit
  <2>3. Unvisited = Ahead
    BY <2>2 DEF Unvisited, Ahead, LoopInv, PassIsExact, HighestIsMax, Running
  <2>4. Ahead \subseteq connections /\ selected = Cardinality(Ahead)
    BY <2>2 DEF LoopInv, PassIsExact
  <2>5. f \in Fd /\ f \in connections /\ Ahead \subseteq Fd
    BY <2>1, <2>3, <2>4 DEF LoopInv, TypeOK
  <2>6. Ahead' = Ahead \ {f}
    <3>1. Ahead' = {g \in ready : f < g}
      BY <2>1, <2>2 DEF Ahead
    <3>2. Ahead = {g \in ready : fd <= g}
      BY <2>2 DEF Ahead
    <3>3. fd <= f /\ ready \in SUBSET Nat /\ fd \in Nat /\ f \in ready
      BY <2>1, <2>5 DEF Unvisited, LoopInv, TypeOK, Fd
    <3>4. \A g \in ready : fd <= g => f <= g
      BY <2>1, <2>3, <3>2
    <3>. QED
      BY <3>1, <3>2, <3>3, <3>4, AfterLeast
  <2>7. Cardinality(Ahead') = selected - 1
    BY <2>1, <2>3, <2>4, <2>5, <2>6, ReadyIsFinite, FS_RemoveElement
  <2>8. TypeOK'
    BY <2>1, <2>2, <2>5 DEF LoopInv, TypeOK, Place, Fd
  <2>9. SelectSetIsOpenSet' /\ HighestIsMax' /\ ListenerOpen'
    BY <2>1, <2>2 DEF LoopInv, SelectSetIsOpenSet, HighestIsMax, ListenerOpen, OpenFd, Running
  <2>10. PassIsExact' /\ ReadyIsWatched' /\ VisitIsWatched'
    BY <2>1, <2>2, <2>4, <2>5, <2>6, <2>7
       DEF PassIsExact, ReadyIsWatched, VisitIsWatched, Visiting
  <2>. QED
    BY <2>8, <2>9, <2>10 DEF LoopInv
<1>6. CASE PassEnds
  <2>1. TypeOK'
    BY <1>6 DEF PassEnds, LoopInv, TypeOK, Place
  <2>. QED
    BY <1>6, <2>1, SamePlace DEF PassEnds
<1>. QED
  BY <1>1, <1>2, <1>3, <1>4, <1>5, <1>6 DEF SelectStep

-----------------------------------------------------------------------------
(* Steps that serve one descriptor                                          *)

\* Resuming the scan after the descriptor just served leaves ahead what was
\* ahead, as long as what is ahead stays watched.
LEMMA ResumeIsExact ==
  ASSUME LoopInv, Visiting, Resume,
         ready' = ready, selected' = selected,
         Ahead \subseteq connections'
  PROVE  /\ PassIsExact' /\ ReadyIsWatched' /\ VisitIsWatched' /\ fd' \in 0..(MaxFd + 1)
         /\ Ahead' = Ahead
<1>1. pc # "scan" /\ pc' = "scan" /\ fd' = fd + 1
  BY DEF Visiting, Resume
<1>2. fd \in Fd
  BY DEF LoopInv, VisitIsWatched, TypeOK
<1>3. ready \in SUBSET Nat /\ fd \in Nat
  BY <1>2 DEF LoopInv, TypeOK, Fd
<1>4. Ahead' = Ahead
  <2>1. Ahead' = {g \in ready : fd + 1 <= g}
    BY <1>1 DEF Ahead
  <2>2. Ahead = {g \in ready : fd < g}
    BY <1>1 DEF Ahead
  <2>. QED
    BY <2>1, <2>2, <1>3, AfterNat
<1>5. selected = Cardinality(Ahead)
  BY DEF LoopInv, PassIsExact
<1>6. PassIsExact'
  BY <1>4, <1>5 DEF PassIsExact
<1>7. ReadyIsWatched' /\ VisitIsWatched'
  BY <1>1 DEF ReadyIsWatched, VisitIsWatched, Visiting
<1>8. fd' \in 0..(MaxFd + 1)
  BY <1>1, <1>2 DEF Fd
<1>. QED
  BY <1>4, <1>6, <1>7, <1>8

\* accept adds the new descriptor to the select set and raises highest_socket.
LEMMA AcceptKeepsInv ==
  ASSUME LoopInv, AcceptStep
  PROVE  LoopInv'
<1>. USE DEF netVars
<1>1. pc = "accept" /\ backlog # <<>> /\ Visiting /\ Running /\ Resume
  BY DEF AcceptStep, AcceptClient, RejectClient, AcceptExhausted, AcceptAborted, Visiting, Running
<1>2. ready' = ready /\ selected' = selected /\ UNCHANGED <<stop, status, request, listening>>
  BY DEF AcceptStep, AcceptClient, RejectClient, AcceptExhausted, AcceptAborted
<1>3. Ahead \subseteq connections
  BY <1>1 DEF LoopInv, PassIsExact
<1>4. pc' \in Place
  BY <1>1 DEF Resume, Place
<1>5. backlog' \in Seq(Client)
  <2>1. Tail(backlog) \in Seq(Client)
    BY <1>1 DEF LoopInv, TypeOK
  <2>. QED
    BY <2>1 DEF AcceptStep, AcceptClient, RejectClient, AcceptExhausted, AcceptAborted,
                LoopInv, TypeOK
<1>6. Head(backlog) \in Client
  BY <1>1, TailType DEF LoopInv, TypeOK
<1>7. /\ peer' \in [Client -> {"none", "up", "fin"}]
      /\ inbox' \in [Client -> Seq(Token)]
      /\ outbox' \in [Client -> 0..OutCap]
  <2>1. CASE UNCHANGED <<peer, inbox, outbox>>
    BY <2>1 DEF LoopInv, TypeOK
  <2>2. CASE Forget({Head(backlog)})
    BY <2>2, ForgetType DEF LoopInv
  <2>. QED
    BY <2>1, <2>2 DEF AcceptStep, AcceptClient, RejectClient, AcceptExhausted, AcceptAborted
<1>8. CASE UNCHANGED <<connections, highest, owner>>
  <2>1. PassIsExact' /\ ReadyIsWatched' /\ VisitIsWatched' /\ fd' \in 0..(MaxFd + 1)
    BY <1>1, <1>2, <1>3, <1>8, ResumeIsExact
  <2>2. TypeOK'
    BY <1>2, <1>4, <1>5, <1>7, <1>8, <2>1 DEF LoopInv, TypeOK
  <2>3. SelectSetIsOpenSet' /\ HighestIsMax' /\ ListenerOpen'
    BY <1>1, <1>2, <1>8 DEF LoopInv, SelectSetIsOpenSet, HighestIsMax, ListenerOpen,
                            OpenFd, Running, Resume
  <2>. QED
    BY <2>1, <2>2, <2>3 DEF LoopInv
<1>9. CASE AcceptClient
  <2>1. PICK f \in FreeFd :
            /\ owner' = [owner EXCEPT ![f] = Head(backlog)]
            /\ connections' = connections \cup {f}
            /\ highest' = IF f > highest THEN f ELSE highest
    BY <1>9 DEF AcceptClient
  <2>2. f \in ClientFd /\ f \in Fd /\ owner[f] = NoClient
    BY <2>1 DEF FreeFd, ClientFd, Fd
  <2>3. PassIsExact' /\ ReadyIsWatched' /\ VisitIsWatched' /\ fd' \in 0..(MaxFd + 1)
    BY <1>1, <1>2, <1>3, <2>1, ResumeIsExact
  <2>4. highest' \in Listener..MaxFd /\ connections' \subseteq Fd
    BY <2>1, <2>2 DEF LoopInv, TypeOK, ClientFd, Fd
  <2>5. owner' \in [ClientFd -> Client \cup {NoClient}]
    BY <2>1, <2>2, <1>6 DEF LoopInv, TypeOK
  <2>6. TypeOK'
    BY <1>2, <1>4, <1>5, <1>7, <2>3, <2>4, <2>5 DEF LoopInv, TypeOK
  <2>7. SelectSetIsOpenSet'
    <3>1. connections = OpenFd /\ listening' = listening
      BY <1>1, <1>2 DEF LoopInv, SelectSetIsOpenSet
    <3>2. OpenFd' = OpenFd \cup {f}
      BY <2>1, <2>2, <1>6, <3>1 DEF OpenFd, LoopInv, TypeOK
    <3>. QED
      BY <2>1, <3>1, <3>2 DEF SelectSetIsOpenSet
  <2>8. HighestIsMax' /\ ListenerOpen'
    BY <1>1, <1>2, <2>1, <2>2 DEF LoopInv, TypeOK, HighestIsMax, ListenerOpen, Running, Resume, Fd
  <2>. QED
    BY <2>3, <2>6, <2>7, <2>8 DEF LoopInv
<1>. QED
  BY <1>8, <1>9 DEF AcceptStep, RejectClient, AcceptExhausted, AcceptAborted

\* Reading a token from the served client's socket keeps the types.
LEMMA ReadTokenType ==
  ASSUME LoopInv, pc \in {"receive", "bytes"}, ReadToken
  PROVE  /\ inbox' \in [Client -> Seq(Token)]
         /\ Head(inbox[Peer]) \in Token
<1>1. Peer \in Client
  BY PeerIsClient
<1>2. inbox[Peer] \in Seq(Token) /\ inbox[Peer] # <<>>
  BY <1>1 DEF ReadToken, LoopInv, TypeOK
<1>3. Tail(inbox[Peer]) \in Seq(Token) /\ Head(inbox[Peer]) \in Token
  BY <1>2, TailType
<1>. QED
  BY <1>1, <1>3 DEF ReadToken, LoopInv, TypeOK

\* modbus_receive changes only the query buffer and the socket's input.
LEMMA ReceiveKeepsInv ==
  ASSUME LoopInv, ReceiveStep
  PROVE  LoopInv'
<1>. USE DEF netVars, serverVars
<1>1. /\ pc \in {"receive", "bytes", "reply"}
      /\ pc' \in {"bytes", "reply", "close"}
      /\ UNCHANGED <<loopVars, stop, status, backlog, peer, outbox>>
  BY DEF ReceiveStep, ReceiveFrame, ReceiveHead, ReceiveStray, ReceiveRest, ByteTimeout,
         ReceiveEof, ReadToken, GotRequest, loopVars
<1>2. request' \in Kind
  BY DEF ReceiveStep, ReceiveFrame, ReceiveHead, ReceiveStray, ReceiveRest, ByteTimeout,
         ReceiveEof, ReadToken, GotRequest, LoopInv, TypeOK
<1>3. inbox' \in [Client -> Seq(Token)]
  <2>1. CASE pc \in {"receive", "bytes"} /\ ReadToken
    BY <2>1, ReadTokenType
  <2>2. CASE UNCHANGED inbox
    BY <2>2 DEF LoopInv, TypeOK
  <2>. QED
    BY <2>1, <2>2 DEF ReceiveStep, ReceiveFrame, ReceiveHead, ReceiveStray, ReceiveRest,
                      ByteTimeout, ReceiveEof
<1>4. TypeOK'
  BY <1>1, <1>2, <1>3 DEF LoopInv, TypeOK, loopVars, Place
<1>. QED
  BY <1>1, <1>4, SamePlace

\* modbus_reply sends the answer and the scan resumes, or the socket is to be
\* closed.
LEMMA ReplyKeepsInv ==
  ASSUME LoopInv, ReplyStep
  PROVE  LoopInv'
<1>. USE DEF netVars, serverVars
<1>1. pc = "reply" /\ Peer \in Client /\ Visiting /\ Running
  BY PeerIsClient DEF ReplyStep, ReplySent, ReplyFails, ReplyPurges, ReplyRefused, Visiting,
                      Running
<1>2. CASE ReplySent
  <2>1. /\ Resume /\ ready' = ready /\ selected' = selected
        /\ UNCHANGED <<stop, status, connections, highest, request, listening, owner, backlog,
                       peer, inbox>>
    BY <1>2 DEF ReplySent
  <2>2. outbox' \in [Client -> 0..OutCap]
    BY <1>1, <1>2 DEF ReplySent, LoopInv, TypeOK
  <2>3. Ahead \subseteq connections'
    BY <1>1, <2>1 DEF LoopInv, PassIsExact
  <2>4. PassIsExact' /\ ReadyIsWatched' /\ VisitIsWatched' /\ fd' \in 0..(MaxFd + 1)
    BY <1>1, <2>1, <2>3, ResumeIsExact
  <2>5. TypeOK'
    BY <2>1, <2>2, <2>4 DEF LoopInv, TypeOK, Resume, Place
  <2>6. SelectSetIsOpenSet' /\ HighestIsMax' /\ ListenerOpen'
    BY <1>1, <2>1 DEF LoopInv, SelectSetIsOpenSet, HighestIsMax, ListenerOpen, OpenFd, Running
  <2>. QED
    BY <2>4, <2>5, <2>6 DEF LoopInv
<1>3. CASE ReplyFails \/ ReplyRefused
  <2>1. pc' = "close" /\ UNCHANGED <<stop, serverVars, netVars>>
    BY <1>3 DEF ReplyFails, ReplyRefused
  <2>2. TypeOK'
    BY <2>1 DEF LoopInv, TypeOK, Place
  <2>. QED
    BY <1>1, <2>1, <2>2, SamePlace DEF loopVars
<1>4. CASE ReplyPurges
  <2>1. UNCHANGED <<loopVars, pc, stop, status, backlog, peer, outbox>> /\ request' = "plain"
    BY <1>4 DEF ReplyPurges, loopVars
  <2>2. <<>> \in Seq(Token)
    OBVIOUS
  <2>3. inbox' \in [Client -> Seq(Token)]
    BY <1>1, <1>4, <2>2 DEF ReplyPurges, LoopInv, TypeOK
  <2>4. TypeOK'
    BY <2>1, <2>3 DEF LoopInv, TypeOK, loopVars, Kind
  <2>. QED
    BY <2>1, <2>4, SamePlace
<1>. QED
  BY <1>2, <1>3, <1>4 DEF ReplyStep

\* Closing a client socket takes it out of the select set, and the shrink loop
\* finds the new largest descriptor.
LEMMA CloseKeepsInv ==
  ASSUME LoopInv, CloseSocket
  PROVE  LoopInv'
<1>. DEFINE open == connections \ {fd}
<1>1. /\ pc = "close" /\ Visiting /\ Running
      /\ fd \in ClientFd /\ fd \in connections /\ Peer \in Client
  BY PeerIsClient DEF CloseSocket, Visiting, Running
<1>2. /\ owner' = [owner EXCEPT ![fd] = NoClient]
      /\ connections' = open
      /\ highest' = ShrinkHighest(open)
      /\ Forget({Peer}) /\ Resume
      /\ UNCHANGED <<stop, status, ready, selected, request, listening, backlog>>
  BY DEF CloseSocket
<1>3. /\ open \in SUBSET Fd /\ Listener \in open
      /\ \A f \in open : f <= highest
      /\ highest \in Listener..MaxFd
  <2>1. Listener \in connections
    BY <1>1 DEF LoopInv, SelectSetIsOpenSet, ListenerOpen, OpenFd
  <2>2. fd # Listener
    BY <1>1 DEF ClientFd
  <2>. QED
    BY <1>1, <2>1, <2>2 DEF LoopInv, HighestIsMax, TypeOK
<1>4. /\ highest' \in open
      /\ highest' \in Listener..highest
      /\ \A f \in open : f <= highest'
  BY <1>2, <1>3, ShrinkFindsMax
<1>5. Ahead \subseteq connections'
  <2>1. fd \notin Ahead
    BY <1>1 DEF Ahead, ClientFd
  <2>. QED
    BY <1>1, <1>2, <2>1 DEF LoopInv, PassIsExact
<1>6. PassIsExact' /\ ReadyIsWatched' /\ VisitIsWatched' /\ fd' \in 0..(MaxFd + 1)
  BY <1>1, <1>2, <1>5, ResumeIsExact
<1>7. TypeOK'
  <2>1. highest' \in Listener..MaxFd
    BY <1>3, <1>4
  <2>2. owner' \in [ClientFd -> Client \cup {NoClient}]
    BY <1>2 DEF LoopInv, TypeOK
  <2>3. /\ peer' \in [Client -> {"none", "up", "fin"}]
        /\ inbox' \in [Client -> Seq(Token)]
        /\ outbox' \in [Client -> 0..OutCap]
    BY <1>2, ForgetType DEF LoopInv
  <2>4. pc' \in Place
    BY <1>2 DEF Resume, Place
  <2>. QED
    BY <1>2, <1>3, <1>6, <2>1, <2>2, <2>3, <2>4 DEF LoopInv, TypeOK
<1>8. SelectSetIsOpenSet'
  <2>1. connections = OpenFd
    BY <1>1 DEF LoopInv, SelectSetIsOpenSet
  <2>2. OpenFd' = OpenFd \ {fd}
    BY <1>1, <1>2 DEF OpenFd, LoopInv, TypeOK, ClientFd
  <2>. QED
    BY <1>2, <2>1, <2>2 DEF SelectSetIsOpenSet
<1>9. HighestIsMax' /\ ListenerOpen'
  BY <1>1, <1>2, <1>4 DEF LoopInv, HighestIsMax, ListenerOpen, Running
<1>. QED
  BY <1>6, <1>7, <1>8, <1>9 DEF LoopInv

\* The last loop of the function ends the invariant's concern with the loop.
LEMMA CleanUpKeepsInv ==
  ASSUME LoopInv, CleanUp
  PROVE  LoopInv'
<1>1. pc = "cleanup" /\ pc' = "returned"
  BY DEF CleanUp
<1>2. UNCHANGED <<stop, status, connections, ready, selected, fd, highest, request>>
  BY DEF CleanUp
<1>3. listening' \in BOOLEAN /\ backlog' \in Seq(Client)
  BY DEF CleanUp, LoopInv, TypeOK
<1>4. owner' \in [ClientFd -> Client \cup {NoClient}]
  BY DEF CleanUp, LoopInv, TypeOK
<1>5. /\ peer' \in [Client -> {"none", "up", "fin"}]
      /\ inbox' \in [Client -> Seq(Token)]
      /\ outbox' \in [Client -> 0..OutCap]
  BY ForgetType DEF CleanUp, LoopInv
<1>6. TypeOK'
  BY <1>1, <1>2, <1>3, <1>4, <1>5 DEF LoopInv, TypeOK, Place
<1>7. SelectSetIsOpenSet' /\ HighestIsMax' /\ ListenerOpen'
  BY <1>1 DEF SelectSetIsOpenSet, HighestIsMax, ListenerOpen, Running
<1>8. PassIsExact' /\ ReadyIsWatched' /\ VisitIsWatched'
  BY <1>1 DEF PassIsExact, ReadyIsWatched, VisitIsWatched, Visiting
<1>. QED
  BY <1>6, <1>7, <1>8 DEF LoopInv

-----------------------------------------------------------------------------
(* The theorems                                                             *)

\* Every step keeps LoopInv: the lemmas above, action by action.
LEMMA NextKeepsLoopInv == LoopInv /\ [Next]_vars => LoopInv'
<1>. SUFFICES ASSUME LoopInv, [Next]_vars
              PROVE  LoopInv'
  OBVIOUS
<1>1. CASE ClientStep
  BY <1>1, ClientKeepsInv
<1>2. CASE Signal
  BY <1>2, SignalKeepsInv
<1>3. CASE SelectStep \/ SelectFails
  BY <1>3, SelectKeepsInv
<1>4. CASE AcceptStep
  BY <1>4, AcceptKeepsInv
<1>5. CASE ReceiveStep
  BY <1>5, ReceiveKeepsInv
<1>6. CASE ReplyStep
  BY <1>6, ReplyKeepsInv
<1>7. CASE CloseStep
  BY <1>7, CloseKeepsInv, CleanUpKeepsInv DEF CloseStep
<1>8. CASE Returned \/ UNCHANGED vars
  <2>1. UNCHANGED vars
    BY <1>8 DEF Returned
  <2>2. TypeOK'
    BY <2>1 DEF vars, serverVars, netVars, LoopInv, TypeOK
  <2>. QED
    BY <2>1, <2>2, SamePlace DEF vars, serverVars, netVars, loopVars
<1>. QED
  BY <1>1, <1>2, <1>3, <1>4, <1>5, <1>6, <1>7, <1>8 DEF Next, ServerStep

\* The inductive invariant of the loop holds in every reachable state.
THEOREM LoopInvariance == Spec => []LoopInv
BY InitLoopInv, NextKeepsLoopInv, PTL DEF Spec

\* Every variable of the loop and of the kernel keeps its type, for any number
\* of clients, descriptors and buffered tokens.
THEOREM TypeCorrect == Spec => []TypeOK
<1>1. LoopInv => TypeOK
  BY DEF LoopInv
<1>. QED
  BY <1>1, LoopInvariance, PTL

\* The select set is exactly the set of open sockets for as long as
\* run_tcp_server runs.
THEOREM SelectSetCorrect == Spec => []SelectSetIsOpenSet
<1>1. LoopInv => SelectSetIsOpenSet
  BY DEF LoopInv
<1>. QED
  BY <1>1, LoopInvariance, PTL

\* highest_socket is the greatest watched descriptor, whatever was accepted
\* and closed in whatever order.
THEOREM HighestCorrect == Spec => []HighestIsMax
<1>1. LoopInv => HighestIsMax
  BY DEF LoopInv
<1>. QED
  BY <1>1, LoopInvariance, PTL

\* A pass visits exactly the descriptors select counted, each still watched.
THEOREM PassCorrect == Spec => []PassIsExact
<1>1. LoopInv => PassIsExact
  BY DEF LoopInv
<1>. QED
  BY <1>1, LoopInvariance, PTL

-----------------------------------------------------------------------------
(* Queues without repetition                                                *)

Distinct(q)     == \A i, j \in 1..Len(q) : q[i] = q[j] => i = j
InQueue(c, q)   == \E i \in 1..Len(q) : q[i] = c

\* Taking the head off a queue takes exactly its client out.
LEMMA TailQueue ==
  ASSUME NEW S, NEW q \in Seq(S), q # <<>>, Distinct(q)
  PROVE  /\ Distinct(Tail(q))
         /\ InQueue(Head(q), q)
         /\ \A c : InQueue(c, Tail(q)) <=> InQueue(c, q) /\ c # Head(q)
<1>1. /\ Len(q) \in Nat /\ Len(q) >= 1
      /\ Len(Tail(q)) = Len(q) - 1
      /\ \A i \in 1..(Len(q) - 1) : Tail(q)[i] = q[i + 1]
      /\ Head(q) = q[1]
  OBVIOUS
<1>2. Distinct(Tail(q))
  BY <1>1 DEF Distinct
<1>3. InQueue(Head(q), q)
  BY <1>1 DEF InQueue
<1>4. ASSUME NEW c, InQueue(c, Tail(q))
      PROVE  InQueue(c, q) /\ c # Head(q)
  <2>1. PICK i \in 1..(Len(q) - 1) : q[i + 1] = c
    BY <1>1, <1>4 DEF InQueue
  <2>2. i + 1 \in 1..Len(q) /\ 1 \in 1..Len(q) /\ i + 1 # 1
    BY <1>1
  <2>. QED
    BY <1>1, <2>1, <2>2 DEF InQueue, Distinct
<1>5. ASSUME NEW c, InQueue(c, q), c # Head(q)
      PROVE  InQueue(c, Tail(q))
  <2>1. PICK i \in 1..Len(q) : q[i] = c
    BY <1>5 DEF InQueue
  <2>2. i - 1 \in 1..(Len(q) - 1) /\ (i - 1) + 1 = i
    BY <1>1, <1>5, <2>1
  <2>. QED
    BY <1>1, <2>1, <2>2 DEF InQueue
<1>. QED
  BY <1>2, <1>3, <1>4, <1>5

\* Appending a client that is not queued.
LEMMA AppendQueue ==
  ASSUME NEW S, NEW q \in Seq(S), NEW d \in S, Distinct(q), ~InQueue(d, q)
  PROVE  /\ Distinct(Append(q, d))
         /\ Append(q, d) # <<>>
         /\ \A c : InQueue(c, Append(q, d)) <=> InQueue(c, q) \/ c = d
<1>1. /\ Len(q) \in Nat
      /\ Len(Append(q, d)) = Len(q) + 1
      /\ \A i \in 1..Len(q) : Append(q, d)[i] = q[i]
      /\ Append(q, d)[Len(q) + 1] = d
  OBVIOUS
<1>2. Distinct(Append(q, d))
  BY <1>1 DEF Distinct, InQueue
<1>3. Append(q, d) # <<>>
  BY <1>1
<1>4. ASSUME NEW c
      PROVE  InQueue(c, Append(q, d)) <=> InQueue(c, q) \/ c = d
  BY <1>1 DEF InQueue
<1>. QED
  BY <1>2, <1>3, <1>4

\* What was appended is there.
LEMMA AppendNotEmpty ==
  ASSUME NEW S, NEW q \in Seq(S), NEW d
  PROVE  Append(q, d) # <<>>
<1>1. Len(Append(q, d)) = Len(q) + 1 /\ Len(q) \in Nat
  OBVIOUS
<1>. QED
  BY <1>1

-----------------------------------------------------------------------------
(* The connection table                                                     *)

\* The table as the lemmas about queues see it.
LEMMA TableParts ==
  ConnectionTable <=>
    /\ \A f, g \in ClientFd : owner[f] # NoClient /\ owner[f] = owner[g] => f = g
    /\ Distinct(backlog)
    /\ \A c \in Client : ~ (Admitted(c) /\ InQueue(c, backlog))
    /\ \A c \in Client : peer[c] # "none" <=> Admitted(c) \/ InQueue(c, backlog)
BY DEF ConnectionTable, Distinct, InQueue, Queued

\* The kernel queues a client that had no connection.
LEMMA ConnectKeepsTable ==
  ASSUME TypeOK, ConnectionTable, NEW c \in Client, Connect(c)
  PROVE  ConnectionTable'
<1>1. /\ backlog' = Append(backlog, c)
      /\ peer' = [peer EXCEPT ![c] = "up"]
      /\ owner' = owner
      /\ peer[c] = "none"
  BY DEF Connect
<1>2. ~Admitted(c) /\ ~InQueue(c, backlog)
  BY <1>1, TableParts
<1>3. /\ Distinct(backlog')
      /\ \A d : InQueue(d, backlog') <=> InQueue(d, backlog) \/ d = c
  BY <1>1, <1>2, TableParts, AppendQueue DEF TypeOK
<1>4. \A d : Admitted(d)' <=> Admitted(d)
  BY <1>1 DEF Admitted
<1>5. \A d \in Client : peer'[d] # "none" <=> peer[d] # "none" \/ d = c
  BY <1>1 DEF TypeOK
<1>6. /\ \A f, g \in ClientFd : owner'[f] # NoClient /\ owner'[f] = owner'[g] => f = g
      /\ \A d \in Client : ~ (Admitted(d)' /\ InQueue(d, backlog'))
      /\ \A d \in Client : peer'[d] # "none" <=> Admitted(d)' \/ InQueue(d, backlog')
  BY <1>1, <1>2, <1>3, <1>4, <1>5, TableParts
<1>. QED
  BY <1>3, <1>6 DEF ConnectionTable, Distinct, InQueue, Queued

\* accept moves the head of the queue to a descriptor that was free.
LEMMA AcceptKeepsTable ==
  ASSUME TypeOK, ConnectionTable, AcceptClient
  PROVE  ConnectionTable'
<1>1. PICK f \in ClientFd : /\ owner[f] = NoClient
                            /\ owner' = [owner EXCEPT ![f] = Head(backlog)]
  BY DEF AcceptClient, FreeFd
<1>2. backlog # <<>> /\ backlog' = Tail(backlog) /\ peer' = peer
  BY DEF AcceptClient
<1>3. Head(backlog) \in Client /\ InQueue(Head(backlog), backlog)
  BY <1>2, TailType, TailQueue, TableParts DEF TypeOK
<1>4. /\ Distinct(backlog')
      /\ \A c : InQueue(c, backlog') <=> InQueue(c, backlog) /\ c # Head(backlog)
  BY <1>2, TailQueue, TableParts DEF TypeOK
<1>5. \A g \in ClientFd : owner'[g] = IF g = f THEN Head(backlog) ELSE owner[g]
  BY <1>1 DEF TypeOK
<1>6. \A c \in Client : Admitted(c)' <=> Admitted(c) \/ c = Head(backlog)
  BY <1>1, <1>5 DEF Admitted
<1>7. ~Admitted(Head(backlog))
  BY <1>3, TableParts
<1>8. \A g, h \in ClientFd : owner'[g] # NoClient /\ owner'[g] = owner'[h] => g = h
  BY <1>5, <1>7, TableParts DEF Admitted
<1>9. /\ \A c \in Client : ~ (Admitted(c)' /\ InQueue(c, backlog'))
      /\ \A c \in Client : peer'[c] # "none" <=> Admitted(c)' \/ InQueue(c, backlog')
  BY <1>2, <1>3, <1>4, <1>6, <1>7, TableParts
<1>. QED
  BY <1>4, <1>8, <1>9 DEF ConnectionTable, Distinct, InQueue, Queued

\* A connection that is not kept leaves the queue and nothing else.
LEMMA RefuseKeepsTable ==
  ASSUME TypeOK, ConnectionTable, RejectClient \/ AcceptAborted
  PROVE  ConnectionTable'
<1>1. /\ backlog # <<>> /\ backlog' = Tail(backlog) /\ owner' = owner
      /\ Forget({Head(backlog)})
  BY DEF RejectClient, AcceptAborted
<1>2. Head(backlog) \in Client /\ InQueue(Head(backlog), backlog)
  BY <1>1, TailType, TailQueue, TableParts DEF TypeOK
<1>3. /\ Distinct(backlog')
      /\ \A c : InQueue(c, backlog') <=> InQueue(c, backlog) /\ c # Head(backlog)
  BY <1>1, TailQueue, TableParts DEF TypeOK
<1>4. \A c \in Client : peer'[c] = IF c = Head(backlog) THEN "none" ELSE peer[c]
  BY <1>1 DEF Forget
<1>5. \A c : Admitted(c)' <=> Admitted(c)
  BY <1>1 DEF Admitted
<1>6. /\ \A f, g \in ClientFd : owner'[f] # NoClient /\ owner'[f] = owner'[g] => f = g
      /\ \A c \in Client : ~ (Admitted(c)' /\ InQueue(c, backlog'))
      /\ \A c \in Client : peer'[c] # "none" <=> Admitted(c)' \/ InQueue(c, backlog')
  BY <1>1, <1>2, <1>3, <1>4, <1>5, TableParts
<1>. QED
  BY <1>3, <1>6 DEF ConnectionTable, Distinct, InQueue, Queued

\* close() frees the descriptor and ends the one connection that was on it.
LEMMA CloseKeepsTable ==
  ASSUME LoopInv, ConnectionTable, CloseSocket
  PROVE  ConnectionTable'
<1>1. fd \in ClientFd /\ Peer \in Client /\ Peer = owner[fd]
  BY PeerIsClient DEF CloseSocket, Peer
<1>2. /\ owner' = [owner EXCEPT ![fd] = NoClient]
      /\ backlog' = backlog
      /\ Forget({Peer})
  BY DEF CloseSocket
<1>3. \A g \in ClientFd : owner'[g] = IF g = fd THEN NoClient ELSE owner[g]
  BY <1>1, <1>2 DEF LoopInv, TypeOK
<1>4. \A c \in Client : peer'[c] = IF c = Peer THEN "none" ELSE peer[c]
  BY <1>2 DEF Forget
<1>5. Admitted(Peer) /\ ~InQueue(Peer, backlog)
  BY <1>1, TableParts DEF Admitted
<1>6. Peer # NoClient
  BY <1>1
<1>7. \A c \in Client : Admitted(c)' <=> Admitted(c) /\ c # Peer
  <2>1. ASSUME NEW c \in Client, Admitted(c)'
        PROVE  Admitted(c) /\ c # Peer
    BY <1>1, <1>3, <1>6, <2>1, TableParts DEF Admitted
  <2>2. ASSUME NEW c \in Client, Admitted(c), c # Peer
        PROVE  Admitted(c)'
    BY <1>1, <1>3, <2>2 DEF Admitted
  <2>. QED
    BY <2>1, <2>2
<1>8. \A f, g \in ClientFd : owner'[f] # NoClient /\ owner'[f] = owner'[g] => f = g
  BY <1>3, TableParts
<1>9. /\ \A c \in Client : ~ (Admitted(c)' /\ InQueue(c, backlog'))
      /\ \A c \in Client : peer'[c] # "none" <=> Admitted(c)' \/ InQueue(c, backlog')
  BY <1>2, <1>4, <1>5, <1>7, TableParts
<1>10. Distinct(backlog')
  BY <1>2, TableParts
<1>. QED
  BY <1>8, <1>9, <1>10 DEF ConnectionTable, Distinct, InQueue, Queued

\* The last loop of run_tcp_server closes everything: it covers the whole
\* select set, which is everything open.
LEMMA CleanUpClosesAll ==
  ASSUME LoopInv, CleanUp
  PROVE  /\ owner' = [f \in ClientFd |-> NoClient]
         /\ listening' = FALSE
         /\ backlog' = <<>>
         /\ Closing = OpenFd
<1>1. Running /\ listening /\ connections = OpenFd /\ Closing = connections
  BY DEF CleanUp, Running, Closing, LoopInv, SelectSetIsOpenSet, HighestIsMax, ListenerOpen
<1>2. Listener \in Closing
  BY <1>1 DEF OpenFd
<1>3. \A f \in ClientFd : f \in Closing <=> owner[f] # NoClient
  BY <1>1 DEF OpenFd, ClientFd
<1>4. owner' = [f \in ClientFd |-> NoClient]
  <2>1. owner' = [f \in ClientFd |-> IF f \in Closing THEN NoClient ELSE owner[f]]
    BY DEF CleanUp
  <2>2. \A f \in ClientFd : (IF f \in Closing THEN NoClient ELSE owner[f]) = NoClient
    BY <1>3
  <2>. QED
    BY <2>1, <2>2
<1>. QED
  BY <1>1, <1>2, <1>4 DEF CleanUp

\* When the server has returned no client has a connection left.
LEMMA CleanUpKeepsTable ==
  ASSUME LoopInv, ConnectionTable, CleanUp
  PROVE  ConnectionTable'
<1>. DEFINE cs == {c \in Client : \/ \E f \in Closing \ {Listener} : owner[f] = c
                                  \/ Listener \in Closing /\ Queued(c)}
<1>1. /\ owner' = [f \in ClientFd |-> NoClient] /\ backlog' = <<>>
      /\ Closing = OpenFd /\ listening
  BY CleanUpClosesAll DEF CleanUp, LoopInv, ListenerOpen, Running
<1>2. peer' = [c \in Client |-> IF c \in cs THEN "none" ELSE peer[c]]
  BY DEF CleanUp, Forget
<1>3. ASSUME NEW c \in Client
      PROVE  c \in cs <=> Admitted(c) \/ Queued(c)
  <2>1. Listener \in Closing
    BY <1>1 DEF OpenFd
  <2>2. ASSUME NEW f \in ClientFd, owner[f] = c
        PROVE  f \in Closing \ {Listener}
    BY <1>1, <2>2 DEF OpenFd, ClientFd
  <2>3. ASSUME NEW f \in Closing \ {Listener}
        PROVE  f \in ClientFd
    BY <1>1, <2>3 DEF OpenFd
  <2>. QED
    BY <2>1, <2>2, <2>3 DEF Admitted
<1>4. \A c \in Client : peer'[c] = "none"
  BY <1>2, <1>3 DEF ConnectionTable
<1>5. \A c \in Client : ~Admitted(c)'
  BY <1>1 DEF Admitted
<1>6. \A c : ~Queued(c)'
  BY <1>1 DEF Queued
<1>. QED
  BY <1>1, <1>4, <1>5, <1>6 DEF ConnectionTable

\* Steps that move no connection.
LEMMA SameTable ==
  ASSUME ConnectionTable, UNCHANGED <<owner, backlog>>,
         \A c \in Client : peer'[c] # "none" <=> peer[c] # "none"
  PROVE  ConnectionTable'
BY DEF ConnectionTable, Admitted, Queued

\* Every step keeps the table of connections.
LEMMA NextKeepsTable ==
  ASSUME LoopInv, ConnectionTable, [Next]_vars
  PROVE  ConnectionTable'
<1>. USE DEF netVars, serverVars
<1>1. CASE ClientStep
  <2>1. ASSUME NEW c \in Client, Connect(c)
        PROVE  ConnectionTable'
    BY <2>1, ConnectKeepsTable DEF LoopInv
  <2>2. ASSUME NEW c \in Client, NEW t \in Token, Send(c, t)
        PROVE  ConnectionTable'
    BY <2>2, SameTable DEF Send
  <2>3. ASSUME NEW c \in Client, ReadAnswer(c)
        PROVE  ConnectionTable'
    BY <2>3, SameTable DEF ReadAnswer
  <2>4. ASSUME NEW c \in Client, HangUp(c)
        PROVE  ConnectionTable'
    BY <2>4, SameTable DEF HangUp, LoopInv, TypeOK
  <2>5. "plain" \in Token
    BY DEF Token, Kind
  <2>. QED
    BY <1>1, <2>1, <2>2, <2>3, <2>4, <2>5 DEF ClientStep
<1>2. CASE SelectStep \/ SelectFails
  <2>1. UNCHANGED netVars
    BY <1>2 DEF SelectStep, BeginPass, EnterSelect, SelectReturns, SelectInterrupted, Visit,
                PassEnds, SelectFails
  <2>. QED
    BY <2>1, SameTable
<1>3. CASE AcceptStep
  <2>1. CASE AcceptExhausted
    BY <2>1, SameTable DEF AcceptExhausted
  <2>. QED
    BY <1>3, <2>1, AcceptKeepsTable, RefuseKeepsTable DEF AcceptStep, LoopInv
<1>4. CASE ReceiveStep
  <2>1. UNCHANGED <<owner, backlog, peer>>
    BY <1>4 DEF ReceiveStep, ReceiveFrame, ReceiveHead, ReceiveStray, ReceiveRest, ByteTimeout,
                ReceiveEof, ReadToken
  <2>. QED
    BY <2>1, SameTable
<1>5. CASE ReplyStep
  <2>1. UNCHANGED <<owner, backlog, peer>>
    BY <1>5 DEF ReplyStep, ReplySent, ReplyFails, ReplyPurges, ReplyRefused
  <2>. QED
    BY <2>1, SameTable
<1>6. CASE CloseStep
  BY <1>6, CloseKeepsTable, CleanUpKeepsTable DEF CloseStep
<1>7. CASE Signal \/ Returned \/ UNCHANGED vars
  <2>1. UNCHANGED <<owner, backlog, peer>>
    BY <1>7 DEF Signal, Returned, vars
  <2>. QED
    BY <2>1, SameTable
<1>. QED
  BY <1>1, <1>2, <1>3, <1>4, <1>5, <1>6, <1>7 DEF Next, ServerStep

-----------------------------------------------------------------------------
(* What select saw stays there until it is visited                          *)

ReadableInv == ReadyStaysReadable /\ NeverWaitsOnIdle

\* A step after which everything that was readable still is, in the same
\* place of the pass.
LEMMA ReadableGrows ==
  ASSUME ReadableInv, UNCHANGED <<pc, ready, fd>>,
         \A f \in Fd : Readable(f) => Readable(f)',
         backlog # <<>> => backlog' # <<>>,
         LoopInv
  PROVE  ReadableInv'
<1>1. Ahead' = Ahead /\ Ahead \subseteq Fd
  BY DEF Ahead, LoopInv, TypeOK
<1>2. pc = "receive" => fd \in Fd
  BY DEF LoopInv, VisitIsWatched, Visiting, TypeOK
<1>. QED
  BY <1>1, <1>2 DEF ReadableInv, ReadyStaysReadable, NeverWaitsOnIdle, Visiting

\* A client cannot take back what it has sent, nor its hanging up.
LEMMA ClientKeepsReadable ==
  ASSUME LoopInv, ReadableInv, ClientStep
  PROVE  ReadableInv'
<1>. USE DEF serverVars
<1>1. UNCHANGED <<pc, ready, fd, owner>>
  BY DEF ClientStep, Connect, Send, ReadAnswer, HangUp
<1>2. backlog # <<>> => backlog' # <<>>
  <2>1. ASSUME NEW c \in Client, Connect(c)
        PROVE  backlog' # <<>>
    BY <2>1 DEF Connect, LoopInv, TypeOK
  <2>2. CASE UNCHANGED backlog
    BY <2>2
  <2>. QED
    BY <2>1, <2>2 DEF ClientStep, Send, ReadAnswer, HangUp
<1>3. \A c \in Client : inbox[c] # <<>> => inbox'[c] # <<>>
  <2>1. ASSUME NEW d \in Client, NEW t \in Token, Send(d, t)
        PROVE  \A c \in Client : inbox[c] # <<>> => inbox'[c] # <<>>
    <3>1. Append(inbox[d], t) # <<>>
      BY AppendNotEmpty DEF LoopInv, TypeOK
    <3>. QED
      BY <2>1, <3>1 DEF Send, LoopInv, TypeOK
  <2>2. CASE UNCHANGED inbox
    BY <2>2
  <2>3. "plain" \in Token
    BY DEF Token, Kind
  <2>. QED
    BY <2>1, <2>2, <2>3 DEF ClientStep, Connect, ReadAnswer, HangUp
<1>4. \A c \in Client : peer[c] = "fin" => peer'[c] = "fin"
  BY DEF ClientStep, Connect, Send, ReadAnswer, HangUp, LoopInv, TypeOK
<1>5. \A f \in Fd : Readable(f) => Readable(f)'
  BY <1>1, <1>2, <1>3, <1>4 DEF Readable, LoopInv, TypeOK
<1>. QED
  BY <1>1, <1>2, <1>5, ReadableGrows

\* Serving one descriptor, and forgetting the client that was on it, leaves
\* what the others have sent: a connection is on one descriptor only.
LEMMA OthersStayReadable ==
  ASSUME LoopInv, NEW S \in SUBSET ClientFd, NEW d \in Client,
         \A f \in S : owner[f] # d /\ owner'[f] = owner[f],
         \A c \in Client \ {d} : inbox'[c] = inbox[c] /\ peer'[c] = peer[c]
  PROVE  \A f \in S : Readable(f) => Readable(f)'
<1>. SUFFICES ASSUME NEW f \in S, Readable(f)
              PROVE  Readable(f)'
  OBVIOUS
<1>1. f \in ClientFd /\ f # Listener
  BY DEF ClientFd
<1>2. owner[f] # NoClient /\ (inbox[owner[f]] # <<>> \/ peer[owner[f]] = "fin")
  BY <1>1 DEF Readable
<1>3. owner[f] \in Client \ {d} /\ owner'[f] = owner[f]
  BY <1>1, <1>2 DEF LoopInv, TypeOK
<1>. QED
  BY <1>1, <1>2, <1>3 DEF Readable

\* While a client socket is served, what is ahead are other client sockets.
LEMMA AheadIsOthers ==
  ASSUME LoopInv, ConnectionTable, pc \in {"receive", "bytes", "reply", "close"}
  PROVE  /\ Ahead \in SUBSET ClientFd
         /\ \A f \in Ahead : f # fd /\ owner[f] # Peer
<1>1. fd \in ClientFd /\ Peer \in Client
  BY PeerIsClient
<1>2. Ahead \subseteq connections /\ connections = OpenFd /\ \A f \in Ahead : fd < f
  BY DEF LoopInv, PassIsExact, SelectSetIsOpenSet, Running, Visiting, Ahead
<1>3. Ahead \subseteq ClientFd
  BY <1>1, <1>2 DEF OpenFd, ClientFd
<1>4. \A f \in Ahead : f # fd
  BY <1>1, <1>2 DEF ClientFd
<1>. QED
  BY <1>1, <1>3, <1>4 DEF ConnectionTable, Peer

\* select reports readable sockets only, and visiting one leaves the others so.
LEMMA SelectKeepsReadable ==
  ASSUME LoopInv, ReadableInv, SelectStep \/ SelectFails
  PROVE  ReadableInv'
<1>. USE DEF netVars, serverVars
<1>1. CASE BeginPass \/ EnterSelect \/ SelectInterrupted \/ SelectFails \/ PassEnds
  BY <1>1 DEF BeginPass, EnterSelect, SelectInterrupted, SelectFails, PassEnds, ReadableInv,
              ReadyStaysReadable, NeverWaitsOnIdle, Visiting
<1>2. CASE SelectReturns
  <2>. DEFINE r == {f \in ready : f <= highest /\ Readable(f)}
  <2>1. pc' = "scan" /\ ready' = r /\ UNCHANGED netVars
    BY <1>2 DEF SelectReturns
  <2>2. Ahead' \subseteq r
    BY <2>1 DEF Ahead
  <2>3. \A f \in r : Readable(f)'
    BY <2>1 DEF Readable
  <2>. QED
    BY <2>1, <2>2, <2>3 DEF ReadableInv, ReadyStaysReadable, NeverWaitsOnIdle
<1>3. CASE Visit
  <2>1. PICK f \in Unvisited :
            /\ fd' = f
            /\ pc' = IF f = Listener THEN "accept" ELSE "receive"
    BY <1>3 DEF Visit
  <2>2. pc = "scan" /\ ready' = ready /\ UNCHANGED netVars
    BY <1>3 DEF Visit
  <2>3. f \in Ahead /\ \A g \in Ahead : Readable(g)
    BY <2>1, <2>2 DEF Unvisited, Ahead, ReadableInv, ReadyStaysReadable
  <2>4. Ahead' \subseteq Ahead
    <3>1. Ahead' = {g \in ready : f < g} /\ Ahead = {g \in ready : fd <= g}
      BY <2>1, <2>2 DEF Ahead
    <3>2. fd <= f /\ fd \in Nat /\ f \in Nat /\ ready \subseteq Nat
      BY <2>1 DEF Unvisited, LoopInv, TypeOK, Fd
    <3>3. \A g \in ready : f < g => fd <= g
      BY <3>2
    <3>. QED
      BY <3>1, <3>3
  <2>5. \A g : Readable(g)' <=> Readable(g)
    BY <2>2 DEF Readable
  <2>6. f = Listener => backlog' # <<>>
    BY <2>2, <2>3 DEF Readable, ClientFd
  <2>. QED
    BY <2>1, <2>3, <2>4, <2>5, <2>6 DEF ReadableInv, ReadyStaysReadable, NeverWaitsOnIdle
<1>. QED
  BY <1>1, <1>2, <1>3 DEF SelectStep

\* accept takes the listener's connection and no byte of another socket.
LEMMA AcceptKeepsReadable ==
  ASSUME LoopInv, ConnectionTable, ReadableInv, AcceptStep
  PROVE  ReadableInv'
<1>. USE DEF netVars
<1>1. /\ pc = "accept" /\ backlog # <<>> /\ Visiting /\ Running /\ Resume
      /\ ready' = ready /\ selected' = selected
  BY DEF AcceptStep, AcceptClient, RejectClient, AcceptExhausted, AcceptAborted, Visiting, Running
<1>2. Ahead \subseteq connections /\ connections = OpenFd /\ \A f \in Ahead : fd < f /\ fd = Listener
  BY <1>1 DEF LoopInv, PassIsExact, SelectSetIsOpenSet, Ahead, VisitIsWatched
<1>3. Ahead \in SUBSET ClientFd /\ \A f \in Ahead : owner[f] # NoClient
  <2>1. \A f \in Ahead : f # Listener
    BY <1>2
  <2>. QED
    BY <1>2, <2>1 DEF OpenFd
<1>4. Head(backlog) \in Client /\ InQueue(Head(backlog), backlog)
  BY <1>1, TailType, TailQueue, TableParts DEF LoopInv, TypeOK
<1>5. \A f \in Ahead : owner[f] # Head(backlog)
  BY <1>3, <1>4, TableParts DEF Admitted
<1>6. connections \subseteq connections'
  BY DEF AcceptStep, AcceptClient, RejectClient, AcceptExhausted, AcceptAborted
<1>7. Ahead' = Ahead
  BY <1>1, <1>2, <1>6, ResumeIsExact
<1>8. \A f \in Ahead : owner'[f] = owner[f]
  <2>1. CASE AcceptClient
    BY <1>3, <2>1 DEF AcceptClient, FreeFd, LoopInv, TypeOK
  <2>2. CASE owner' = owner
    BY <2>2
  <2>. QED
    BY <2>1, <2>2 DEF AcceptStep, RejectClient, AcceptExhausted, AcceptAborted
<1>9. \A c \in Client \ {Head(backlog)} : inbox'[c] = inbox[c] /\ peer'[c] = peer[c]
  BY DEF AcceptStep, AcceptClient, RejectClient, AcceptExhausted, AcceptAborted, Forget
<1>10. \A f \in Ahead : Readable(f) => Readable(f)'
  BY <1>3, <1>4, <1>5, <1>8, <1>9, OthersStayReadable
<1>11. pc' = "scan"
  BY <1>1 DEF Resume
<1>. QED
  BY <1>1, <1>7, <1>10, <1>11 DEF ReadableInv, ReadyStaysReadable, NeverWaitsOnIdle

\* Receiving, replying and closing touch the socket being served only.
LEMMA ServeKeepsReadable ==
  ASSUME LoopInv, ConnectionTable, ReadableInv, ReceiveStep \/ ReplyStep \/ CloseSocket
  PROVE  ReadableInv'
<1>. USE DEF netVars, serverVars
<1>1. /\ pc \in {"receive", "bytes", "reply", "close"}
      /\ pc' \in {"bytes", "reply", "close", "scan"}
      /\ ready' = ready /\ selected' = selected
      /\ pc' = "scan" \/ fd' = fd
      /\ pc' = "scan" => Resume
  BY DEF ReceiveStep, ReceiveFrame, ReceiveHead, ReceiveStray, ReceiveRest, ByteTimeout,
         ReceiveEof, ReadToken, GotRequest, ReplyStep, ReplySent, ReplyFails, ReplyPurges,
         ReplyRefused, CloseSocket, Resume
<1>2. /\ fd \in ClientFd /\ Peer \in Client /\ Visiting
      /\ Ahead \in SUBSET ClientFd
      /\ \A f \in Ahead : f # fd /\ owner[f] # Peer
  BY <1>1, PeerIsClient, AheadIsOthers DEF Visiting
<1>3. connections' = connections \/ connections' = connections \ {fd}
  BY DEF ReceiveStep, ReceiveFrame, ReceiveHead, ReceiveStray, ReceiveRest, ByteTimeout,
         ReceiveEof, ReadToken, ReplyStep, ReplySent, ReplyFails, ReplyPurges,
         ReplyRefused, CloseSocket
<1>4. Ahead \subseteq connections'
  BY <1>2, <1>3 DEF LoopInv, PassIsExact
<1>5. Ahead' = Ahead
  <2>1. CASE pc' = "scan"
    BY <1>1, <1>2, <1>4, <2>1, ResumeIsExact
  <2>2. CASE pc' # "scan"
    BY <1>1, <2>2 DEF Ahead
  <2>. QED
    BY <2>1, <2>2
<1>6. \A f \in Ahead : owner'[f] = owner[f]
  <2>1. CASE CloseSocket
    BY <1>2, <2>1 DEF CloseSocket, LoopInv, TypeOK
  <2>2. CASE owner' = owner
    BY <2>2
  <2>. QED
    BY <2>1, <2>2 DEF ReceiveStep, ReceiveFrame, ReceiveHead, ReceiveStray, ReceiveRest,
         ByteTimeout, ReceiveEof, ReadToken, ReplyStep, ReplySent, ReplyFails, ReplyPurges,
         ReplyRefused
<1>7. \A c \in Client \ {Peer} : inbox'[c] = inbox[c] /\ peer'[c] = peer[c]
  <2>1. CASE CloseSocket
    BY <2>1 DEF CloseSocket, Forget
  <2>2. CASE ReceiveStep
    BY <2>2 DEF ReceiveStep, ReceiveFrame, ReceiveHead, ReceiveStray, ReceiveRest, ByteTimeout,
                ReceiveEof, ReadToken, LoopInv, TypeOK
  <2>3. CASE ReplyStep
    BY <2>3 DEF ReplyStep, ReplySent, ReplyFails, ReplyPurges, ReplyRefused, LoopInv, TypeOK
  <2>. QED
    BY <2>1, <2>2, <2>3
<1>8. \A f \in Ahead : Readable(f) => Readable(f)'
  BY <1>2, <1>6, <1>7, OthersStayReadable
<1>. QED
  BY <1>1, <1>2, <1>5, <1>8 DEF ReadableInv, ReadyStaysReadable, NeverWaitsOnIdle

\* Every step leaves readable what the pass has still to visit.
LEMMA NextKeepsReadable ==
  ASSUME LoopInv, ConnectionTable, ReadableInv, [Next]_vars
  PROVE  ReadableInv'
<1>1. CASE ClientStep
  BY <1>1, ClientKeepsReadable
<1>2. CASE SelectStep \/ SelectFails
  BY <1>2, SelectKeepsReadable
<1>3. CASE AcceptStep
  BY <1>3, AcceptKeepsReadable
<1>4. CASE ReceiveStep \/ ReplyStep \/ CloseSocket
  BY <1>4, ServeKeepsReadable
<1>5. CASE CleanUp
  BY <1>5 DEF CleanUp, ReadableInv, ReadyStaysReadable, NeverWaitsOnIdle, Visiting
<1>6. CASE Signal
  BY <1>6 DEF Signal, serverVars, netVars, ReadableInv, ReadyStaysReadable, NeverWaitsOnIdle,
              Visiting, Ahead, Readable
<1>7. CASE Returned \/ UNCHANGED vars
  <2>1. UNCHANGED <<pc, ready, fd, owner, backlog, inbox, peer>>
    BY <1>7 DEF Returned, vars, serverVars, netVars
  <2>. QED
    BY <2>1, ReadableGrows DEF Readable
<1>. QED
  BY <1>1, <1>2, <1>3, <1>4, <1>5, <1>6, <1>7 DEF Next, ServerStep, CloseStep

-----------------------------------------------------------------------------
(* The theorems                                                             *)

\* At first there is no connection and no pass.
LEMMA InitServeInv == Init => ServeInv
<1>. SUFFICES ASSUME Init
              PROVE  ServeInv
  OBVIOUS
<1>1. ConnectionTable
  BY DEF Init, ConnectionTable, Admitted, Queued
<1>2. ReadyStaysReadable /\ NeverWaitsOnIdle
  BY DEF Init, ReadyStaysReadable, NeverWaitsOnIdle, Visiting
<1>. QED
  BY <1>1, <1>2 DEF ServeInv

\* Connections stay in one place and what select saw stays readable, in every
\* reachable state.
THEOREM ServeInvariance == Spec => []ServeInv
<1>1. LoopInv /\ ServeInv /\ [Next]_vars => ServeInv'
  BY NextKeepsTable, NextKeepsReadable DEF ServeInv, ReadableInv
<1>. QED
  BY <1>1, InitServeInv, LoopInvariance, PTL DEF Spec

\* Every connection is on one descriptor or once in the backlog.
THEOREM TableCorrect == Spec => []ConnectionTable
<1>1. ServeInv => ConnectionTable
  BY DEF ServeInv
<1>. QED
  BY <1>1, ServeInvariance, PTL

\* The server thread never blocks in accept or in the untimed first wait of
\* modbus_receive, for any clients and any traffic.
THEOREM NeverBlocks == Spec => []NeverWaitsOnIdle
<1>1. ServeInv => NeverWaitsOnIdle
  BY DEF ServeInv
<1>. QED
  BY <1>1, ServeInvariance, PTL

\* Every socket is closed when run_tcp_server has returned: the last loop stops
\* at highest_socket, and highest_socket is the greatest open one.
THEOREM NoLeak == Spec => []NothingLeaks
<1>1. Init => NothingLeaks
  BY DEF Init, NothingLeaks
<1>2. ASSUME LoopInv, NothingLeaks, [Next]_vars
      PROVE  NothingLeaks'
  <2>1. CASE CleanUp
    <3>1. \A f \in ClientFd : owner'[f] = NoClient
      BY <2>1, <1>2, CleanUpClosesAll
    <3>2. listening' = FALSE
      BY <2>1, <1>2, CleanUpClosesAll
    <3>3. OpenFd' = {}
      BY <3>1, <3>2 DEF OpenFd
    <3>. QED
      BY <3>3 DEF NothingLeaks
  <2>2. CASE UNCHANGED <<pc, owner, listening>>
    <3>1. OpenFd' = OpenFd
      BY <2>2 DEF OpenFd
    <3>. QED
      BY <1>2, <2>2, <3>1 DEF NothingLeaks
  <2>3. CASE pc' # "returned"
    BY <2>3 DEF NothingLeaks
  <2>4. CASE ClientStep \/ Returned \/ UNCHANGED vars
    BY <2>2, <2>4 DEF ClientStep, Connect, Send, ReadAnswer, HangUp, Returned, vars, netVars
  <2>5. CASE SelectStep \/ SelectFails
    BY <2>3, <2>5 DEF SelectStep, BeginPass, EnterSelect, SelectReturns, SelectInterrupted, Visit,
                      PassEnds, SelectFails
  <2>6. CASE AcceptStep
    BY <2>3, <2>6 DEF AcceptStep, AcceptClient, RejectClient, AcceptExhausted, AcceptAborted,
                      Resume
  <2>7. CASE ReceiveStep
    BY <2>3, <2>7 DEF ReceiveStep, ReceiveFrame, ReceiveHead, ReceiveStray, ReceiveRest,
                      ByteTimeout, ReceiveEof, GotRequest
  <2>8. CASE ReplyStep \/ CloseSocket
    BY <2>3, <2>8 DEF ReplyStep, ReplySent, ReplyFails, ReplyPurges, ReplyRefused, CloseSocket,
                      Resume
  <2>9. CASE Signal
    BY <2>3, <2>9 DEF Signal
  <2>. QED
    BY <1>2, <2>1, <2>4, <2>5, <2>6, <2>7, <2>8, <2>9 DEF Next, ServerStep, CloseStep
<1>. QED
  BY <1>1, <1>2, LoopInvariance, PTL DEF Spec
-----------------------------------------------------------------------------
(* Isolation                                                                *)

\* A good client is never the one whose frame is cut short, refused or dropped.
GoodInv ==
    /\ \A c \in Good : peer[c] # "fin" /\ \A i \in 1..Len(inbox[c]) : inbox[c][i] = "plain"
    /\ pc \in {"bytes", "close"} => owner[fd] \notin Good
    /\ pc = "reply" /\ owner[fd] \in Good => request = "plain"

\* The inbox of a client holds whole plain requests only.
Plain(q) == \A i \in 1..Len(q) : q[i] = "plain"

\* Adding a plain request to plain ones, and taking the first, leaves plain ones.
LEMMA PlainQueues ==
  ASSUME NEW q \in Seq(Token), Plain(q)
  PROVE  /\ Plain(<<>>) /\ Plain(Append(q, "plain"))
         /\ q # <<>> => Head(q) = "plain" /\ Plain(Tail(q)) /\ Len(Tail(q)) < Len(q)
<1>1. Plain(<<>>)
  BY DEF Plain
<1>2. Plain(Append(q, "plain"))
  <2>1. /\ Len(q) \in Nat
        /\ Len(Append(q, "plain")) = Len(q) + 1
        /\ \A i \in 1..Len(q) : Append(q, "plain")[i] = q[i]
        /\ Append(q, "plain")[Len(q) + 1] = "plain"
    BY DEF Token
  <2>. QED
    BY <2>1 DEF Plain
<1>3. ASSUME q # <<>>
      PROVE  Head(q) = "plain" /\ Plain(Tail(q)) /\ Len(Tail(q)) < Len(q)
  <2>1. /\ Len(q) \in Nat /\ Len(q) >= 1 /\ Len(Tail(q)) = Len(q) - 1
        /\ \A i \in 1..(Len(q) - 1) : Tail(q)[i] = q[i + 1]
        /\ Head(q) = q[1]
    BY <1>3
  <2>. QED
    BY <2>1 DEF Plain
<1>. QED
  BY <1>1, <1>2, <1>3

\* GoodInv in terms of plain queues.
LEMMA GoodParts ==
  GoodInv <=> /\ \A c \in Good : peer[c] # "fin" /\ Plain(inbox[c])
              /\ pc \in {"bytes", "close"} => owner[fd] \notin Good
              /\ pc = "reply" /\ owner[fd] \in Good => request = "plain"
BY DEF GoodInv, Plain

\* The same of the next state, as the steps show it.
LEMMA GoodAgain ==
  ASSUME \A c \in Good : peer'[c] # "fin" /\ Plain(inbox'[c]),
         pc' \in {"bytes", "close"} => owner'[fd'] \notin Good,
         pc' = "reply" /\ owner'[fd'] \in Good => request' = "plain"
  PROVE  GoodInv'
BY DEF GoodInv, Plain

\* Connections of clients cs are forgotten: a good client's end is not closed by it.
LEMMA ForgetKeepsGood ==
  ASSUME TypeOK, GoodInv, NEW cs, Forget(cs)
  PROVE  \A c \in Good : peer'[c] # "fin" /\ Plain(inbox'[c])
<1>1. \A c \in Client : /\ peer'[c] = IF c \in cs THEN "none" ELSE peer[c]
                        /\ inbox'[c] = IF c \in cs THEN <<>> ELSE inbox[c]
  BY DEF Forget
<1>2. Plain(<<>>)
  BY DEF Plain
<1>. QED
  BY <1>1, <1>2, GoodParts

\* A good client sends whole plain requests and does not hang up.
LEMMA ClientKeepsGood ==
  ASSUME LoopInv, GoodInv, ClientStep
  PROVE  GoodInv'
<1>1. UNCHANGED <<pc, owner, fd, request>>
  BY DEF ClientStep, Connect, Send, ReadAnswer, HangUp, serverVars
<1>2. ASSUME NEW c \in Good
      PROVE  peer'[c] # "fin" /\ Plain(inbox'[c])
  <2>0. c \in Client /\ peer[c] # "fin" /\ Plain(inbox[c]) /\ inbox[c] \in Seq(Token)
    BY GoodParts DEF LoopInv, TypeOK
  <2>1. ASSUME NEW d \in Client, Connect(d) \/ ReadAnswer(d)
        PROVE  peer'[c] # "fin" /\ Plain(inbox'[c])
    BY <2>0, <2>1 DEF Connect, ReadAnswer, LoopInv, TypeOK
  <2>2. ASSUME NEW d \in Client, NEW t \in Token, Send(d, t), d \in Good => t = "plain"
        PROVE  peer'[c] # "fin" /\ Plain(inbox'[c])
    <3>1. inbox'[c] = IF c = d THEN Append(inbox[c], t) ELSE inbox[c]
      BY <2>0, <2>2 DEF Send, LoopInv, TypeOK
    <3>. QED
      BY <2>0, <2>2, <3>1, PlainQueues DEF Send
  <2>3. ASSUME NEW d \in Client \ Good, HangUp(d)
        PROVE  peer'[c] # "fin" /\ Plain(inbox'[c])
    BY <2>0, <2>3 DEF HangUp, LoopInv, TypeOK
  <2>4. "plain" \in Token
    BY DEF Token, Kind
  <2>. QED
    BY <2>1, <2>2, <2>3, <2>4 DEF ClientStep
<1>. QED
  BY <1>1, <1>2, GoodParts, GoodAgain

\* What is read from a good client is a whole plain request.
LEMMA ReceiveKeepsGood ==
  ASSUME LoopInv, GoodInv, ReceiveStep
  PROVE  GoodInv'
<1>. USE DEF netVars, serverVars
<1>1. /\ UNCHANGED <<owner, fd, peer>>
      /\ pc \in {"receive", "bytes"}
      /\ ReadToken \/ UNCHANGED inbox
  BY DEF ReceiveStep, ReceiveFrame, ReceiveHead, ReceiveStray, ReceiveRest, ByteTimeout,
         ReceiveEof, ReadToken
<1>2. Peer \in Client /\ Peer = owner[fd] /\ inbox \in [Client -> Seq(Token)]
  BY <1>1, PeerIsClient DEF Peer, LoopInv, TypeOK
<1>3. \A c \in Good : peer'[c] # "fin" /\ Plain(inbox'[c])
  <2>1. CASE UNCHANGED inbox
    BY <1>1, <2>1, GoodParts
  <2>2. CASE ReadToken
    <3>1. \A c \in Client : inbox'[c] = IF c = Peer THEN Tail(inbox[c]) ELSE inbox[c]
      BY <1>2, <2>2 DEF ReadToken
    <3>. QED
      BY <1>1, <1>2, <2>2, <3>1, GoodParts, PlainQueues DEF ReadToken
  <2>. QED
    BY <1>1, <2>1, <2>2
<1>4. ASSUME Peer \in Good
      PROVE  pc' = "reply" /\ request' = "plain"
  <2>1. pc = "receive"
    BY <1>1, <1>2, <1>4 DEF GoodInv
  <2>2. ReadToken => Head(inbox[Peer]) = "plain"
    BY <1>2, <1>4, GoodParts, PlainQueues DEF ReadToken
  <2>3. ~ReceiveEof
    BY <1>4, GoodParts DEF ReceiveEof
  <2>4. ReceiveFrame
    BY <2>1, <2>2, <2>3 DEF ReceiveStep, ReceiveHead, ReceiveStray, ReceiveRest, ByteTimeout
  <2>. QED
    BY <2>2, <2>4 DEF ReceiveFrame, GotRequest
<1>. QED
  BY <1>1, <1>2, <1>3, <1>4, GoodAgain

\* A good client's request is answered.
LEMMA ReplyKeepsGood ==
  ASSUME LoopInv, GoodInv, ReplyStep
  PROVE  GoodInv'
<1>. USE DEF netVars, serverVars
<1>1. Peer \in Client /\ Peer = owner[fd] /\ inbox \in [Client -> Seq(Token)]
  BY PeerIsClient DEF ReplyStep, ReplySent, ReplyFails, ReplyPurges, ReplyRefused, Peer, LoopInv,
                      TypeOK
<1>2. Peer \in Good => request = "plain" /\ peer[Peer] # "fin"
  BY <1>1 DEF ReplyStep, ReplySent, ReplyFails, ReplyPurges, ReplyRefused, GoodInv
<1>3. CASE ReplySent
  BY <1>3, GoodParts, GoodAgain DEF ReplySent, Resume
<1>4. CASE ReplyPurges
  <2>1. \A c \in Client : inbox'[c] = IF c = Peer THEN <<>> ELSE inbox[c]
    BY <1>1, <1>4 DEF ReplyPurges
  <2>2. Plain(<<>>)
    BY DEF Plain
  <2>. QED
    BY <1>4, <2>1, <2>2, GoodParts, GoodAgain DEF ReplyPurges
<1>5. CASE ReplyFails \/ ReplyRefused
  BY <1>1, <1>2, <1>5, GoodParts, GoodAgain DEF ReplyFails, ReplyRefused
<1>. QED
  BY <1>3, <1>4, <1>5 DEF ReplyStep

\* Every step keeps good clients as they are.
LEMMA NextKeepsGood ==
  ASSUME LoopInv, GoodInv, [Next]_vars
  PROVE  GoodInv'
<1>. USE DEF netVars, serverVars
<1>1. CASE ClientStep
  BY <1>1, ClientKeepsGood
<1>2. CASE SelectStep \/ SelectFails
  <2>1. UNCHANGED netVars /\ pc' \notin {"bytes", "close", "reply"}
    BY <1>2 DEF SelectStep, BeginPass, EnterSelect, SelectReturns, SelectInterrupted, Visit,
                PassEnds, SelectFails
  <2>. QED
    BY <2>1 DEF GoodInv
<1>3. CASE AcceptStep
  <2>1. pc' = "scan"
    BY <1>3 DEF AcceptStep, AcceptClient, RejectClient, AcceptExhausted, AcceptAborted, Resume
  <2>2. UNCHANGED <<peer, inbox>> \/ Forget({Head(backlog)})
    BY <1>3 DEF AcceptStep, AcceptClient, RejectClient, AcceptExhausted, AcceptAborted
  <2>. QED
    BY <2>1, <2>2, GoodParts, GoodAgain, ForgetKeepsGood DEF LoopInv
<1>4. CASE ReceiveStep \/ ReplyStep
  BY <1>4, ReceiveKeepsGood, ReplyKeepsGood
<1>5. CASE CloseStep
  <2>1. pc' \in {"scan", "returned"} /\ \E cs : Forget(cs)
    BY <1>5 DEF CloseStep, CloseSocket, CleanUp, Resume
  <2>. QED
    BY <2>1, GoodParts, GoodAgain, ForgetKeepsGood DEF LoopInv
<1>6. CASE Signal \/ Returned \/ UNCHANGED vars
  <2>1. UNCHANGED <<owner, fd, peer, inbox, request>> /\ (pc' = pc \/ pc' = "interrupted")
    BY <1>6 DEF Signal, Returned, vars
  <2>. QED
    BY <2>1 DEF GoodInv
<1>. QED
  BY <1>1, <1>2, <1>3, <1>4, <1>5, <1>6 DEF Next, ServerStep

\* A good client is never the one whose frame is cut short, refused or dropped,
\* in every reachable state.
THEOREM GoodInvariance == Spec => []GoodInv
<1>1. Init => GoodInv
  BY DEF Init, GoodInv
<1>. QED
  BY <1>1, NextKeepsGood, LoopInvariance, PTL DEF Spec

\* What GoodClientsKept says of one step and one client.
Kept(c) ==
    /\ Admitted(c) /\ ~Admitted(c)' => pc = "cleanup"
    /\ Admitted(c)' /\ Len(inbox'[c]) < Len(inbox[c])
          => inbox'[c] = Tail(inbox[c]) /\ pc = "receive" /\ owner[fd] = c

\* A step that takes nothing from the client's inbox, and no descriptor from it.
LEMMA Untouched ==
  ASSUME TypeOK, NEW c \in Client, Admitted(c) => Admitted(c)', inbox'[c] = inbox[c]
  PROVE  Kept(c)
<1>1. ~(Len(inbox[c]) < Len(inbox[c]))
  BY DEF TypeOK
<1>. QED
  BY <1>1 DEF Kept

\* No step but those of the final loop closes a good client's connection.
LEMMA NextKeepsClients ==
  ASSUME LoopInv, ConnectionTable, GoodInv, NEW c \in Good, [Next]_vars
  PROVE  Kept(c)
<1>. USE DEF netVars, serverVars
<1>a. TypeOK /\ c \in Client /\ inbox[c] \in Seq(Token)
  BY DEF LoopInv, TypeOK
<1>b. UNCHANGED <<owner, inbox>> => Kept(c)
  BY <1>a, Untouched DEF Admitted
<1>1. CASE ClientStep
  <2>1. UNCHANGED owner
    BY <1>1 DEF ClientStep, Connect, Send, ReadAnswer, HangUp
  <2>2. ASSUME NEW d \in Client, NEW t \in Token, Send(d, t)
        PROVE  Kept(c)
    <3>1. inbox'[c] \in {inbox[c], Append(inbox[c], t)}
      BY <1>a, <2>2 DEF Send, LoopInv, TypeOK
    <3>2. ~(Len(inbox'[c]) < Len(inbox[c]))
      BY <1>a, <3>1
    <3>. QED
      BY <2>1, <3>2 DEF Kept, Admitted
  <2>3. "plain" \in Token
    BY DEF Token, Kind
  <2>. QED
    BY <1>1, <1>b, <2>1, <2>2, <2>3 DEF ClientStep, Connect, ReadAnswer, HangUp
<1>2. CASE SelectStep \/ SelectFails \/ Signal \/ Returned \/ UNCHANGED vars
  BY <1>2, <1>b DEF SelectStep, BeginPass, EnterSelect, SelectReturns, SelectInterrupted, Visit,
                    PassEnds, SelectFails, Signal, Returned, vars
<1>3. CASE AcceptClient
  <2>1. PICK f \in FreeFd : owner' = [owner EXCEPT ![f] = Head(backlog)]
    BY <1>3 DEF AcceptClient
  <2>2. Admitted(c) => Admitted(c)'
    BY <1>a, <2>1 DEF FreeFd, Admitted, TypeOK
  <2>. QED
    BY <1>3, <1>a, <2>2, Untouched DEF AcceptClient
<1>4. CASE RejectClient \/ AcceptAborted
  <2>1. owner' = owner /\ backlog # <<>> /\ Forget({Head(backlog)})
    BY <1>4 DEF RejectClient, AcceptAborted
  <2>2. Head(backlog) \in Client /\ InQueue(Head(backlog), backlog)
    BY <2>1, TailType, TailQueue, TableParts DEF LoopInv, TypeOK
  <2>3. Admitted(c) => c # Head(backlog)
    BY <1>a, <2>2, TableParts
  <2>4. c # Head(backlog) => inbox'[c] = inbox[c]
    BY <1>a, <2>1 DEF Forget
  <2>5. Admitted(c)' <=> Admitted(c)
    BY <2>1 DEF Admitted
  <2>. QED
    BY <1>a, <2>3, <2>4, <2>5, Untouched DEF Kept
<1>5. CASE AcceptExhausted
  BY <1>5, <1>b DEF AcceptExhausted
<1>6. CASE ReceiveStep
  <2>1. UNCHANGED owner /\ pc \in {"receive", "bytes"} /\ (ReadToken \/ UNCHANGED inbox)
    BY <1>6 DEF ReceiveStep, ReceiveFrame, ReceiveHead, ReceiveStray, ReceiveRest, ByteTimeout,
                ReceiveEof, ReadToken
  <2>2. CASE UNCHANGED inbox
    BY <1>b, <2>1, <2>2
  <2>3. CASE ReadToken
    <3>1. inbox'[c] = IF c = Peer THEN Tail(inbox[c]) ELSE inbox[c]
      BY <1>a, <2>3 DEF ReadToken, TypeOK
    <3>2. c = Peer => pc = "receive" /\ owner[fd] = c
      BY <2>1 DEF GoodInv, Peer
    <3>3. Admitted(c) => Admitted(c)'
      BY <2>1 DEF Admitted
    <3>. QED
      BY <1>a, <3>1, <3>2, <3>3, Untouched DEF Kept
  <2>. QED
    BY <2>1, <2>2, <2>3
<1>7. CASE ReplyStep
  <2>1. CASE ReplyPurges
    <3>1. c # Peer
      BY <2>1 DEF ReplyPurges, GoodInv, Peer
    <3>2. inbox'[c] = inbox[c] /\ owner' = owner
      BY <1>a, <2>1, <3>1 DEF ReplyPurges, TypeOK
    <3>. QED
      BY <1>a, <3>2, Untouched DEF Admitted
  <2>. QED
    BY <1>7, <1>b, <2>1 DEF ReplyStep, ReplySent, ReplyFails, ReplyRefused
<1>8. CASE CloseSocket
  <2>1. fd \in ClientFd /\ Peer = owner[fd] /\ Peer # c
    BY <1>8, PeerIsClient DEF CloseSocket, GoodInv, Peer
  <2>2. \A f \in ClientFd : owner[f] = c => owner'[f] = c
    BY <1>a, <1>8, <2>1 DEF CloseSocket, TypeOK
  <2>3. inbox'[c] = inbox[c]
    BY <1>a, <1>8, <2>1 DEF CloseSocket, Forget
  <2>. QED
    BY <1>a, <2>2, <2>3, Untouched DEF Admitted
<1>9. CASE CleanUp
  <2>1. owner' = [f \in ClientFd |-> NoClient] /\ pc = "cleanup"
    BY <1>9, CleanUpClosesAll DEF CleanUp
  <2>2. ~Admitted(c)'
    BY <1>a, <2>1 DEF Admitted
  <2>. QED
    BY <2>1, <2>2 DEF Kept
<1>. QED
  BY <1>1, <1>2, <1>3, <1>4, <1>5, <1>6, <1>7, <1>8, <1>9 DEF Next, ServerStep, AcceptStep, CloseStep

\* A well-behaved client keeps its connection until the server stops, and its
\* requests are taken one at a time and only to be served, whatever the others do.
THEOREM IsolationCorrect == Spec => GoodClientsKept
<1>1. LoopInv /\ ServeInv /\ GoodInv /\ [Next]_vars => \A c \in Good : Kept(c)
  BY NextKeepsClients DEF ServeInv
<1>2. LoopInv /\ ServeInv /\ GoodInv /\ [Next]_vars =>
        [\A c \in Good :
            /\ Admitted(c) /\ ~Admitted(c)' => pc = "cleanup"
            /\ Admitted(c)' /\ Len(inbox'[c]) < Len(inbox[c])
                  => inbox'[c] = Tail(inbox[c]) /\ pc = "receive" /\ owner[fd] = c]_vars
  BY <1>1 DEF Kept
<1>. QED
  BY <1>2, LoopInvariance, ServeInvariance, GoodInvariance, PTL DEF Spec, GoodClientsKept
-----------------------------------------------------------------------------
(* The refinement: the select loop is the serial service                    *)

\* The variables of the service as the loop has them.
Held     == pc \in {"bytes", "reply", "close"}
Accepted == {c \in Client : Admitted(c)}
Closed   == {c \in Client : peer[c] = "fin"}
Serving  == IF Held THEN owner[fd] ELSE NoClient
InHand   == CASE pc = "bytes" -> "part"
              [] pc = "reply" -> request
              [] pc = "close" -> "bad"
              [] OTHER        -> "none"

\* A connection is present in the service when the client's end is not free.
LEMMA PresentClients ==
  ASSUME TypeOK, ConnectionTable, NEW c \in Client
  PROVE  /\ Service!Present(c) <=> peer[c] # "none"
         /\ Service!Waiting(c) <=> InQueue(c, backlog)
<1>1. Service!Waiting(c) <=> InQueue(c, backlog)
  BY DEF Service!Waiting, InQueue
<1>2. Service!Present(c) <=> InQueue(c, backlog) \/ Admitted(c)
  BY <1>1 DEF Service!Present
<1>. QED
  BY <1>1, <1>2, TableParts

\* Nothing of the connections of cs remains, and nothing else is lost.
LEMMA ForgetIsGone ==
  ASSUME TypeOK, NEW c \in Client, Forget({c})
  PROVE  Service!Gone(c)
<1>1. /\ \A d \in Client : peer'[d] = IF d = c THEN "none" ELSE peer[d]
      /\ inbox' = [inbox EXCEPT ![c] = <<>>]
      /\ outbox' = [outbox EXCEPT ![c] = 0]
  BY DEF Forget, TypeOK
<1>2. Closed' = Closed \ {c}
  BY <1>1 DEF Closed
<1>. QED
  BY <1>1, <1>2 DEF Service!Gone, Closed

\* The service does nothing while the loop looks for the next socket.
LEMMA SelectIsStutter ==
  ASSUME UNCHANGED netVars, ~Held, ~Held'
  PROVE  UNCHANGED Service!svars
<1>1. \A c : Admitted(c)' <=> Admitted(c)
  BY DEF Admitted, netVars
<1>2. Accepted' = Accepted /\ Closed' = Closed
  BY <1>1 DEF Accepted, Closed, netVars
<1>3. Serving' = Serving /\ InHand' = InHand
  BY DEF Serving, InHand, Held
<1>. QED
  BY <1>2, <1>3 DEF Service!svars, Accepted, Closed, Serving, InHand, Held, netVars

\* The service, written with the names above.
LEMMA ServiceParts ==
  /\ Service!Admit <=>
        /\ backlog # <<>> /\ Serving = NoClient
        /\ Accepted' = Accepted \cup {Head(backlog)} /\ backlog' = Tail(backlog)
        /\ UNCHANGED <<listening, Closed, inbox, outbox, Serving, InHand>>
  /\ Service!Refuse <=>
        /\ backlog # <<>> /\ Serving = NoClient
        /\ backlog' = Tail(backlog) /\ Service!Gone(Head(backlog))
        /\ UNCHANGED <<listening, Accepted, Serving, InHand>>
  /\ Service!End <=>
        /\ Serving = NoClient
        /\ listening' = FALSE /\ backlog' = <<>> /\ Accepted' = {} /\ Closed' = {}
        /\ inbox' = [c \in Client |-> <<>>] /\ outbox' = [c \in Client |-> 0]
        /\ UNCHANGED <<Serving, InHand>>
BY DEF Service!Admit, Service!Refuse, Service!End, Accepted, Closed, Serving, InHand, Held

\* The service's steps for one client in terms of the loop's variables.
LEMMA ServiceClientParts ==
  ASSUME NEW c \in Client
  PROVE
  /\ Service!Take(c) <=>
        /\ Serving = NoClient /\ c \in Accepted /\ inbox[c] # <<>>
        /\ inbox' = [inbox EXCEPT ![c] = Tail(@)] /\ Serving' = c
        /\ \/ Head(inbox[c]) \in Kind /\ InHand' = Head(inbox[c])
           \/ Head(inbox[c]) \notin Kind /\ InHand' \in Kind \cup {"part", "bad"}
        /\ UNCHANGED <<listening, backlog, Accepted, Closed, outbox>>
  /\ Service!Complete(c) <=>
        /\ Serving = c /\ InHand = "part" /\ inbox[c] # <<>>
        /\ inbox' = [inbox EXCEPT ![c] = Tail(@)] /\ InHand' \in Kind \cup {"bad"}
        /\ UNCHANGED <<listening, backlog, Accepted, Closed, outbox, Serving>>
  /\ Service!GiveUp(c) <=>
        /\ \/ Serving = c /\ (c \in Closed \/ InHand \in {"part", "fatal"})
           \/ Serving = NoClient /\ c \in Accepted \cap Closed /\ inbox[c] = <<>>
        /\ Serving' = c /\ InHand' = "bad"
        /\ UNCHANGED <<listening, backlog, Accepted, Closed, inbox, outbox>>
  /\ Service!Purge(c) <=>
        /\ Serving = c /\ InHand = "purge"
        /\ inbox' = [inbox EXCEPT ![c] = <<>>] /\ InHand' = "plain"
        /\ UNCHANGED <<listening, backlog, Accepted, Closed, outbox, Serving>>
  /\ Service!Answer(c) <=>
        /\ Serving = c /\ InHand = "plain"
        /\ outbox' = [outbox EXCEPT ![c] = @ + 1]
        /\ Serving' = NoClient /\ InHand' = "none"
        /\ UNCHANGED <<listening, backlog, Accepted, Closed, inbox>>
  /\ Service!Drop(c) <=>
        /\ Serving = c /\ InHand = "bad"
        /\ Accepted' = Accepted \ {c}
        /\ Serving' = NoClient /\ InHand' = "none"
        /\ Service!Gone(c)
        /\ UNCHANGED <<listening, backlog>>
BY DEF Service!Take, Service!Complete, Service!GiveUp, Service!Purge, Service!Answer, Service!Drop,
       Accepted, Closed, Serving, InHand, Held

\* What a client does to its own connection.
LEMMA ClientIsService ==
  ASSUME LoopInv, ConnectionTable, ClientStep
  PROVE  Service!Next
<1>1. UNCHANGED <<pc, owner, fd, request, listening>>
  BY DEF ClientStep, Connect, Send, ReadAnswer, HangUp, serverVars
<1>2. Accepted' = Accepted /\ Serving' = Serving /\ InHand' = InHand
  BY <1>1 DEF Accepted, Admitted, Serving, InHand, Held
<1>3. ASSUME NEW c \in Client, Connect(c)
      PROVE  Service!Connect(c)
  <2>1. ~Service!Present(c)
    BY <1>3, PresentClients DEF Connect, LoopInv
  <2>2. Closed' = Closed
    BY <1>3 DEF Connect, Closed, LoopInv, TypeOK
  <2>. QED
    BY <1>2, <1>3, <2>1, <2>2 DEF Connect, Service!Connect, Accepted, Closed, Serving, InHand, Held
<1>4. ASSUME NEW c \in Client, NEW t \in Token, Send(c, t)
      PROVE  Service!Ask(c, t)
  <2>1. Service!Present(c) /\ c \notin Closed
    BY <1>4, PresentClients DEF Send, LoopInv, Closed
  <2>2. Closed' = Closed
    BY <1>4 DEF Send, Closed
  <2>. QED
    BY <1>2, <1>4, <2>1, <2>2 DEF Send, Service!Ask, Accepted, Closed, Serving, InHand, Held
<1>5. ASSUME NEW c \in Client, ReadAnswer(c)
      PROVE  Service!Read(c)
  <2>1. Closed' = Closed
    BY <1>5 DEF ReadAnswer, Closed
  <2>. QED
    BY <1>2, <1>5, <2>1 DEF ReadAnswer, Service!Read, Accepted, Closed, Serving, InHand, Held
<1>6. ASSUME NEW c \in Client, HangUp(c)
      PROVE  Service!Leave(c)
  <2>1. Service!Present(c)
    BY <1>6, PresentClients DEF HangUp, LoopInv
  <2>2. Closed' = Closed \cup {c}
    BY <1>6 DEF HangUp, Closed, LoopInv, TypeOK
  <2>. QED
    BY <1>2, <1>6, <2>1, <2>2 DEF HangUp, Service!Leave, Accepted, Closed, Serving, InHand, Held
<1>7. "plain" \in Token
  BY DEF Token, Kind
<1>. QED
  BY <1>3, <1>4, <1>5, <1>6, <1>7 DEF ClientStep, Service!Next

\* accept admits the head of the queue, or refuses it.
LEMMA AcceptIsService ==
  ASSUME LoopInv, ConnectionTable, AcceptStep
  PROVE  Service!Next \/ UNCHANGED Service!svars
<1>. USE DEF netVars
<1>1. /\ ~Held /\ ~Held' /\ backlog # <<>>
      /\ Serving = NoClient /\ Serving' = NoClient /\ InHand = "none" /\ InHand' = "none"
  BY DEF AcceptStep, AcceptClient, RejectClient, AcceptExhausted, AcceptAborted, Resume, Held,
         Serving, InHand
<1>2. Head(backlog) \in Client
  BY <1>1, TailType DEF LoopInv, TypeOK
<1>3. CASE AcceptClient
  <2>1. PICK f \in ClientFd : /\ owner[f] = NoClient
                              /\ owner' = [owner EXCEPT ![f] = Head(backlog)]
    BY <1>3 DEF AcceptClient, FreeFd
  <2>2. \A c \in Client : Admitted(c)' <=> Admitted(c) \/ c = Head(backlog)
    BY <2>1 DEF Admitted, LoopInv, TypeOK
  <2>3. Accepted' = Accepted \cup {Head(backlog)}
    BY <1>2, <2>2 DEF Accepted
  <2>4. Closed' = Closed
    BY <1>3 DEF AcceptClient, Closed
  <2>5. Service!Admit
    BY <1>1, <1>3, <2>3, <2>4, ServiceParts DEF AcceptClient
  <2>. QED
    BY <2>5 DEF Service!Next
<1>4. CASE RejectClient \/ AcceptAborted
  <2>1. owner' = owner /\ backlog' = Tail(backlog) /\ listening' = listening
        /\ Forget({Head(backlog)})
    BY <1>4 DEF RejectClient, AcceptAborted
  <2>2. PICK d \in Client : d = Head(backlog)
    BY <1>2
  <2>3. Accepted' = Accepted
    BY <2>1 DEF Accepted, Admitted
  <2>4. Forget({d})
    BY <2>1, <2>2 DEF Forget
  <2>5. Service!Gone(d)
    BY <2>4, ForgetIsGone DEF LoopInv
  <2>6. Service!Gone(Head(backlog))
    BY <2>2, <2>5 DEF Service!Gone
  <2>7. Service!Refuse
    BY <1>1, <2>1, <2>3, <2>6, ServiceParts
  <2>. QED
    BY <2>7 DEF Service!Next
<1>5. CASE AcceptExhausted
  BY <1>1, <1>5, SelectIsStutter DEF AcceptExhausted
<1>. QED
  BY <1>3, <1>4, <1>5 DEF AcceptStep

\* modbus_receive takes a frame in hand, completes it, or gives the client up.
LEMMA ReceiveIsService ==
  ASSUME LoopInv, ReceiveStep
  PROVE  Service!Next
<1>. USE DEF netVars, serverVars
<1>1. /\ pc \in {"receive", "bytes"} /\ pc' \in {"bytes", "reply", "close"}
      /\ UNCHANGED <<fd, listening, owner, backlog, peer, outbox>>
  BY DEF ReceiveStep, ReceiveFrame, ReceiveHead, ReceiveStray, ReceiveRest, ByteTimeout,
         ReceiveEof, ReadToken, GotRequest
<1>2. Peer \in Client /\ Peer = owner[fd] /\ Peer \in Accepted
  BY <1>1, PeerIsClient DEF Peer, Accepted, Admitted
<1>3. Accepted' = Accepted /\ Closed' = Closed
  BY <1>1 DEF Accepted, Closed, Admitted
<1>4. /\ Serving' = Peer
      /\ pc = "receive" => Serving = NoClient
      /\ pc = "bytes" => Serving = Peer /\ InHand = "part"
      /\ pc' = "bytes" => InHand' = "part"
      /\ pc' = "reply" => InHand' = request'
      /\ pc' = "close" => InHand' = "bad"
  BY <1>1, <1>2 DEF Serving, InHand, Held
<1>5. CASE ReceiveFrame \/ ReceiveHead \/ ReceiveStray
  <2>1. Service!Take(Peer)
    BY <1>1, <1>2, <1>3, <1>4, <1>5, ServiceClientParts
       DEF ReceiveFrame, ReceiveHead, ReceiveStray, ReadToken, GotRequest, Kind
  <2>. QED
    BY <1>2, <2>1 DEF Service!Next
<1>6. CASE ReceiveRest
  <2>1. Service!Complete(Peer)
    BY <1>1, <1>2, <1>3, <1>4, <1>6, ServiceClientParts DEF ReceiveRest, ReadToken, GotRequest
  <2>. QED
    BY <1>2, <2>1 DEF Service!Next
<1>7. CASE ByteTimeout \/ ReceiveEof
  <2>1. ReceiveEof => Peer \in Closed
    BY <1>2 DEF ReceiveEof, Closed
  <2>2. Service!GiveUp(Peer)
    BY <1>1, <1>2, <1>3, <1>4, <1>7, <2>1, ServiceClientParts DEF ByteTimeout, ReceiveEof
  <2>. QED
    BY <1>2, <2>2 DEF Service!Next
<1>. QED
  BY <1>5, <1>6, <1>7 DEF ReceiveStep

\* modbus_reply answers what is in hand, or gives the client up.
LEMMA ReplyIsService ==
  ASSUME LoopInv, ReplyStep
  PROVE  Service!Next
<1>. USE DEF netVars, serverVars
<1>1. pc = "reply" /\ UNCHANGED <<listening, owner, backlog, peer>>
  BY DEF ReplyStep, ReplySent, ReplyFails, ReplyPurges, ReplyRefused
<1>2. Peer \in Client /\ Peer = owner[fd]
  BY <1>1, PeerIsClient DEF Peer
<1>3. Accepted' = Accepted /\ Closed' = Closed
  BY <1>1 DEF Accepted, Closed, Admitted
<1>4. /\ Serving = Peer /\ InHand = request
      /\ pc' = "scan" => Serving' = NoClient /\ InHand' = "none"
      /\ pc' = "close" /\ fd' = fd => Serving' = Peer /\ InHand' = "bad"
      /\ pc' = "reply" /\ fd' = fd => Serving' = Peer /\ InHand' = request'
  BY <1>1, <1>2 DEF Serving, InHand, Held
<1>5. CASE ReplySent
  <2>1. Service!Answer(Peer)
    BY <1>1, <1>2, <1>3, <1>4, <1>5, ServiceClientParts DEF ReplySent, Resume
  <2>. QED
    BY <1>2, <2>1 DEF Service!Next
<1>6. CASE ReplyPurges
  <2>1. Service!Purge(Peer)
    BY <1>1, <1>2, <1>3, <1>4, <1>6, ServiceClientParts DEF ReplyPurges
  <2>. QED
    BY <1>2, <2>1 DEF Service!Next
<1>7. CASE ReplyFails \/ ReplyRefused
  <2>1. ReplyFails => Peer \in Closed
    BY <1>2 DEF ReplyFails, Closed
  <2>2. Service!GiveUp(Peer)
    BY <1>1, <1>2, <1>3, <1>4, <1>7, <2>1, ServiceClientParts DEF ReplyFails, ReplyRefused
  <2>. QED
    BY <1>2, <2>2 DEF Service!Next
<1>. QED
  BY <1>5, <1>6, <1>7 DEF ReplyStep

\* A client without a connection has sent nothing that is still to be read and
\* has no answer to read: a socket's buffers go with the socket.
FreshInv == \A c \in Client : peer[c] = "none" => inbox[c] = <<>> /\ outbox[c] = 0

\* What is forgotten is fresh again.
LEMMA ForgetKeepsFresh ==
  ASSUME FreshInv, NEW cs, Forget(cs)
  PROVE  FreshInv'
BY DEF FreshInv, Forget

\* Nothing waits for, or from, a client that has not connected.
LEMMA NextKeepsFresh ==
  ASSUME LoopInv, ConnectionTable, FreshInv, [Next]_vars
  PROVE  FreshInv'
<1>. USE DEF netVars, serverVars
<1>1. CASE ClientStep
  <2>1. ASSUME NEW c \in Client, Connect(c)
        PROVE  FreshInv'
    BY <2>1 DEF Connect, FreshInv, LoopInv, TypeOK
  <2>2. ASSUME NEW c \in Client, NEW t \in Token, Send(c, t)
        PROVE  FreshInv'
    BY <2>2 DEF Send, FreshInv, LoopInv, TypeOK
  <2>3. ASSUME NEW c \in Client, ReadAnswer(c) \/ HangUp(c)
        PROVE  FreshInv'
    BY <2>3 DEF ReadAnswer, HangUp, FreshInv, LoopInv, TypeOK
  <2>4. "plain" \in Token
    BY DEF Token, Kind
  <2>. QED
    BY <1>1, <2>1, <2>2, <2>3, <2>4 DEF ClientStep
<1>2. CASE UNCHANGED <<peer, inbox, outbox>>
  BY <1>2 DEF FreshInv
<1>3. CASE ReceiveStep \/ ReplyStep
  <2>1. pc \in {"receive", "bytes", "reply"}
    BY <1>3 DEF ReceiveStep, ReceiveFrame, ReceiveHead, ReceiveStray, ReceiveRest, ByteTimeout,
                ReceiveEof, ReplyStep, ReplySent, ReplyFails, ReplyPurges, ReplyRefused
  <2>2. fd \in ClientFd /\ Peer \in Client /\ Peer = owner[fd]
    BY <2>1, PeerIsClient DEF Peer
  <2>3. peer[Peer] # "none" /\ peer' = peer
    BY <1>3, <2>2, TableParts
       DEF Admitted, ReceiveStep, ReceiveFrame, ReceiveHead, ReceiveStray, ReceiveRest,
           ByteTimeout, ReceiveEof, ReadToken, ReplyStep, ReplySent, ReplyFails, ReplyPurges,
           ReplyRefused
  <2>4. \A c \in Client : c # Peer => inbox'[c] = inbox[c] /\ outbox'[c] = outbox[c]
    BY <1>3
       DEF ReceiveStep, ReceiveFrame, ReceiveHead, ReceiveStray, ReceiveRest, ByteTimeout,
           ReceiveEof, ReadToken, ReplyStep, ReplySent, ReplyFails, ReplyPurges, ReplyRefused,
           LoopInv, TypeOK
  <2>. QED
    BY <2>2, <2>3, <2>4 DEF FreshInv
<1>4. CASE AcceptStep \/ CloseStep
  <2>1. UNCHANGED <<peer, inbox, outbox>> \/ \E cs : Forget(cs)
    BY <1>4 DEF AcceptStep, AcceptClient, RejectClient, AcceptExhausted, AcceptAborted, CloseStep,
                CloseSocket, CleanUp
  <2>. QED
    BY <1>2, <2>1, ForgetKeepsFresh
<1>. QED
  BY <1>1, <1>2, <1>3, <1>4
     DEF Next, ServerStep, SelectStep, BeginPass, EnterSelect, SelectReturns, SelectInterrupted,
         Visit, PassEnds, SelectFails, Signal, Returned, vars

\* Nothing of a closed connection is left over for the client's next one.
THEOREM FreshInvariance == Spec => []FreshInv
<1>1. Init => FreshInv
  BY DEF Init, FreshInv
<1>2. LoopInv /\ ServeInv /\ FreshInv /\ [Next]_vars => FreshInv'
  BY NextKeepsFresh DEF ServeInv
<1>. QED
  BY <1>1, <1>2, LoopInvariance, ServeInvariance, PTL DEF Spec

\* Closing a socket drops the client whose frame was bad; the last loop ends the service.
LEMMA CloseIsService ==
  ASSUME LoopInv, ConnectionTable, FreshInv, CloseStep
  PROVE  Service!Next
<1>1. CASE CloseSocket
  <2>1. fd \in ClientFd /\ Peer \in Client /\ Peer = owner[fd] /\ pc = "close"
    BY <1>1, PeerIsClient DEF CloseSocket, Peer
  <2>2. PICK d \in Client : d = Peer
    BY <2>1
  <2>3. \A g \in ClientFd : owner'[g] = IF g = fd THEN NoClient ELSE owner[g]
    BY <1>1, <2>1 DEF CloseSocket, LoopInv, TypeOK
  <2>4. \A c \in Client : Admitted(c)' <=> Admitted(c) /\ c # d
    BY <2>1, <2>2, <2>3, TableParts DEF Admitted
  <2>5. Accepted' = Accepted \ {d}
    BY <2>4 DEF Accepted
  <2>6. Forget({d})
    BY <1>1, <2>2 DEF CloseSocket, Forget
  <2>7. Service!Gone(d)
    BY <2>6, ForgetIsGone DEF LoopInv
  <2>8. Serving = d /\ InHand = "bad" /\ Serving' = NoClient /\ InHand' = "none"
    BY <1>1, <2>1, <2>2 DEF CloseSocket, Resume, Serving, InHand, Held
  <2>9. UNCHANGED <<listening, backlog>>
    BY <1>1 DEF CloseSocket
  <2>10. Service!Drop(d)
    BY <2>5, <2>7, <2>8, <2>9, ServiceClientParts
  <2>. QED
    BY <2>2, <2>10 DEF Service!Next
<1>2. CASE CleanUp
  <2>1. /\ owner' = [f \in ClientFd |-> NoClient] /\ listening' = FALSE /\ backlog' = <<>>
        /\ Closing = OpenFd /\ listening
    BY <1>2, CleanUpClosesAll DEF CleanUp, LoopInv, ListenerOpen, Running
  <2>2. \A c \in Client : ~Admitted(c)'
    BY <2>1 DEF Admitted
  <2>3. Accepted' = {}
    BY <2>2 DEF Accepted
  <2>. DEFINE cs == {c \in Client : \/ \E f \in Closing \ {Listener} : owner[f] = c
                                    \/ Listener \in Closing /\ Queued(c)}
  <2>4. ASSUME NEW c \in Client, peer[c] # "none"
        PROVE  c \in cs
    <3>1. Listener \in Closing
      BY <2>1 DEF OpenFd
    <3>2. \A f \in ClientFd : owner[f] = c => f \in Closing \ {Listener}
      BY <2>1 DEF OpenFd, ClientFd
    <3>. QED
      BY <2>4, <3>1, <3>2 DEF ConnectionTable, Admitted
  <2>5. \A c \in Client : /\ peer'[c] = IF c \in cs THEN "none" ELSE peer[c]
                          /\ inbox'[c] = IF c \in cs THEN <<>> ELSE inbox[c]
                          /\ outbox'[c] = IF c \in cs THEN 0 ELSE outbox[c]
    BY <1>2 DEF CleanUp, Forget
  <2>6. \A c \in Client : peer'[c] = "none" /\ inbox'[c] = <<>> /\ outbox'[c] = 0
    BY <2>4, <2>5 DEF FreshInv
  <2>7. inbox' = [c \in Client |-> <<>>] /\ outbox' = [c \in Client |-> 0]
    BY <1>2, <2>4, <2>6 DEF CleanUp, Forget, FreshInv
  <2>8. Closed' = {}
    BY <2>6 DEF Closed
  <2>9. Serving = NoClient /\ Serving' = NoClient /\ InHand = "none" /\ InHand' = "none"
    BY <1>2 DEF CleanUp, Serving, InHand, Held
  <2>10. Service!End
    BY <2>1, <2>3, <2>7, <2>8, <2>9, ServiceParts
  <2>. QED
    BY <2>10 DEF Service!Next
<1>. QED
  BY <1>1, <1>2 DEF CloseStep

-----------------------------------------------------------------------------
(* The theorem                                                              *)

\* Every step of the loop is a step of the service, or none.
LEMMA NextIsService ==
  ASSUME LoopInv, ConnectionTable, FreshInv, [Next]_vars
  PROVE  [Service!Next]_(Service!svars)
<1>1. CASE SelectStep \/ SelectFails
  <2>1. UNCHANGED netVars /\ ~Held /\ ~Held'
    BY <1>1 DEF SelectStep, BeginPass, EnterSelect, SelectReturns, SelectInterrupted, Visit,
                PassEnds, SelectFails, Held
  <2>. QED
    BY <2>1, SelectIsStutter
<1>2. CASE Signal \/ Returned \/ UNCHANGED vars
  <2>1. /\ UNCHANGED <<netVars, fd, request>>
        /\ pc' = pc \/ (pc = "select" /\ pc' = "interrupted")
    BY <1>2 DEF Signal, Returned, vars, serverVars
  <2>2. UNCHANGED Service!svars
    <3>1. \A c : Admitted(c)' <=> Admitted(c)
      BY <2>1 DEF Admitted, netVars
    <3>2. Accepted' = Accepted /\ Closed' = Closed
      BY <2>1, <3>1 DEF Accepted, Closed, netVars
    <3>3. Serving' = Serving /\ InHand' = InHand
      BY <2>1 DEF Serving, InHand, Held, netVars
    <3>. QED
      BY <2>1, <3>2, <3>3 DEF Service!svars, Accepted, Closed, Serving, InHand, Held, netVars
  <2>. QED
    BY <2>2
<1>3. CASE ClientStep
  BY <1>3, ClientIsService
<1>4. CASE AcceptStep
  BY <1>4, AcceptIsService
<1>5. CASE ReceiveStep
  BY <1>5, ReceiveIsService
<1>6. CASE ReplyStep
  BY <1>6, ReplyIsService
<1>7. CASE CloseStep
  BY <1>7, CloseIsService
<1>. QED
  BY <1>1, <1>2, <1>3, <1>4, <1>5, <1>6, <1>7 DEF Next, ServerStep

\* The loop begins as the service does.
LEMMA InitIsService == Init => Service!Init
BY DEF Init, Service!Init, Admitted

\* Every behaviour of the select loop, for any number of clients and
\* descriptors, is one of the serial service.
THEOREM ServiceRefinement == Spec => ImplementsService
<1>1. LoopInv /\ ServeInv /\ FreshInv /\ [Next]_vars => [Service!Next]_(Service!svars)
  BY NextIsService DEF ServeInv
<1>. QED
  BY <1>1, InitIsService, LoopInvariance, ServeInvariance, FreshInvariance, PTL
     DEF Spec, ImplementsService, Service!ServiceSpec
=============================================================================
