------------------------ MODULE ModbuscClientProofs ------------------------
(***************************************************************************)
(* Proofs about a run of modbusc, for any range of addresses and any       *)
(* number of serial settings: what is open and set on the line, what is    *)
(* reported, and that the run is one of ModbusScan.                        *)
(***************************************************************************)
EXTENDS ModbuscClient, FiniteSetTheorems, TLAPS

USE RangeAssumption DEF RangeAssumption

-----------------------------------------------------------------------------
(* The inductive invariant                                                  *)

Place == {"connect", "opened", "connecting", "ask", "wait", "next", "close", "done"}
Message == [unit : Addresses, tid : 0..MaxTid, kind : {"ok", "exception", "garbage"}]
Waiting == [req : Requests, tid : 0..MaxTid, by : Addresses]

TypeInv ==
    /\ tcp \in BOOLEAN /\ home \in Settings
    /\ role \in [Addresses -> {"absent", "good", "refuses"}]
    /\ pc \in Place /\ setting \in Settings /\ address \in Addresses /\ tid \in 0..MaxTid
    /\ successes \in Nat /\ opened \in Nat
    /\ exit \in {"running", "success", "failure"} /\ link \in {"up", "down"}
    /\ descriptors \subseteq Settings
    /\ tios \in Settings \cup {AsFound} /\ old_tios \in Settings \cup {AsFound}
    /\ pending \subseteq Waiting /\ buffer \in Seq(Message)
    /\ asked \subseteq Requests /\ reported \subseteq asked /\ timely \subseteq asked
    /\ served \in [Requests \X Addresses -> Nat]
    /\ spoilt \subseteq {"late", "damaged", "lost"}

\* What is open, and whose settings the line has, at each place.
DeviceInv ==
    /\ pc \in {"connect", "done"} => descriptors = {} /\ tios = AsFound
    /\ pc \in {"opened", "connecting"} => descriptors = {setting} /\ tios = AsFound
    /\ pc \in {"ask", "wait", "next", "close"} =>
          /\ descriptors = {setting}
          /\ old_tios = AsFound
          /\ tios = IF tcp \/ link = "down" THEN AsFound ELSE setting
    /\ tcp => old_tios = AsFound
    /\ pc = "connecting" => tcp

\* The requests made come before the one that is next, and have been counted by t_id.
OrderInv ==
    /\ \A q \in asked :
          /\ q[1] <= setting
          /\ pc \in {"connect", "opened", "connecting"} => q[1] < setting
          /\ pc = "ask" => q[1] < setting \/ q[2] < address
          /\ pc \in {"wait", "next", "close"} => q[1] < setting \/ q[2] <= address
    /\ pc = "wait" => Current \in asked /\ Current \notin reported
    /\ pc = "ask" => tid = address - First
    /\ pc \in {"wait", "next"} => tid = (address - First) + 1
    /\ (exit = "running") <=> (pc # "done")
    /\ tcp => setting = NumSettings
    /\ tcp /\ pc \in {"connect", "opened", "connecting"} => asked = {} /\ pending = {}

\* A slave works on a request once, and has not carried it out yet.
ServeInv ==
    /\ \A p \in pending :
          /\ p.req \in asked /\ served[<<p.req, p.by>>] = 0
          /\ p.req[2] \in {p.by, 0}
          /\ tcp => p.req[1] = setting /\ p.req[2] = p.by /\ p.tid = (p.by - First) + 1
          /\ ~tcp => p.req[1] = home
          /\ p.req[1] = setting /\ pc \in {"ask", "wait", "next"} => p.tid = (p.req[2] - First) + 1
    /\ \A p, q \in pending : p.req = q.req /\ p.by = q.by => p = q
    /\ \A r \in Requests \ asked, b \in Addresses : served[<<r, b>>] = 0

\* A good answer in the buffer is that of a slave asked with this setting.
BufferInv ==
    /\ pc \in {"connect", "opened", "connecting"} => buffer = <<>>
    /\ \A i \in 1..Len(buffer) :
          LET m == buffer[i]
          IN  m.kind = "ok" => /\ served[<<<<setting, m.unit>>, m.unit>>] = 1
                               /\ tcp => m.tid = (m.unit - First) + 1

\* What has been reported with this setting.
Found == {r \in reported : r[1] = setting}

\* The counters are positive exactly if something has been reported.
CountInv ==
    /\ pc # "done" => (opened > 0 <=> \E r \in reported : r[1] < setting)
    /\ pc \in {"ask", "wait", "next", "close"} => successes = Cardinality(Found)
    /\ exit # "running" => (exit = "success" <=> reported # {})

\* While nothing has gone wrong on the line, the buffer has at most the answer to the
\* request the client is waiting for.
CalmInv ==
    spoilt = {} =>
        /\ pc # "wait" => buffer = <<>>
        /\ buffer # <<>> =>
              /\ Len(buffer) = 1
              /\ Matches(Head(buffer)) /\ Head(buffer).kind # "garbage"
              /\ \A p \in pending : p.req # Current
        /\ \A r \in timely :
              r \in reported \/ (r = Current /\ pc = "wait" /\ buffer # <<>> /\ Head(buffer).kind = "ok")

ScanInv == TypeInv /\ DeviceInv /\ OrderInv /\ ServeInv /\ BufferInv /\ CountInv /\ CalmInv

-----------------------------------------------------------------------------
(* Types                                                                    *)

\* The variables begin with their types.
LEMMA InitTypes == Init => TypeInv
<1>. SUFFICES ASSUME Init
              PROVE  TypeInv
  OBVIOUS
<1>1. <<>> \in Seq(Message)
  OBVIOUS
<1>2. served \in [Requests \X Addresses -> Nat]
  BY DEF Init
<1>. QED
  BY <1>1, <1>2 DEF Init, TypeInv, Place, Settings, Addresses

\* What main makes of a setting that is done.
LEMMA ReturnStep ==
  ASSUME TypeInv, NEW found \in BOOLEAN, Return(found)
  PROVE  /\ opened' \in Nat /\ (opened' > 0 <=> opened > 0 \/ found)
         /\ setting' \in Settings
         /\ \/ pc' = "connect" /\ setting' = setting + 1 /\ exit' = exit
            \/ /\ pc' = "done" /\ setting' = setting /\ setting = NumSettings
               /\ exit' = IF opened' > 0 THEN "success" ELSE "failure"
BY DEF TypeInv, Return, Settings

\* A new request is one message for each slave that hears it.
LEMMA AskTypes ==
  ASSUME TypeInv, Ask
  PROVE  pending' \subseteq Waiting /\ tid' \in 0..MaxTid /\ Current \in Requests
<1>1. tid' \in 0..MaxTid
  BY DEF TypeInv, Ask, NextTid
<1>2. Current \in Requests /\ Hearers \subseteq Addresses
  BY DEF TypeInv, Current, Requests, Hearers
<1>. QED
  BY <1>1, <1>2 DEF TypeInv, Ask, Waiting

\* The buffer holds messages.
LEMMA ServeTypes ==
  ASSUME TypeInv, Serve
  PROVE  /\ buffer' \in Seq(Message) /\ pending' \subseteq Waiting
         /\ served' \in [Requests \X Addresses -> Nat]
         /\ timely' \subseteq asked \cup {p.req : p \in pending}
         /\ spoilt' \subseteq {"late", "damaged", "lost"}
<1>0. PICK p \in pending : \E answer \in Arrives(p) : ServeOne(p, answer)
  BY DEF Serve
<1>1. PICK answer \in Arrives(p) : ServeOne(p, answer)
  BY <1>0
<1>2. p \in Waiting
  BY DEF TypeInv
<1>3. Answer(p) \in Message /\ Garbage \in Message
  BY <1>2 DEF Answer, Garbage, Message, Waiting, Requests, Addresses
<1>4. answer \in Seq(Message)
  <2>1. answer \in {<<>>, <<Garbage>>, <<Answer(p)>>}
    BY <1>1, Z3 DEF Arrives
  <2>2. <<Garbage>> \in Seq(Message) /\ <<Answer(p)>> \in Seq(Message)
    BY <1>3
  <2>3. <<>> \in Seq(Message)
    OBVIOUS
  <2>. QED
    BY <2>1, <2>2, <2>3, Zenon
<1>5. buffer' \in Seq(Message)
  BY <1>1, <1>4 DEF TypeInv, ServeOne
<1>6. served' \in [Requests \X Addresses -> Nat]
  BY <1>1, <1>2 DEF TypeInv, Waiting, ServeOne
<1>. QED
  BY <1>1, <1>5, <1>6 DEF TypeInv, ServeOne

\* Every step keeps the types.
LEMMA TypeNext ==
  ASSUME TypeInv, OrderInv, ServeInv, [Next]_vars
  PROVE  TypeInv'
<1>. USE DEF TypeInv, fixed, history, clientVars, device, vars
<1>1. CASE Open
  BY <1>1 DEF Open, Place
<1>2. CASE OpenFails
  BY <1>2, ReturnStep DEF OpenFails, Place
<1>3. ASSUME Connected, UNCHANGED descriptors,
             tios' \in Settings \cup {AsFound}, old_tios' \in Settings \cup {AsFound}
      PROVE  TypeInv'
  <2>1. <<>> \in Seq(Message)
    OBVIOUS
  <2>. QED
    BY <1>3, <2>1 DEF Connected, Place, Addresses
<1>4. CASE SetLine
  BY <1>4, <1>3 DEF SetLine
<1>5. CASE StartConnect
  BY <1>5, <1>3 DEF StartConnect, Place
<1>6. CASE Established
  BY <1>6, <1>3 DEF Established
<1>7. CASE SetUpFails
  BY <1>7, ReturnStep DEF SetUpFails, Place
<1>8. CASE Close
  <2>1. <<>> \in Seq(Message)
    OBVIOUS
  <2>2. (successes > 0) \in BOOLEAN
    OBVIOUS
  <2>. QED
    BY <1>8, <2>1, <2>2, ReturnStep DEF Close, Place
<1>9. CASE Ask
  BY <1>9, AskTypes DEF Ask, Place
<1>10. CASE AskFails
  BY <1>10 DEF AskFails, NextTid, Place
<1>11. CASE Receive
  <2>1. buffer' \in Seq(Message)
    <3>1. buffer # <<>> /\ buffer' \in {<<>>, buffer, Tail(buffer)}
      BY <1>11 DEF Receive, Remaining
    <3>2. <<>> \in Seq(Message) /\ Tail(buffer) \in Seq(Message)
      BY <3>1
    <3>. QED
      BY <3>1, <3>2
  <2>2. reported' \subseteq asked
    BY <1>11 DEF Receive, OrderInv
  <2>3. successes' \in Nat
    BY <1>11 DEF Receive
  <2>. QED
    BY <1>11, <2>1, <2>2, <2>3 DEF Receive, Place
<1>12. CASE NothingRead
  BY <1>12 DEF NothingRead, Place
<1>13. CASE Advance
  BY <1>13 DEF Advance, Place, Addresses
<1>14. CASE Serve
  <2>1. timely' \subseteq asked
    <3>1. {p.req : p \in pending} \subseteq asked
      BY DEF ServeInv
    <3>2. timely' \subseteq asked \cup {p.req : p \in pending}
      BY <1>14, ServeTypes
    <3>. QED
      BY <3>1, <3>2, Zenon
  <2>2. UNCHANGED <<fixed, clientVars, device, link, asked, reported>>
    BY <1>14 DEF Serve, ServeOne
  <2>. QED
    BY <1>14, <2>1, <2>2, ServeTypes
<1>15. CASE LinkLost
  <2>1. <<>> \in Seq(Message)
    OBVIOUS
  <2>. QED
    BY <1>15, <2>1 DEF LinkLost
<1>16. CASE UNCHANGED vars
  BY <1>16
<1>. QED
  BY <1>1, <1>2, <1>4, <1>5, <1>6, <1>7, <1>8, <1>9, <1>10, <1>11, <1>12, <1>13, <1>14, <1>15,
     <1>16 DEF Next, ClientStep

-----------------------------------------------------------------------------
(* The descriptors and the line                                             *)

\* Every step keeps what is open, and whose settings the line has, in line with pc.
LEMMA DeviceNext ==
  ASSUME TypeInv, DeviceInv, OrderInv, [Next]_vars
  PROVE  DeviceInv'
<1>. USE DEF TypeInv, DeviceInv, fixed, history, clientVars, device, vars
<1>1. CASE Open
  BY <1>1 DEF Open
<1>2. CASE OpenFails
  BY <1>2, ReturnStep DEF OpenFails
<1>3. CASE SetLine
  BY <1>3 DEF SetLine, Connected
<1>4. CASE StartConnect
  BY <1>4 DEF StartConnect, Connected
<1>5. CASE Established
  BY <1>5 DEF Established, Connected
<1>6. CASE SetUpFails
  BY <1>6, ReturnStep DEF SetUpFails
<1>7. CASE Close
  <2>1. (successes > 0) \in BOOLEAN
    OBVIOUS
  <2>. QED
    BY <1>7, <2>1, ReturnStep DEF Close
<1>8. CASE Ask
  BY <1>8 DEF Ask
<1>9. CASE AskFails
  BY <1>9 DEF AskFails
<1>10. CASE Receive
  BY <1>10 DEF Receive
<1>11. CASE NothingRead
  BY <1>11 DEF NothingRead
<1>12. CASE Advance
  BY <1>12 DEF Advance
<1>13. CASE Serve
  BY <1>13 DEF Serve, ServeOne
<1>14. CASE LinkLost
  BY <1>14 DEF LinkLost, InSession
<1>15. CASE UNCHANGED vars
  BY <1>15
<1>. QED
  BY <1>1, <1>2, <1>3, <1>4, <1>5, <1>6, <1>7, <1>8, <1>9, <1>10, <1>11, <1>12, <1>13, <1>14,
     <1>15 DEF Next, ClientStep

-----------------------------------------------------------------------------
(* The order of the requests                                                *)

\* Every step keeps the requests in their order, and the identifier in line with the address.
LEMMA OrderNext ==
  ASSUME TypeInv, DeviceInv, OrderInv, [Next]_vars
  PROVE  OrderInv'
<1>0. asked \subseteq Requests /\ \A q \in asked : q[1] \in Settings /\ q[2] \in Addresses
  BY DEF TypeInv, Requests
<1>a. /\ setting \in Nat /\ address \in Nat /\ tid \in Nat /\ First <= address /\ address <= Last
      /\ \A q \in asked : q[1] \in Nat /\ q[2] \in Nat
      /\ setting <= NumSettings
  BY <1>0 DEF TypeInv, Settings, Addresses
<1>. USE DEF OrderInv, Current, fixed, history, clientVars, device, vars
<1>1. ASSUME NEW found \in BOOLEAN, Return(found), pc # "done",
             UNCHANGED <<tcp, asked, reported, address>>
      PROVE  OrderInv'
  <2>1. \/ pc' = "connect" /\ setting' = setting + 1 /\ exit' = exit /\ ~tcp
        \/ pc' = "done" /\ setting' = setting /\ exit' # "running"
    BY <1>1, ReturnStep, <1>a DEF Return
  <2>. QED
    BY <2>1, <1>1, <1>a
<1>2. ASSUME Connected, pc \in {"opened", "connecting"}, UNCHANGED tcp
      PROVE  OrderInv'
  BY <1>2, <1>a DEF Connected
<1>3. CASE Open
  BY <1>3 DEF Open
<1>4. CASE OpenFails
  BY <1>4, <1>1 DEF OpenFails
<1>5. CASE SetLine
  BY <1>5, <1>2 DEF SetLine, Connected
<1>6. CASE StartConnect
  <2>1. CASE Connected
    BY <2>1, <1>6, <1>2 DEF StartConnect, Connected
  <2>2. CASE pc' = "connecting" /\ UNCHANGED <<fixed, setting, address, tid, exit, pending, history>>
    BY <2>2, <1>6 DEF StartConnect
  <2>. QED
    BY <1>6, <2>1, <2>2 DEF StartConnect
<1>7. CASE Established
  BY <1>7, <1>2 DEF Established, Connected
<1>8. CASE SetUpFails
  BY <1>8, <1>1 DEF SetUpFails
<1>9. CASE Close
  <2>1. (successes > 0) \in BOOLEAN
    OBVIOUS
  <2>. QED
    BY <1>9, <2>1, <1>1 DEF Close
<1>10. CASE Ask
  <2>1. tid' = (address - First) + 1
    BY <1>10, <1>a DEF Ask, NextTid
  <2>2. Current \notin asked
    BY <1>10, <1>a DEF Ask
  <2>. QED
    BY <2>1, <2>2, <1>10, <1>a DEF Ask, TypeInv
<1>11. CASE AskFails
  <2>1. tid' = (address - First) + 1
    BY <1>11, <1>a DEF AskFails, NextTid
  <2>. QED
    BY <2>1, <1>11, <1>a DEF AskFails
<1>12. CASE Receive
  BY <1>12 DEF Receive
<1>13. CASE NothingRead
  BY <1>13 DEF NothingRead
<1>14. CASE Advance
  BY <1>14, <1>a DEF Advance
<1>15. CASE Serve
  BY <1>15 DEF Serve, ServeOne
<1>16. CASE LinkLost
  BY <1>16 DEF LinkLost
<1>17. CASE UNCHANGED vars
  BY <1>17
<1>. QED
  BY <1>3, <1>4, <1>5, <1>6, <1>7, <1>8, <1>9, <1>10, <1>11, <1>12, <1>13, <1>14, <1>15, <1>16,
     <1>17 DEF Next, ClientStep

-----------------------------------------------------------------------------
(* The requests with the slaves                                             *)

\* A request that is asked is new, and t_id says where in the range it is.
LEMMA AskNew ==
  ASSUME TypeInv, OrderInv, Ask
  PROVE  Current \notin asked /\ tid' = (address - First) + 1
<1>1. address \in Nat /\ First <= address /\ address <= Last /\ setting \in Nat
  BY DEF TypeInv, Settings, Addresses
<1>2. tid' = (address - First) + 1
  BY <1>1 DEF Ask, OrderInv, NextTid
<1>3. Current \notin asked
  BY <1>1 DEF Ask, OrderInv, Current
<1>. QED
  BY <1>2, <1>3

\* Every step keeps the slaves to one request at a time, carried out once.
LEMMA ServeNext ==
  ASSUME TypeInv, DeviceInv, OrderInv, ServeInv, [Next]_vars
  PROVE  ServeInv'
<1>a. /\ setting \in Nat /\ address \in Nat /\ pending \subseteq Waiting
      /\ \A p \in pending : p \in Waiting /\ p.req \in Requests /\ p.by \in Addresses
      /\ served \in [Requests \X Addresses -> Nat]
      /\ \A q \in asked : q[1] \in Nat
  BY DEF TypeInv, Settings, Addresses, Waiting, Requests
<1>. USE DEF fixed, history, clientVars, device, vars
<1>1. ASSUME UNCHANGED <<tcp, home, setting, pending, asked, served>>,
             pc' \in {"ask", "wait", "next"} =>
                 pc \in {"ask", "wait", "next"} \/ \A p \in pending : p.req[1] # setting
      PROVE  ServeInv'
  BY <1>1 DEF ServeInv
<1>2. ASSUME NEW found \in BOOLEAN, Return(found),
             UNCHANGED <<tcp, home, pending, asked, served>>
      PROVE  ServeInv'
  <2>1. pc' \in {"connect", "done"} /\ (tcp => setting' = setting)
    BY <1>2, ReturnStep, <1>a DEF OrderInv, TypeInv, Settings
  <2>. QED
    BY <2>1, <1>2 DEF ServeInv
<1>3. ASSUME Connected, pc \in {"opened", "connecting"} PROVE ServeInv'
  <2>1. \A q \in asked : q[1] \in Nat /\ q[1] < setting
    BY <1>3, <1>a DEF OrderInv
  <2>2. \A q \in asked : q[1] # setting
    BY <2>1, <1>a
  <2>3. \A p \in pending : p.req[1] # setting
    BY <2>2 DEF ServeInv
  <2>. QED
    BY <2>3, <1>1, <1>3 DEF Connected
<1>4. CASE Open
  BY <1>4, <1>1 DEF Open
<1>5. CASE OpenFails
  BY <1>5, <1>2 DEF OpenFails
<1>6. CASE SetLine
  BY <1>6, <1>3 DEF SetLine
<1>7. CASE StartConnect
  BY <1>7, <1>3, <1>1 DEF StartConnect
<1>8. CASE Established
  BY <1>8, <1>3 DEF Established
<1>9. CASE SetUpFails
  BY <1>9, <1>2 DEF SetUpFails
<1>10. CASE Close
  <2>1. (successes > 0) \in BOOLEAN
    OBVIOUS
  <2>. QED
    BY <1>10, <2>1, <1>2 DEF Close
<1>11. CASE Ask
  <2>1. Current \in Requests /\ Current \notin asked /\ tid' = (address - First) + 1
    BY <1>11, AskTypes, AskNew
  <2>2. Current[1] = setting /\ Current[2] = address
    BY DEF Current
  <2>3. \A b \in Hearers : /\ b \in Addresses /\ address \in {b, 0}
                           /\ tcp => b = address
                           /\ ~tcp => setting = home
    BY <1>11 DEF Hearers, Ask, DeviceInv
  <2>4. pending' = pending \cup {[req |-> Current, tid |-> tid', by |-> b] : b \in Hearers}
    BY <1>11 DEF Ask
  <2>5. asked' = asked \cup {Current}
        /\ UNCHANGED <<tcp, home, setting, address, served>> /\ pc = "ask"
    BY <1>11 DEF Ask
  <2>6. ASSUME NEW p \in pending'
        PROVE  \/ p \in pending /\ p.req \in asked
               \/ /\ p.req = Current /\ p.tid = (address - First) + 1 /\ p.by \in Hearers
                  /\ p = [req |-> Current, tid |-> tid', by |-> p.by]
    <3>1. CASE p \in pending
      BY <3>1 DEF ServeInv
    <3>2. CASE p \notin pending
      <4>1. PICK b \in Hearers : p = [req |-> Current, tid |-> tid', by |-> b]
        BY <2>4, <3>2
      <4>2. p.req = Current /\ p.tid = tid' /\ p.by = b
        BY <4>1
      <4>. QED
        BY <4>1, <4>2, <2>1, Zenon
    <3>. QED
      BY <3>1, <3>2
  <2>7. ASSUME NEW p \in pending'
        PROVE  /\ p.req \in asked' /\ served'[<<p.req, p.by>>] = 0
               /\ p.req[2] \in {p.by, 0}
               /\ tcp' => p.req[1] = setting' /\ p.req[2] = p.by /\ p.tid = (p.by - First) + 1
               /\ ~tcp' => p.req[1] = home'
               /\ p.req[1] = setting' => p.tid = (p.req[2] - First) + 1
    <3>1. CASE p \in pending
      BY <3>1, <2>5 DEF ServeInv
    <3>2. CASE p.req = Current /\ p.tid = (address - First) + 1 /\ p.by \in Hearers
      BY <3>2, <2>1, <2>2, <2>3, <2>5 DEF ServeInv
    <3>. QED
      BY <3>1, <3>2, <2>6
  <2>8. ASSUME NEW p \in pending', NEW q \in pending', p.req = q.req, p.by = q.by
        PROVE  p = q
    BY <2>8, <2>6, <2>1 DEF ServeInv
  <2>9. \A r \in Requests \ asked', b \in Addresses : served'[<<r, b>>] = 0
    BY <2>5 DEF ServeInv
  <2>. QED
    BY <2>7, <2>8, <2>9 DEF ServeInv
<1>12. CASE AskFails
  BY <1>12, <1>1 DEF AskFails
<1>13. CASE Receive
  BY <1>13, <1>1 DEF Receive
<1>14. CASE NothingRead
  BY <1>14, <1>1 DEF NothingRead
<1>15. CASE Advance
  BY <1>15, <1>1 DEF Advance
<1>16. CASE Serve
  <2>1. PICK p \in pending : \E answer \in Arrives(p) : ServeOne(p, answer)
    BY <1>16 DEF Serve
  <2>2. PICK answer \in Arrives(p) : ServeOne(p, answer)
    BY <2>1
  <2>3. /\ pending' = pending \ {p}
        /\ UNCHANGED <<tcp, home, setting, pc, asked>>
        /\ \/ served' = served
           \/ served' = [served EXCEPT ![<<p.req, p.by>>] = @ + 1]
    BY <2>2 DEF ServeOne
  <2>4. \A r \in Requests, b \in Addresses :
           r # p.req \/ b # p.by => served'[<<r, b>>] = served[<<r, b>>]
    BY <2>3, <1>a
  <2>5. \A q \in pending' : served'[<<q.req, q.by>>] = 0
    <3> SUFFICES ASSUME NEW q \in pending' PROVE served'[<<q.req, q.by>>] = 0
      OBVIOUS
    <3>1. q \in pending /\ q # p /\ p \in pending
      BY <2>1, <2>3
    <3>2. served[<<q.req, q.by>>] = 0
      BY <3>1 DEF ServeInv
    <3>. QED
      BY <2>4, <3>1, <3>2, <1>a DEF ServeInv
  <2>6. \A r \in Requests \ asked', b \in Addresses : served'[<<r, b>>] = 0
    <3> SUFFICES ASSUME NEW r \in Requests \ asked', NEW b \in Addresses
                 PROVE  served'[<<r, b>>] = 0
      OBVIOUS
    <3>1. asked' = asked /\ p.req \in asked
      BY <2>1, <2>3 DEF ServeInv
    <3>2. r # p.req /\ served[<<r, b>>] = 0
      BY <3>1 DEF ServeInv
    <3>. QED
      BY <2>4, <3>2
  <2>. QED
    BY <2>3, <2>5, <2>6 DEF ServeInv
<1>17. CASE LinkLost
  BY <1>17, <1>1 DEF LinkLost
<1>18. CASE UNCHANGED vars
  BY <1>18, <1>1
<1>. QED
  BY <1>4, <1>5, <1>6, <1>7, <1>8, <1>9, <1>10, <1>11, <1>12, <1>13, <1>14, <1>15, <1>16,
     <1>17, <1>18 DEF Next, ClientStep

-----------------------------------------------------------------------------
(* The answers that have arrived                                            *)

\* What is appended to a buffer, and what is left of it, holds no other messages.
LEMMA Appended ==
  ASSUME NEW s \in Seq(Message), NEW t \in Seq(Message), NEW i \in 1..Len(s \o t)
  PROVE  (\E j \in 1..Len(s) : (s \o t)[i] = s[j]) \/ (\E j \in 1..Len(t) : (s \o t)[i] = t[j])
<1>1. Len(s \o t) = Len(s) + Len(t) /\ Len(s) \in Nat /\ Len(t) \in Nat
  OBVIOUS
<1>2. (s \o t)[i] = IF i <= Len(s) THEN s[i] ELSE t[i - Len(s)]
  OBVIOUS
<1>3. CASE i <= Len(s)
  <2>1. i \in 1..Len(s)
    BY <1>1, <1>3
  <2>. QED
    BY <2>1, <1>2, <1>3
<1>4. CASE ~(i <= Len(s))
  <2>1. i - Len(s) \in 1..Len(t)
    BY <1>1, <1>4
  <2>. QED
    BY <2>1, <1>2, <1>4
<1>. QED
  BY <1>3, <1>4

\* What is left of the buffer was in it.
LEMMA LeftOver ==
  ASSUME NEW s \in Seq(Message), s # <<>>, NEW t \in {<<>>, s, Tail(s)}, NEW i \in 1..Len(t)
  PROVE  \E j \in 1..Len(s) : t[i] = s[j]
<1>1. CASE t = <<>>
  BY <1>1
<1>2. CASE t = s
  BY <1>2
<1>3. CASE t = Tail(s)
  <2>1. Len(t) = Len(s) - 1 /\ t[i] = s[i + 1] /\ Len(s) \in Nat
    BY <1>3
  <2>2. i + 1 \in 1..Len(s)
    BY <2>1
  <2>. QED
    BY <2>1, <2>2
<1>. QED
  BY <1>1, <1>2, <1>3

\* Reading leaves the buffer, or takes its first message or all of it.
LEMMA ReceiveBuffer ==
  ASSUME TypeInv, Receive
  PROVE  buffer # <<>> /\ buffer' \in {<<>>, buffer, Tail(buffer)}
BY DEF Receive, Remaining

\* An answer reaches the client from a slave that was asked with this setting.
LEMMA ArrivesHere ==
  ASSUME TypeInv, DeviceInv, ServeInv, NEW p \in pending, <<Answer(p)>> \in Arrives(p)
  PROVE  /\ p.req[1] = setting /\ p.req[2] = p.by /\ InSession
         /\ tcp => p.tid = (p.by - First) + 1
         /\ ~tcp => p.by # 0
<1>0. <<Answer(p)>> # <<>>
  OBVIOUS
<1>1. InSession /\ link = "up"
  BY <1>0 DEF Arrives, TypeInv
<1>2. CASE tcp
  BY <1>1, <1>2 DEF ServeInv
<1>3. CASE ~tcp
  <2>1. Answer(p).kind # Garbage.kind
    BY DEF Answer, Garbage
  <2>2. <<Answer(p)>> # <<Garbage>>
    BY <2>1
  <2>3. p.req[2] # 0 /\ tios = home
    BY <1>1, <1>3, <2>2 DEF Arrives
  <2>4. tios = setting
    BY <1>1, <1>3 DEF DeviceInv, InSession
  <2>. QED
    BY <1>1, <1>3, <2>3, <2>4 DEF ServeInv
<1>. QED
  BY <1>2, <1>3

\* Every step keeps the answers in the buffer those of the slaves that sent them.
LEMMA BufferNext ==
  ASSUME TypeInv, DeviceInv, OrderInv, ServeInv, BufferInv, [Next]_vars
  PROVE  BufferInv'
<1>. USE DEF fixed, history, clientVars, device, vars
<1>1. ASSUME UNCHANGED <<tcp, setting, served, buffer>>,
             pc' \in {"connect", "opened", "connecting"} => pc \in {"connect", "opened", "connecting"}
      PROVE  BufferInv'
  BY <1>1 DEF BufferInv
<1>2. ASSUME buffer' = <<>> PROVE BufferInv'
  BY <1>2 DEF BufferInv
<1>3. ASSUME NEW found \in BOOLEAN, Return(found), UNCHANGED buffer,
             pc \in {"connect", "opened", "connecting"}
      PROVE  BufferInv'
  BY <1>3, <1>2 DEF BufferInv
<1>4. CASE Open
  BY <1>4, <1>1 DEF Open
<1>5. CASE OpenFails
  BY <1>5, <1>3 DEF OpenFails
<1>6. CASE SetLine
  BY <1>6, <1>2 DEF SetLine, Connected
<1>7. CASE StartConnect
  BY <1>7, <1>1, <1>2 DEF StartConnect, Connected
<1>8. CASE Established
  BY <1>8, <1>2 DEF Established, Connected
<1>9. CASE SetUpFails
  BY <1>9, <1>3 DEF SetUpFails
<1>10. CASE Close
  BY <1>10, <1>2 DEF Close
<1>11. CASE Ask
  BY <1>11, <1>1 DEF Ask
<1>12. CASE AskFails
  BY <1>12, <1>1 DEF AskFails
<1>13. CASE Receive
  <2>1. buffer \in Seq(Message) /\ buffer # <<>> /\ buffer' \in {<<>>, buffer, Tail(buffer)}
    BY <1>13, ReceiveBuffer DEF TypeInv
  <2>2. UNCHANGED <<tcp, setting, served>> /\ pc' = "next"
    BY <1>13 DEF Receive
  <2>3. ASSUME NEW i \in 1..Len(buffer')
        PROVE  \E j \in 1..Len(buffer) : buffer'[i] = buffer[j]
    BY <2>1, LeftOver
  <2>4. ASSUME NEW i \in 1..Len(buffer'), buffer'[i].kind = "ok"
        PROVE  /\ served'[<<<<setting', buffer'[i].unit>>, buffer'[i].unit>>] = 1
               /\ tcp' => buffer'[i].tid = (buffer'[i].unit - First) + 1
    <3>1. PICK j \in 1..Len(buffer) : buffer'[i] = buffer[j]
      BY <2>3
    <3>2. /\ served[<<<<setting, buffer[j].unit>>, buffer[j].unit>>] = 1
          /\ tcp => buffer[j].tid = (buffer[j].unit - First) + 1
      BY <2>4, <3>1 DEF BufferInv
    <3>. QED
      BY <2>2, <3>1, <3>2
  <2>. QED
    BY <2>2, <2>4 DEF BufferInv
<1>14. CASE NothingRead
  BY <1>14, <1>1 DEF NothingRead
<1>15. CASE Advance
  BY <1>15, <1>1 DEF Advance
<1>16. CASE Serve
  <2>1. PICK p \in pending : \E answer \in Arrives(p) : ServeOne(p, answer)
    BY <1>16 DEF Serve
  <2>2. PICK answer \in Arrives(p) : ServeOne(p, answer)
    BY <2>1
  <2>3. p \in Waiting /\ p.req \in Requests /\ p.by \in Addresses
    BY DEF TypeInv, Waiting
  <2>4. served \in [Requests \X Addresses -> Nat] /\ served[<<p.req, p.by>>] = 0
    BY DEF TypeInv, ServeInv
  <2>5. /\ buffer' = buffer \o answer /\ UNCHANGED <<tcp, setting, pc>>
        /\ served' = IF role[p.by] = "good" THEN [served EXCEPT ![<<p.req, p.by>>] = @ + 1]
                                            ELSE served
    BY <2>2 DEF ServeOne
  <2>6. answer \in {<<>>, <<Garbage>>, <<Answer(p)>>}
    BY <2>2, Z3 DEF Arrives
  <2>7. CASE answer = <<>>
    <3>1. buffer' = buffer
      BY <2>5, <2>7 DEF TypeInv
    <3>2. ASSUME NEW i \in 1..Len(buffer), buffer[i].kind = "ok"
          PROVE  served'[<<<<setting, buffer[i].unit>>, buffer[i].unit>>] = 1
      <4>1. buffer[i] \in Message /\ setting \in Settings
        BY DEF TypeInv
      <4>2. <<<<setting, buffer[i].unit>>, buffer[i].unit>> \in Requests \X Addresses
        BY <4>1 DEF Message, Requests
      <4>3. served[<<<<setting, buffer[i].unit>>, buffer[i].unit>>] = 1
        BY <3>2 DEF BufferInv
      <4>. QED
        BY <4>2, <4>3, <2>4, <2>5
    <3>. QED
      BY <3>1, <3>2, <2>5 DEF BufferInv
  <2>8. CASE answer # <<>>
    <3>1. InSession
      BY <2>2, <2>8 DEF Arrives
    <3>2. answer \in Seq(Message) /\ Len(answer) = 1
      <4>1. Answer(p) \in Message /\ Garbage \in Message
        BY <2>3 DEF Answer, Garbage, Message, Waiting, Requests, Addresses
      <4>2. \A m \in Message : <<m>> \in Seq(Message) /\ Len(<<m>>) = 1
        OBVIOUS
      <4>3. answer = <<Garbage>> \/ answer = <<Answer(p)>>
        BY <2>6, <2>8
      <4>. QED
        BY <4>1, <4>2, <4>3, Zenon
    <3>3. ASSUME NEW m \in Message, m.kind = "ok",
                 \/ \E j \in 1..Len(buffer) : m = buffer[j]
                 \/ m = answer[1]
          PROVE  /\ served'[<<<<setting, m.unit>>, m.unit>>] = 1
                 /\ tcp => m.tid = (m.unit - First) + 1
      <4>1. <<<<setting, m.unit>>, m.unit>> \in Requests \X Addresses
        BY DEF Message, Requests, TypeInv
      <4>2. CASE \E j \in 1..Len(buffer) : m = buffer[j]
        <5>1. served[<<<<setting, m.unit>>, m.unit>>] = 1 /\ (tcp => m.tid = (m.unit - First) + 1)
          BY <4>2, <3>3 DEF BufferInv
        <5>. QED
          BY <5>1, <4>1, <2>4, <2>5
      <4>3. CASE m = answer[1]
        <5>1. answer # <<Garbage>>
          BY <4>3, <3>3 DEF Garbage
        <5>2. answer = <<Answer(p)>>
          BY <5>1, <2>6, <2>8
        <5>3. m = Answer(p)
          BY <5>2, <4>3
        <5>4. p.req[1] = setting /\ p.req[2] = p.by /\ (tcp => p.tid = (p.by - First) + 1)
          BY <5>2, <2>2, ArrivesHere
        <5>5. role[p.by] = "good" /\ m.unit = p.by /\ m.tid = p.tid
          BY <5>3, <5>4, <3>3 DEF Answer
        <5>6. p.req = <<setting, p.by>>
          BY <5>4, <2>3 DEF Requests
        <5>7. served'[<<p.req, p.by>>] = 1
          BY <5>5, <2>3, <2>4, <2>5
        <5>. QED
          BY <5>4, <5>5, <5>6, <5>7
      <4>. QED
        BY <4>2, <4>3, <3>3
    <3>4. ASSUME NEW i \in 1..Len(buffer')
          PROVE  /\ buffer'[i] \in Message
                 /\ (\E j \in 1..Len(buffer) : buffer'[i] = buffer[j]) \/ buffer'[i] = answer[1]
      <4>1. buffer' \in Seq(Message)
        BY <3>2, <2>5 DEF TypeInv
      <4>2. (\E j \in 1..Len(buffer) : buffer'[i] = buffer[j])
            \/ (\E j \in 1..Len(answer) : buffer'[i] = answer[j])
        <5>1. buffer \in Seq(Message) /\ buffer' = buffer \o answer /\ i \in 1..Len(buffer \o answer)
          BY <2>5 DEF TypeInv
        <5>. QED
          BY <5>1, <3>2, Appended, Zenon
      <4>. QED
        BY <4>1, <4>2, <3>2
    <3>5. ASSUME NEW i \in 1..Len(buffer'), buffer'[i].kind = "ok"
          PROVE  /\ served'[<<<<setting', buffer'[i].unit>>, buffer'[i].unit>>] = 1
                 /\ tcp' => buffer'[i].tid = (buffer'[i].unit - First) + 1
      <4>1. PICK m \in Message : m = buffer'[i]
        BY <3>4
      <4>2. /\ served'[<<<<setting, m.unit>>, m.unit>>] = 1
            /\ tcp => m.tid = (m.unit - First) + 1
        BY <3>3, <3>4, <3>5, <4>1
      <4>. QED
        BY <4>1, <4>2, <2>5
    <3>. QED
      BY <3>1, <3>5, <2>5 DEF BufferInv, InSession
  <2>. QED
    BY <2>7, <2>8
<1>17. CASE LinkLost
  BY <1>17, <1>1, <1>2 DEF LinkLost
<1>18. CASE UNCHANGED vars
  BY <1>18, <1>1
<1>. QED
  BY <1>4, <1>5, <1>6, <1>7, <1>8, <1>9, <1>10, <1>11, <1>12, <1>13, <1>14, <1>15, <1>16,
     <1>17, <1>18 DEF Next, ClientStep

-----------------------------------------------------------------------------
(* The counters                                                             *)

\* The addresses found are finitely many, and some if their number is not 0.
LEMMA FoundCount ==
  ASSUME TypeInv
  PROVE  /\ IsFiniteSet(Found) /\ Cardinality(Found) \in Nat
         /\ Cardinality(Found) > 0 <=> Found # {}
<1>1. IsFiniteSet(Settings) /\ IsFiniteSet(Addresses)
  BY FS_Interval DEF Settings, Addresses
<1>2. IsFiniteSet(Requests)
  BY <1>1, FS_Product DEF Requests
<1>3. IsFiniteSet(Found)
  BY <1>2, FS_Subset DEF TypeInv, Found
<1>. QED
  BY <1>3, FS_CardinalityType, FS_EmptySet

\* Every step keeps the counts in line with what was reported.
LEMMA CountNext ==
  ASSUME TypeInv, OrderInv, CountInv, [Next]_vars
  PROVE  CountInv'
<1>a. /\ setting \in Nat /\ opened \in Nat
      /\ \A r \in reported : r \in asked /\ r[1] \in Nat
      /\ \A r \in reported : r[1] <= setting
  <2>1. \A r \in reported : r \in asked /\ r \in Requests
    BY DEF TypeInv
  <2>2. \A r \in Requests : r[1] \in Nat
    BY DEF Requests, Settings
  <2>. QED
    BY <2>1, <2>2 DEF TypeInv, OrderInv, Settings
<1>. USE DEF fixed, history, clientVars, device, vars
<1>1. ASSUME UNCHANGED <<setting, successes, opened, exit, reported>>,
             pc' = "done" => pc = "done",
             pc' \in {"ask", "wait", "next", "close"} => pc \in {"ask", "wait", "next", "close"},
             pc = "done" => pc' = "done"
      PROVE  CountInv'
  BY <1>1 DEF CountInv, Found
<1>2. ASSUME NEW found \in BOOLEAN, Return(found), UNCHANGED reported, pc # "done",
             found <=> \E r \in reported : r[1] = setting
      PROVE  CountInv'
  <2>1. opened' > 0 <=> \E r \in reported : r[1] <= setting
    <3>1. opened' > 0 <=> opened > 0 \/ found
      BY <1>2, ReturnStep
    <3>2. opened > 0 <=> \E r \in reported : r[1] < setting
      BY <1>2 DEF CountInv, Found
    <3>. QED
      BY <3>1, <3>2, <1>2, <1>a
  <2>2. CASE pc' = "connect" /\ setting' = setting + 1 /\ exit' = exit
    <3>1. exit = "running"
      BY <1>2 DEF OrderInv
    <3>2. opened' > 0 <=> \E r \in reported' : r[1] < setting'
      BY <2>1, <2>2, <1>2, <1>a
    <3>. QED
      BY <2>2, <3>1, <3>2 DEF CountInv, Found
  <2>3. CASE pc' = "done" /\ exit' = IF opened' > 0 THEN "success" ELSE "failure"
    <3>1. opened' > 0 <=> reported' # {}
      BY <2>1, <1>2, <1>a
    <3>. QED
      BY <2>3, <3>1 DEF CountInv, Found
  <2>. QED
    BY <1>2, <2>2, <2>3, ReturnStep
<1>3. ASSUME pc \in {"connect", "opened", "connecting"}
      PROVE  ~\E r \in reported : r[1] = setting
  BY <1>3, <1>a DEF OrderInv
<1>4. ASSUME Connected, pc \in {"opened", "connecting"} PROVE CountInv'
  <2>1. Found' = {}
    BY <1>4, <1>3 DEF Found, Connected
  <2>2. Cardinality(Found') = 0
    BY <2>1, FS_EmptySet
  <2>3. UNCHANGED <<setting, opened, exit, reported>> /\ successes' = 0 /\ pc' = "ask"
        /\ exit = "running"
    BY <1>4 DEF Connected, OrderInv
  <2>. QED
    BY <1>4, <2>2, <2>3 DEF CountInv, Found
<1>5. CASE Open
  BY <1>5, <1>1 DEF Open
<1>6. CASE OpenFails
  BY <1>6, <1>2, <1>3 DEF OpenFails
<1>7. CASE SetLine
  BY <1>7, <1>4 DEF SetLine
<1>8. CASE StartConnect
  BY <1>8, <1>4, <1>1 DEF StartConnect
<1>9. CASE Established
  BY <1>9, <1>4 DEF Established
<1>10. CASE SetUpFails
  BY <1>10, <1>2, <1>3 DEF SetUpFails
<1>11. CASE Close
  <2>1. successes > 0 <=> \E r \in reported : r[1] = setting
    BY <1>11, FoundCount DEF Close, CountInv, Found
  <2>2. (successes > 0) \in BOOLEAN
    OBVIOUS
  <2>. QED
    BY <1>11, <2>1, <2>2, <1>2 DEF Close
<1>12. CASE Ask
  BY <1>12, <1>1 DEF Ask
<1>13. CASE AskFails
  BY <1>13, <1>1 DEF AskFails
<1>14. CASE Receive
  <2>1. UNCHANGED <<setting, opened, exit>> /\ pc = "wait" /\ pc' = "next"
    BY <1>14 DEF Receive
  <2>2. CASE UNCHANGED <<successes, reported>>
    BY <2>1, <2>2 DEF CountInv, Found
  <2>3. CASE successes' = successes + 1 /\ reported' = reported \cup {Current}
    <3>1. Current \notin Found /\ Current[1] = setting
      BY <2>1 DEF OrderInv, Found, Current
    <3>2. Found' = Found \cup {Current}
      BY <2>1, <2>3, <3>1 DEF Found
    <3>3. Cardinality(Found') = Cardinality(Found) + 1
      BY <3>1, <3>2, FoundCount, FS_AddElement
    <3>4. successes = Cardinality(Found)
      BY <2>1 DEF CountInv, Found
    <3>5. \A r \in reported' : r[1] < setting' <=> r \in reported /\ r[1] < setting
      BY <2>1, <2>3, <3>1, <1>a
    <3>6. exit' = "running"
      BY <2>1 DEF OrderInv
    <3>. QED
      BY <2>1, <2>3, <3>3, <3>4, <3>5, <3>6 DEF CountInv, Found
  <2>. QED
    BY <1>14, <2>2, <2>3 DEF Receive
<1>15. CASE NothingRead
  BY <1>15, <1>1 DEF NothingRead
<1>16. CASE Advance
  BY <1>16, <1>1 DEF Advance
<1>17. CASE Serve
  BY <1>17, <1>1 DEF Serve, ServeOne
<1>18. CASE LinkLost
  BY <1>18, <1>1 DEF LinkLost
<1>19. CASE UNCHANGED vars
  BY <1>19, <1>1
<1>. QED
  BY <1>5, <1>6, <1>7, <1>8, <1>9, <1>10, <1>11, <1>12, <1>13, <1>14, <1>15, <1>16,
     <1>17, <1>18, <1>19 DEF Next, ClientStep

-----------------------------------------------------------------------------
(* The line on which nothing has gone wrong                                 *)

\* While nothing goes wrong, only the answer to the current request arrives, into an
\* empty buffer, and no other slave works on that request.
LEMMA CalmServe ==
  ASSUME TypeInv, DeviceInv, OrderInv, ServeInv, CalmInv, NEW p \in pending,
         NEW answer \in Arrives(p), ServeOne(p, answer), spoilt' = {}
  PROVE  \/ /\ answer = <<>> /\ buffer' = buffer /\ timely' = timely
         \/ /\ answer = <<Answer(p)>> /\ buffer' = answer /\ buffer = <<>>
            /\ pc = "wait" /\ p.req = Current /\ Matches(Answer(p))
            /\ Answer(p).kind # "garbage"
            /\ \A q \in pending \ {p} : q.req # Current
            /\ timely' = IF role[p.by] = "good" THEN timely \cup {Current} ELSE timely
<1>1. answer \in {<<>>, <<Garbage>>, <<Answer(p)>>}
  BY Z3 DEF Arrives
<1>2. answer # <<Garbage>>
  BY DEF ServeOne
<1>3. spoilt = {} /\ <<>> # <<Answer(p)>>
  BY DEF ServeOne
<1>4. CASE answer = <<>>
  <2>1. buffer' = buffer
    BY <1>4 DEF ServeOne, TypeInv
  <2>2. timely' = timely
    BY <1>4, <1>3 DEF ServeOne
  <2>. QED
    BY <1>4, <2>1, <2>2
<1>5. CASE answer = <<Answer(p)>>
  <2>1. pc = "wait" /\ p.req = Current
    BY <1>5 DEF ServeOne
  <2>2. buffer = <<>>
    BY <1>3, <2>1 DEF CalmInv
  <2>3. buffer' = answer
    <3>1. Answer(p) \in Message
      BY DEF TypeInv, Waiting, Requests, Answer, Message
    <3>2. <<Answer(p)>> \in Seq(Message)
      BY <3>1
    <3>3. \A t \in Seq(Message) : <<>> \o t = t
      OBVIOUS
    <3>. QED
      BY <1>5, <2>2, <3>2, <3>3 DEF ServeOne
  <2>4. /\ p.req[1] = setting /\ p.req[2] = p.by
        /\ tcp => p.tid = (p.by - First) + 1
        /\ ~tcp => p.by # 0
    BY <1>5, ArrivesHere
  <2>5. p.by = address
    BY <2>1, <2>4 DEF Current
  <2>6. Matches(Answer(p)) /\ Answer(p).kind # "garbage"
    BY <2>1, <2>4, <2>5 DEF Matches, Answer, OrderInv
  <2>7. \A q \in pending \ {p} : q.req # Current
    <3>1. ASSUME NEW q \in pending, q.req = Current
          PROVE  q.by = p.by
      <4>1. q.req[2] = address
        BY <3>1 DEF Current
      <4>. QED
        BY <2>4, <2>5, <4>1 DEF ServeInv
    <3>. QED
      BY <3>1, <2>1 DEF ServeInv
  <2>8. timely' = IF role[p.by] = "good" THEN timely \cup {Current} ELSE timely
    BY <1>5, <2>1 DEF ServeOne
  <2>. QED
    BY <1>5, <2>1, <2>2, <2>3, <2>6, <2>7, <2>8
<1>. QED
  BY <1>1, <1>2, <1>4, <1>5

\* While nothing goes wrong, every step leaves at most the awaited answer in the buffer.
LEMMA CalmNext ==
  ASSUME TypeInv, DeviceInv, OrderInv, ServeInv, CalmInv, [Next]_vars
  PROVE  CalmInv'
<1>. SUFFICES ASSUME spoilt' = {}
              PROVE  CalmInv'
  BY DEF CalmInv
<1>. USE DEF fixed, history, clientVars, device, vars
<1>1. ASSUME buffer' = <<>>, spoilt = {}, UNCHANGED <<reported, timely>>,
             pc = "wait" => buffer = <<>>
      PROVE  CalmInv'
  BY <1>1 DEF CalmInv
<1>2. ASSUME pc # "wait", UNCHANGED <<reported, timely, buffer, spoilt>>
      PROVE  CalmInv'
  BY <1>2, <1>1 DEF CalmInv
<1>3. CASE Open
  BY <1>3, <1>2 DEF Open
<1>4. CASE OpenFails
  BY <1>4, <1>2 DEF OpenFails
<1>5. CASE SetLine
  BY <1>5, <1>1 DEF SetLine, Connected
<1>6. CASE StartConnect
  BY <1>6, <1>1, <1>2 DEF StartConnect, Connected
<1>7. CASE Established
  BY <1>7, <1>1 DEF Established, Connected
<1>8. CASE SetUpFails
  BY <1>8, <1>2 DEF SetUpFails
<1>9. CASE Close
  BY <1>9, <1>1 DEF Close
<1>10. CASE Ask
  BY <1>10, <1>2 DEF Ask
<1>11. CASE AskFails
  BY <1>11, <1>2 DEF AskFails
<1>12. CASE Receive
  <2>1. spoilt = {} /\ pc = "wait" /\ pc' = "next" /\ buffer # <<>> /\ timely' = timely
    BY <1>12 DEF Receive
  <2>2. buffer \in Seq(Message) /\ Len(buffer) = 1
        /\ Matches(Head(buffer)) /\ Head(buffer).kind # "garbage"
    BY <2>1 DEF CalmInv, TypeInv
  <2>3. buffer' = Tail(buffer)
    BY <1>12, <2>2 DEF Receive, Remaining
  <2>4. buffer' = <<>>
    BY <2>2, <2>3
  <2>5. \A r \in timely : r \in reported'
    <3>1. Head(buffer).kind = "ok" => reported' = reported \cup {Current}
      BY <1>12, <2>2 DEF Receive
    <3>2. reported \subseteq reported'
      BY <1>12 DEF Receive
    <3>. QED
      BY <2>1, <3>1, <3>2 DEF CalmInv
  <2>. QED
    BY <2>1, <2>4, <2>5 DEF CalmInv
<1>13. CASE NothingRead
  BY <1>13, <1>1 DEF NothingRead
<1>14. CASE Advance
  BY <1>14, <1>2 DEF Advance
<1>15. CASE Serve
  <2>1. PICK p \in pending : \E answer \in Arrives(p) : ServeOne(p, answer)
    BY <1>15 DEF Serve
  <2>2. PICK answer \in Arrives(p) : ServeOne(p, answer)
    BY <2>1
  <2>3. /\ spoilt = {} /\ pending' = pending \ {p}
        /\ UNCHANGED <<tcp, pc, setting, address, tid, reported>>
    BY <2>2 DEF ServeOne
  <2>4. CASE buffer' = buffer /\ timely' = timely
    BY <2>3, <2>4 DEF CalmInv, Current, Matches
  <2>5. CASE /\ answer = <<Answer(p)>> /\ buffer' = answer /\ buffer = <<>>
             /\ pc = "wait" /\ p.req = Current /\ Matches(Answer(p))
             /\ Answer(p).kind # "garbage"
             /\ \A q \in pending \ {p} : q.req # Current
             /\ timely' = IF role[p.by] = "good" THEN timely \cup {Current} ELSE timely
    <3>1. Len(buffer') = 1 /\ Head(buffer') = Answer(p)
      BY <2>5
    <3>2. Current' = Current /\ (Matches(Answer(p)))'
      <4>1. Answer(p)' = Answer(p)
        BY <2>2 DEF ServeOne, Answer
      <4>. QED
        BY <2>3, <2>5, <4>1 DEF Current, Matches
    <3>3. \A r \in timely : r \in reported
      BY <2>3, <2>5 DEF CalmInv
    <3>4. role[p.by] = "good" => Answer(p).kind = "ok"
      BY DEF Answer
    <3>. QED
      BY <2>3, <2>5, <3>1, <3>2, <3>3, <3>4 DEF CalmInv, Matches, Current
  <2>. QED
    BY <2>2, <2>4, <2>5, CalmServe
<1>16. CASE LinkLost
  <2>1. spoilt = {} /\ buffer' = buffer
    BY <1>16 DEF LinkLost
  <2>. QED
    BY <1>16, <2>1 DEF LinkLost, CalmInv, Current, Matches
<1>17. CASE UNCHANGED vars
  BY <1>17 DEF CalmInv, Current, Matches
<1>. QED
  BY <1>3, <1>4, <1>5, <1>6, <1>7, <1>8, <1>9, <1>10, <1>11, <1>12, <1>13, <1>14, <1>15,
     <1>16, <1>17 DEF Next, ClientStep

-----------------------------------------------------------------------------
(* The theorems                                                             *)

\* The invariant holds at first.
LEMMA InitInv == Init => ScanInv
<1>. SUFFICES ASSUME Init
              PROVE  ScanInv
  OBVIOUS
<1>1. TypeInv
  BY InitTypes
<1>2. DeviceInv
  BY DEF Init, DeviceInv
<1>3. OrderInv
  BY DEF Init, OrderInv
<1>4. ServeInv
  BY DEF Init, ServeInv
<1>5. BufferInv
  BY DEF Init, BufferInv
<1>6. CountInv
  BY DEF Init, CountInv
<1>7. CalmInv
  BY DEF Init, CalmInv
<1>. QED
  BY <1>1, <1>2, <1>3, <1>4, <1>5, <1>6, <1>7 DEF ScanInv

\* Every step keeps the invariant, part by part.
LEMMA InvNext == ScanInv /\ [Next]_vars => ScanInv'
BY TypeNext, DeviceNext, OrderNext, ServeNext, BufferNext, CountNext, CalmNext DEF ScanInv

(* The inductive invariant holds in every state of every run.               *)
THEOREM ScanInvariant == Spec => []ScanInv
<1>. QED
  BY InitInv, InvNext, PTL DEF Spec

(* Types, and `successes` counts what has been printed on this connection   *)
(* (process_requests), however many addresses and settings there are.       *)
THEOREM ScanTypes == Spec => []TypeOK
<1>1. ScanInv => TypeOK
  BY DEF ScanInv, TypeInv, CountInv, Found, TypeOK, Place, InSession
<1>. QED
  BY <1>1, ScanInvariant, PTL

(* Between two settings and at the end nothing is open and the serial line  *)
(* is as it was found (_modbus_rtu_connect, _modbus_rtu_close and the error *)
(* paths of modbus_connect), whichever step fails.                          *)
THEOREM LineRestored == Spec => []LineGivenBack
<1>1. ScanInv => LineGivenBack
  BY DEF ScanInv, DeviceInv, TypeInv, LineGivenBack
<1>. QED
  BY <1>1, ScanInvariant, PTL

(* Unless an answer is late, damaged or lost, a slave that carries out its  *)
(* request while process_requests waits for it is reported.                 *)
THEOREM CalmScanReports == Spec => []OnlyLateAnswersHurt
<1>1. ScanInv => OnlyLateAnswersHurt
  BY DEF ScanInv, CalmInv, OnlyLateAnswersHurt
<1>. QED
  BY <1>1, ScanInvariant, PTL

-----------------------------------------------------------------------------
(* The run keeps its promise                                                *)

\* The scan begins as its promise does.
LEMMA PromiseInit == Init => Promise!AInit
BY DEF Init, Promise!AInit, Requests, Promise!Requests

\* The last return of a setting finishes the promise, and any other is nothing to it.
LEMMA ReturnFinishes ==
  ASSUME ScanInv, CountInv', NEW found \in BOOLEAN, Return(found), pc # "done",
         UNCHANGED <<asked, served, reported>>
  PROVE  Promise!AFinish \/ UNCHANGED Promise!avars
<1>1. exit = "running"
  BY DEF ScanInv, OrderInv
<1>2. CASE exit' = exit
  BY <1>2 DEF Promise!avars
<1>3. CASE exit' \in {"success", "failure"}
  <2>1. exit' = "success" <=> reported # {}
    BY <1>3 DEF CountInv
  <2>. QED
    BY <1>1, <1>3, <2>1 DEF Promise!AFinish
<1>. QED
  BY <1>2, <1>3 DEF Return

\* Each request is the next one of the promise.
LEMMA AskAsks == ScanInv /\ Ask => Promise!AAsk
<1>. SUFFICES ASSUME ScanInv, Ask
              PROVE  Promise!AAsk
  OBVIOUS
<1>1. Current \in Promise!Requests
  BY AskTypes DEF ScanInv, Requests, Promise!Requests
<1>2. \A q \in asked : Promise!Before(q, Current)
  <2>1. \A q \in asked : q[1] \in Nat /\ q[2] \in Nat
    BY DEF ScanInv, TypeInv, Requests, Settings, Addresses
  <2>2. setting \in Nat /\ address \in Nat
    BY DEF ScanInv, TypeInv, Settings, Addresses
  <2>. QED
    BY <2>1, <2>2 DEF Ask, ScanInv, OrderInv, Current, Promise!Before
<1>3. exit = "running"
  BY DEF Ask, ScanInv, OrderInv
<1>. QED
  BY <1>1, <1>2, <1>3 DEF Ask, history, Promise!AAsk

\* A slave carries out a request as the promise allows, or answers with an exception.
LEMMA ServeServes == ScanInv /\ Serve => Promise!AServe \/ UNCHANGED Promise!avars
<1>. SUFFICES ASSUME ScanInv, Serve
              PROVE  Promise!AServe \/ UNCHANGED Promise!avars
  OBVIOUS
<1>1. PICK p \in pending : \E answer \in Arrives(p) : ServeOne(p, answer)
  BY DEF Serve
<1>2. PICK answer \in Arrives(p) : ServeOne(p, answer)
  BY <1>1
<1>3. UNCHANGED <<asked, reported, exit>>
  BY <1>2 DEF ServeOne, clientVars
<1>4. p \in Waiting /\ p.req \in asked /\ p.by \in Addresses
  BY DEF ScanInv, TypeInv, ServeInv, Waiting
<1>5. served[<<p.req, p.by>>] = 0 /\ p.req[2] \in {p.by, 0}
  BY DEF ScanInv, ServeInv
<1>6. CASE role[p.by] = "good"
  <2>1. served' = [served EXCEPT ![<<p.req, p.by>>] = 1]
    BY <1>2, <1>5, <1>6 DEF ServeOne
  <2>. QED
    BY <1>3, <1>4, <1>5, <2>1 DEF Promise!AServe
<1>7. CASE role[p.by] # "good"
  BY <1>2, <1>3, <1>7 DEF ServeOne, Promise!avars
<1>. QED
  BY <1>6, <1>7

\* What is reported as a success is one the promise allows.
LEMMA ReceiveReports == ScanInv /\ Receive => Promise!AReport \/ UNCHANGED Promise!avars
<1>. SUFFICES ASSUME ScanInv, Receive
              PROVE  Promise!AReport \/ UNCHANGED Promise!avars
  OBVIOUS
<1>1. pc = "wait" /\ buffer # <<>> /\ UNCHANGED <<asked, served, exit>>
  BY DEF Receive
<1>2. CASE reported' = reported
  BY <1>1, <1>2 DEF Promise!avars
<1>3. CASE Head(buffer).kind = "ok" /\ Matches(Head(buffer)) /\ reported' = reported \cup {Current}
  <2>1. Current \in asked \ reported /\ exit = "running"
    BY <1>1 DEF ScanInv, OrderInv
  <2>2. Promise!IsLast(Current)
    <3>1. \A q \in asked : q \in Requests /\ q[1] \in Nat /\ q[2] \in Nat /\ q = <<q[1], q[2]>>
      BY DEF ScanInv, TypeInv, Requests, Settings, Addresses
    <3>2. setting \in Nat /\ address \in Nat
      BY DEF ScanInv, TypeInv, Settings, Addresses
    <3>3. \A q \in asked : q[1] <= setting /\ (q[1] < setting \/ q[2] <= address)
      BY <1>1 DEF ScanInv, OrderInv
    <3>4. \A q \in asked : q = Current \/ Promise!Before(q, Current)
      BY <3>1, <3>2, <3>3 DEF Current, Promise!Before
    <3>. QED
      BY <2>1, <3>4 DEF Promise!IsLast
  <2>3. served[<<Current, Current[2]>>] = 1
    <3>1. buffer \in Seq(Message) /\ 1 \in 1..Len(buffer) /\ Head(buffer) = buffer[1]
          /\ Head(buffer) \in Message
      BY <1>1 DEF ScanInv, TypeInv
    <3>2. /\ served[<<<<setting, Head(buffer).unit>>, Head(buffer).unit>>] = 1
          /\ tcp => Head(buffer).tid = (Head(buffer).unit - First) + 1
      BY <1>3, <3>1 DEF ScanInv, BufferInv
    <3>3. Head(buffer).unit = address
      <4>1. Head(buffer).unit \in Nat /\ address \in Nat
        BY <3>1 DEF ScanInv, TypeInv, Message, Addresses
      <4>2. tid = (address - First) + 1
        BY <1>1 DEF ScanInv, OrderInv
      <4>. QED
        BY <1>3, <3>2, <4>1, <4>2 DEF Matches
    <3>. QED
      BY <3>2, <3>3 DEF Current
  <2>. QED
    BY <1>1, <1>3, <2>1, <2>2, <2>3 DEF Promise!AReport
<1>. QED
  BY <1>2, <1>3 DEF Receive

\* Every step of the scan is one of the promise, or nothing to it.
LEMMA PromiseNext == ScanInv /\ CountInv' /\ [Next]_vars => [Promise!ANext]_(Promise!avars)
<1>. SUFFICES ASSUME ScanInv, CountInv', [Next]_vars
              PROVE  Promise!ANext \/ UNCHANGED Promise!avars
  OBVIOUS
<1>. USE DEF fixed, history, clientVars, device, vars, Promise!ANext
<1>1. CASE OpenFails
  BY <1>1, ReturnFinishes DEF OpenFails
<1>2. CASE SetUpFails
  BY <1>2, ReturnFinishes DEF SetUpFails
<1>3. CASE Close
  <2>1. (successes > 0) \in BOOLEAN
    OBVIOUS
  <2>. QED
    BY <1>3, <2>1, ReturnFinishes DEF Close
<1>4. CASE Ask
  BY <1>4, AskAsks
<1>5. CASE Serve
  BY <1>5, ServeServes
<1>6. CASE Receive
  BY <1>6, ReceiveReports
<1>7. CASE \/ Open \/ SetLine \/ StartConnect \/ Established \/ AskFails \/ NothingRead
           \/ Advance \/ LinkLost \/ UNCHANGED vars
  BY <1>7 DEF Open, SetLine, StartConnect, Established, Connected, AskFails, NothingRead,
              Advance, LinkLost, Promise!avars
<1>. QED
  BY <1>1, <1>2, <1>3, <1>4, <1>5, <1>6, <1>7 DEF Next, ClientStep

(* A run of modbusc asks each address once with each setting, in order, no  *)
(* slave carries out a request twice, an address is reported only if that   *)
(* slave has carried the request out, and main's exit status says whether   *)
(* anything was reported: for any range, any settings, and any delays.      *)
THEOREM ScanKeepsPromise == Spec => ImplementsScan
<1>1. ScanInv /\ ScanInv' /\ [Next]_vars => [Promise!ANext]_(Promise!avars)
  BY PromiseNext DEF ScanInv
<1>. QED
  BY <1>1, PromiseInit, ScanInvariant, PTL DEF Spec, ImplementsScan, Promise!ASpec

=============================================================================
