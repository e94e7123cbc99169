-------------------------- MODULE ModbussRtuProofs --------------------------
(***************************************************************************)
(* Proofs about `modbuss rtu` on a calm bus, for any length of the receive *)
(* buffer: no request is taken for an answer, the server speaks in turn,   *)
(* and no request that can be answered is missed.                          *)
(***************************************************************************)
EXTENDS ModbussRtuServer, TLAPS

USE BoundAssumption DEF BoundAssumption

-----------------------------------------------------------------------------
(* The inductive invariant                                                 *)

\* The request another slave answers.
Foreign == [kind |-> "plain", slave |-> "other", live |-> FALSE, size |-> 0]

Final == buffer[Len(buffer)]

\* What the master waits for, and where its request is.
WaitInv ==
    /\ out \in Asked \cup {NoMessage}
    /\ due => out = Foreign
    /\ pc \in {"reply", "answer"} =>
          current = out /\ current.slave # "other" /\ buffer = <<>> /\ ~ignore
    /\ pc \in {"outer", "done"} => buffer = <<>>
    /\ pc \in {"outer", "close"} /\ ~stop => ~ignore /\ (plugged => ~due /\ ~Own(out))
    /\ pc = "done" => stop \/ ~plugged
    /\ pc = "receive" /\ plugged =>
          /\ ignore /\ buffer = <<>> => out # NoMessage
          /\ due => (IF buffer = <<>> THEN ignore ELSE Final = out)
          /\ Own(out) /\ ~stop => buffer # <<>> /\ Final = out

\* The buffer holds foreign requests, each with its answer, and at most one more request,
\* or what is left of a noisy one.
LineInv ==
    /\ ignore /\ buffer # <<>> => Head1.kind \in {"answer", "rest"}
    /\ \A i \in 1..Len(buffer) :
          /\ buffer[i].kind = "rest" => Len(buffer) = 1 /\ out.kind = "noise"
          /\ buffer[i].kind = "answer" => IF i = 1 THEN ignore ELSE buffer[i - 1].kind \in Request
          /\ buffer[i].kind \in Request /\ i < Len(buffer) =>
                buffer[i] = Foreign /\ buffer[i + 1].kind = "answer"
          /\ buffer[i].kind \in Request /\ i = Len(buffer) =>
                buffer[i] = out \/ (buffer[i] = Foreign /\ (~plugged \/ pc = "close"))

MissInv == ~stop /\ plugged => last # "missed"

BusInv == TypeOK /\ (regime = "calm" => WaitInv /\ LineInv /\ MissInv)

-----------------------------------------------------------------------------
(* Types                                                                   *)

\* What the master, the other slave and a misread message put on the line are messages.
LEMMA Messages ==
  /\ NoMessage \in Message /\ Foreign \in Message /\ Asked \subseteq Message
  /\ [kind |-> "answer", slave |-> "other", live |-> FALSE, size |-> 0] \in Message
  /\ \A n \in 0..MaxResidue : Rest(n) \in Message
<1>1. 0 \in 0..MaxResidue
  OBVIOUS
<1>2. NoMessage \in Message /\ Foreign \in Message
  BY <1>1 DEF NoMessage, Foreign, Message, Request, Slave
<1>3. ASSUME NEW m \in Asked
      PROVE  m \in Message
  <2>1. CASE \E k \in Request : m = [kind |-> k, slave |-> "mine", live |-> TRUE, size |-> 0]
    BY <1>1, <2>1 DEF Message, Slave
  <2>2. CASE \E k \in {"plain", "noise"} :
                m = [kind |-> k, slave |-> "other", live |-> FALSE, size |-> 0]
    BY <1>1, <2>2 DEF Message, Slave, Request
  <2>3. CASE \E k \in {"plain", "purge"} :
                m = [kind |-> k, slave |-> "broadcast", live |-> FALSE, size |-> 0]
    BY <1>1, <2>3 DEF Message, Slave, Request
  <2>. QED
    BY <2>1, <2>2, <2>3 DEF Asked
<1>4. [kind |-> "answer", slave |-> "other", live |-> FALSE, size |-> 0] \in Message
  BY <1>1 DEF Message, Slave
<1>5. \A n \in 0..MaxResidue : Rest(n) \in Message
  BY DEF Rest, Message, Slave
<1>. QED
  BY <1>2, <1>3, <1>4, <1>5

\* What a misread message leaves is made of messages, and no longer than before.
LEMMA LeftOverTypes ==
  ASSUME TypeOK, buffer # <<>>, NEW b \in LeftOvers \cup {<<>>}
  PROVE  b \in Seq(Message) /\ Len(b) <= Len(buffer)
<1>. DEFINE tail == Tail(buffer)
            n    == IF Head1.kind = "rest" THEN Head1.size - 1 ELSE MaxResidue
<1>1. tail \in Seq(Message) /\ Len(tail) = Len(buffer) - 1 /\ Len(buffer) \in Nat
  BY DEF TypeOK
<1>2. Head1 \in Message /\ Head1.size \in 0..MaxResidue
  <2>1. 1 \in 1..Len(buffer) /\ buffer \in Seq(Message)
    BY DEF TypeOK
  <2>2. Head1 \in Message
    BY <2>1 DEF Head1
  <2>. QED
    BY <2>2 DEF Message
<1>3. n > 0 => n \in 0..MaxResidue
  BY <1>2
<1>4. ASSUME NEW k \in 0..MaxResidue, NEW t \in Seq(Message)
      PROVE  <<Rest(k)>> \o t \in Seq(Message) /\ Len(<<Rest(k)>> \o t) = Len(t) + 1
  <2>1. Rest(k) \in Message
    BY Messages
  <2>. QED
    BY <2>1
<1>5. CASE b = <<>>
  BY <1>1, <1>5
<1>6. CASE b = tail
  BY <1>1, <1>6
<1>7. CASE n > 0 /\ b = <<Rest(n)>> \o tail
  BY <1>1, <1>3, <1>4, <1>7
<1>8. CASE tail # <<>> /\ b \in {Tail(tail), <<Rest(MaxResidue)>> \o Tail(tail)}
  <2>1. Tail(tail) \in Seq(Message) /\ Len(Tail(tail)) + 2 = Len(buffer)
    BY <1>1, <1>8
  <2>2. CASE b = Tail(tail)
    BY <1>1, <2>1, <2>2
  <2>3. CASE b = <<Rest(MaxResidue)>> \o Tail(tail)
    <3>1. b \in Seq(Message) /\ Len(b) = Len(Tail(tail)) + 1 /\ Len(Tail(tail)) \in Nat
      BY <1>4, <2>1, <2>3
    <3>. HIDE DEF tail
    <3>. QED
      BY <2>1, <3>1
  <2>. QED
    BY <1>8, <2>2, <2>3
<1>. QED
  BY <1>5, <1>6, <1>7, <1>8 DEF LeftOvers

\* Hearing a message keeps the type of the buffer.
LEMMA HearTypes ==
  ASSUME TypeOK, NEW m \in Message, Hear(m)
  PROVE  buffer' \in Seq(Message) /\ Len(buffer') <= MaxBuffer + 1
<1>1. CASE buffer' = buffer
  BY <1>1 DEF TypeOK
<1>2. CASE Len(buffer) < MaxBuffer /\ buffer' = Append(buffer, m)
  BY <1>2 DEF TypeOK
<1>. QED
  BY <1>1, <1>2 DEF Hear

\* A message after the master has given up.
LEMMA GivenUp ==
  ASSUME NEW m \in Message
  PROVE  [m EXCEPT !.live = FALSE] \in Message
BY DEF Message

\* Every step keeps the types.
LEMMA TypeNext == TypeOK /\ [Next]_vars => TypeOK'
<1>. SUFFICES ASSUME TypeOK, [Next]_vars
              PROVE  TypeOK'
  OBVIOUS
<1>a. <<>> \in Seq(Message) /\ Len(<<>>) = 0
  OBVIOUS
<1>b. ASSUME buffer # <<>>
      PROVE  /\ Head1 \in Message /\ Tail(buffer) \in Seq(Message)
             /\ Len(Tail(buffer)) <= MaxBuffer + 1
  <2>1. 1 \in 1..Len(buffer) /\ buffer \in Seq(Message)
    BY <1>b DEF TypeOK
  <2>2. Head1 \in Message
    BY <2>1 DEF Head1
  <2>3. Tail(buffer) \in Seq(Message) /\ Len(Tail(buffer)) = Len(buffer) - 1 /\ Len(buffer) \in Nat
    BY <1>b, <2>1
  <2>. QED
    BY <2>2, <2>3 DEF TypeOK
<1>c. ASSUME UNCHANGED <<status, stop, world>>, pc # "done", pc' \in {"receive", "reply", "answer", "close", "outer"},
             current' \in Message, ignore' \in BOOLEAN, buffer' \in Seq(Message),
             Len(buffer') <= MaxBuffer + 1
      PROVE  TypeOK'
  BY <1>c DEF TypeOK, world
<1>d. ASSUME buffer # <<>>, buffer' \in LeftOvers \cup {<<>>}
      PROVE  buffer' \in Seq(Message) /\ Len(buffer') <= MaxBuffer + 1
  BY <1>d, LeftOverTypes DEF TypeOK
<1>1. CASE Connect
  BY <1>1 DEF Connect, world, TypeOK
<1>2. CASE Close
  BY <1>2, <1>a, <1>c DEF Close, TypeOK
<1>3. CASE TakeOwn
  BY <1>3, <1>b, <1>c DEF TakeOwn, Heard, TypeOK
<1>4. CASE TakeForeign
  BY <1>4, <1>b, <1>c DEF TakeForeign, Heard, Resume, TypeOK
<1>5. CASE BadCrc
  BY <1>5, <1>b, <1>c DEF BadCrc, Heard, TypeOK
<1>6. CASE IgnoreConfirmation
  BY <1>6, <1>b, <1>c DEF IgnoreConfirmation, Heard, Resume, FlagReset, TypeOK
<1>7. CASE NothingToIgnore
  BY <1>7, <1>c DEF NothingToIgnore, Resume, FlagReset, TypeOK
<1>8. CASE MisreadRequest
  BY <1>8, <1>c, <1>d DEF MisreadRequest, Heard, Resume, TypeOK
<1>9. CASE MisreadConfirmation
  BY <1>9, <1>c, <1>d DEF MisreadConfirmation, Heard, Resume, FlagReset, TypeOK
<1>10. CASE LineDead
  BY <1>10, <1>c DEF LineDead, Resume, FlagReset, TypeOK
<1>11. CASE Reply
  BY <1>11, Messages DEF Reply, Send, Resume, TypeOK
<1>12. CASE Purge
  BY <1>12, <1>a, <1>c DEF Purge, TypeOK
<1>13. CASE ReplyFails
  BY <1>13, <1>c, Messages DEF ReplyFails, TypeOK
<1>14. CASE Signal
  BY <1>14 DEF Signal, world, TypeOK
<1>15. CASE Ask
  <2>1. PICK m \in Asked : /\ out' = m /\ Hear(m)
                           /\ due' \in {due, due \/ (m.slave = "other" /\ m.kind # "noise")}
    BY <1>15 DEF Ask
  <2>2. m \in Message
    BY Messages
  <2>3. due' \in BOOLEAN
    BY <2>1 DEF TypeOK
  <2>4. buffer' \in Seq(Message) /\ Len(buffer') <= MaxBuffer + 1
    BY <2>1, <2>2, HearTypes
  <2>. QED
    BY <1>15, <2>1, <2>2, <2>3, <2>4 DEF Ask, serverVars, TypeOK
<1>16. CASE OtherAnswers
  <2>1. buffer' \in Seq(Message) /\ Len(buffer') <= MaxBuffer + 1
    BY <1>16, Messages, HearTypes DEF OtherAnswers
  <2>. QED
    BY <1>16, <2>1, Messages DEF OtherAnswers, serverVars, TypeOK
<1>17. CASE MasterTimeout
  <2>1. buffer' = [i \in DOMAIN buffer |-> [buffer[i] EXCEPT !.live = FALSE]]
    BY <1>17 DEF MasterTimeout
  <2>2. DOMAIN buffer = 1..Len(buffer) /\ Len(buffer) \in Nat
        /\ \A i \in 1..Len(buffer) : buffer[i] \in Message
    BY DEF TypeOK
  <2>3. \A i \in 1..Len(buffer) : [buffer[i] EXCEPT !.live = FALSE] \in Message
    BY <2>2, GivenUp
  <2>4. buffer' \in [1..Len(buffer) -> Message]
    BY <2>1, <2>2, <2>3
  <2>5. buffer' \in Seq(Message) /\ Len(buffer') = Len(buffer)
    BY <2>2, <2>4
  <2>6. [current EXCEPT !.live = FALSE] \in Message
    BY GivenUp DEF TypeOK
  <2>. QED
    BY <1>17, <2>5, <2>6, Messages DEF MasterTimeout, serverVars, TypeOK
<1>18. CASE Calm
  BY <1>18 DEF Calm, serverVars, TypeOK
<1>19. CASE Unplug
  BY <1>19 DEF Unplug, serverVars, TypeOK
<1>20. CASE UNCHANGED vars
  BY <1>20 DEF vars, TypeOK
<1>. QED
  BY <1>1, <1>2, <1>3, <1>4, <1>5, <1>6, <1>7, <1>8, <1>9, <1>10, <1>11, <1>12, <1>13, <1>14,
     <1>15, <1>16, <1>17, <1>18, <1>19, <1>20 DEF Next, ServerStep, Receive

-----------------------------------------------------------------------------
(* Facts about a calm bus                                                  *)

\* What the kinds of requests have in common.
LEMMA AskedFacts ==
  ASSUME NEW m \in Asked
  PROVE  /\ m.kind \in Request /\ m # NoMessage
         /\ m.slave = "mine" => m.live
         /\ m.live => m.slave = "mine"
         /\ m.slave = "other" /\ m.kind # "noise" => m = Foreign
         /\ m.kind = "plain" \/ m.kind = "noise" \/ m.slave # "other"
<1>1. CASE \E k \in Request : m = [kind |-> k, slave |-> "mine", live |-> TRUE, size |-> 0]
  BY <1>1 DEF NoMessage
<1>2. CASE \E k \in {"plain", "noise"} :
              m = [kind |-> k, slave |-> "other", live |-> FALSE, size |-> 0]
  <2>1. PICK k \in {"plain", "noise"} :
              m = [kind |-> k, slave |-> "other", live |-> FALSE, size |-> 0]
    BY <1>2
  <2>2. m.kind = k /\ m.slave = "other" /\ m.live = FALSE
    BY <2>1
  <2>3. k # "noise" => m = Foreign
    BY <2>1 DEF Foreign
  <2>4. m # NoMessage
    BY <2>2 DEF NoMessage
  <2>5. k \in Request
    BY DEF Request
  <2>. QED
    BY <2>2, <2>3, <2>4, <2>5
<1>3. CASE \E k \in {"plain", "purge"} :
              m = [kind |-> k, slave |-> "broadcast", live |-> FALSE, size |-> 0]
  BY <1>3 DEF NoMessage, Request
<1>. QED
  BY <1>1, <1>2, <1>3 DEF Asked

\* Nothing follows a single message.
LEMMA TailOfOne ==
  ASSUME NEW s \in Seq(Message), Len(s) = 1
  PROVE  Tail(s) = <<>>
<1>1. Tail(s) \in Seq(Message) /\ Len(Tail(s)) = 0
  OBVIOUS
<1>2. \A t \in Seq(Message) : Len(t) = 0 => t = <<>>
  OBVIOUS
<1>. QED
  BY <1>1, <1>2

\* A request that is not answered by the other slave is the only one waiting.
LEMMA HeadIsOut ==
  ASSUME TypeOK, WaitInv, LineInv, pc = "receive", buffer # <<>>, Head1.kind \in Request,
         Head1.slave # "other" \/ Head1.kind = "noise"
  PROVE  Len(buffer) = 1 /\ Head1 = out /\ Tail(buffer) = <<>> /\ ~due
<1>1. Len(buffer) \in Nat /\ Len(buffer) # 0 /\ 1 \in 1..Len(buffer)
  BY DEF TypeOK
<1>2. Head1 # Foreign
  BY DEF Foreign
<1>3. Len(buffer) = 1
  <2>1. ~(1 < Len(buffer))
    BY <1>1, <1>2 DEF LineInv, Head1
  <2>2. \A n \in Nat : n # 0 /\ ~(1 < n) => n = 1
    OBVIOUS
  <2>. QED
    BY <1>1, <2>1, <2>2
<1>4. Head1 = out
  BY <1>1, <1>2, <1>3 DEF LineInv, Head1
<1>5. Tail(buffer) = <<>>
  BY <1>3, TailOfOne DEF TypeOK
<1>6. ~due
  BY <1>2, <1>4 DEF WaitInv
<1>. QED
  BY <1>3, <1>4, <1>5, <1>6

\* A rest is only ever alone, left by a noisy request that is still waited on.
LEMMA HeadIsRest ==
  ASSUME TypeOK, WaitInv, LineInv, buffer # <<>>, Head1.kind = "rest"
  PROVE  Len(buffer) = 1 /\ out.kind = "noise" /\ Tail(buffer) = <<>> /\ ~due
<1>1. 1 \in 1..Len(buffer)
  BY DEF TypeOK
<1>2. Len(buffer) = 1 /\ out.kind = "noise"
  BY <1>1 DEF LineInv, Head1
<1>3. Tail(buffer) = <<>>
  BY <1>2, TailOfOne DEF TypeOK
<1>4. ~due
  BY <1>2 DEF WaitInv, Foreign
<1>. QED
  BY <1>2, <1>3, <1>4

\* What is misread on a calm bus is noise, or what noise has left.
LEMMA Misread ==
  ASSUME TypeOK, WaitInv, LineInv, MisreadRequest \/ MisreadConfirmation
  PROVE  /\ out.kind = "noise" /\ ~due
         /\ buffer' = <<>> \/ \E n \in 0..MaxResidue : buffer' = <<Rest(n)>>
<1>1. pc = "receive" /\ buffer # <<>> /\ 1 \in 1..Len(buffer)
  BY DEF MisreadRequest, MisreadConfirmation, Heard, TypeOK
<1>2. Head1.kind \in {"rest", "noise"}
  <2>1. CASE MisreadRequest
    BY <2>1, <1>1 DEF MisreadRequest, Heard, LineInv, Head1
  <2>2. CASE MisreadConfirmation
    BY <2>2, <1>1 DEF MisreadConfirmation, Heard, LineInv, Request
  <2>. QED
    BY <2>1, <2>2
<1>3. Tail(buffer) = <<>> /\ out.kind = "noise" /\ ~due
  <2>1. CASE Head1.kind = "rest"
    BY <2>1, <1>1, HeadIsRest
  <2>2. CASE Head1.kind = "noise"
    BY <2>2, <1>1, HeadIsOut DEF Request
  <2>. QED
    BY <1>2, <2>1, <2>2
<1>4. ASSUME NEW n \in 0..MaxResidue
      PROVE  <<Rest(n)>> \o <<>> = <<Rest(n)>>
  <2>1. <<Rest(n)>> \in Seq(Message)
    BY Messages
  <2>2. \A t \in Seq(Message) : t \o <<>> = t
    OBVIOUS
  <2>. QED
    BY <2>1, <2>2
<1>5. Head1.kind = "rest" => Head1.size \in 0..MaxResidue
  <2>1. Head1 \in Message
    BY <1>1 DEF TypeOK, Head1
  <2>. QED
    BY <2>1 DEF Message
<1>6. buffer' \in LeftOvers \cup {<<>>}
  BY DEF MisreadRequest, MisreadConfirmation
<1>. DEFINE n == IF Head1.kind = "rest" THEN Head1.size - 1 ELSE MaxResidue
<1>7. buffer' = <<>> \/ (n > 0 /\ buffer' = <<Rest(n)>> \o <<>>)
  BY <1>3, <1>6 DEF LeftOvers
<1>8. n > 0 => n \in 0..MaxResidue
  BY <1>5
<1>9. CASE n > 0 /\ buffer' = <<Rest(n)>> \o <<>>
  <2>1. n \in 0..MaxResidue
    BY <1>8, <1>9
  <2>2. buffer' = <<Rest(n)>>
    BY <1>4, <1>9, <2>1
  <2>. QED
    BY <1>3, <2>1, <2>2
<1>. QED
  BY <1>3, <1>7, <1>9

-----------------------------------------------------------------------------
(* The messages on the line                                                *)

\* Taking the first message leaves a line that is in order, if the flag says what it was.
LEMMA TailLine ==
  ASSUME TypeOK, LineInv, buffer # <<>>, buffer' = Tail(buffer), UNCHANGED <<out, plugged>>,
         pc = "receive", ignore' <=> Head1.kind \in Request
  PROVE  LineInv'
<1>. DEFINE n == Len(buffer)
<1>1. n \in Nat /\ n > 0 /\ Len(buffer') = n - 1
  BY DEF TypeOK
<1>2. \A i \in 1..n - 1 : buffer'[i] = buffer[i + 1]
  BY <1>1 DEF TypeOK
<1>3. ASSUME ignore', buffer' # <<>>
      PROVE  buffer'[1].kind \in {"answer", "rest"}
  <2>1. n > 1
    BY <1>1, <1>3 DEF TypeOK
  <2>2. buffer[2].kind = "answer"
    BY <1>1, <1>3, <2>1 DEF LineInv, Head1
  <2>. QED
    BY <1>1, <1>2, <2>1, <2>2
<1>4. ASSUME NEW i \in 1..n - 1
      PROVE  /\ buffer'[i].kind # "rest"
             /\ buffer'[i].kind = "answer" =>
                   IF i = 1 THEN ignore' ELSE buffer'[i - 1].kind \in Request
             /\ buffer'[i].kind \in Request /\ i < n - 1 =>
                   buffer'[i] = Foreign /\ buffer'[i + 1].kind = "answer"
             /\ buffer'[i].kind \in Request /\ i = n - 1 =>
                   buffer'[i] = out \/ (buffer'[i] = Foreign /\ ~plugged)
  <2>1. i + 1 \in 1..n /\ i + 1 # 1 /\ buffer'[i] = buffer[i + 1] /\ n # 1
    BY <1>1, <1>2
  <2>2. buffer'[i].kind # "rest"
    BY <2>1 DEF LineInv
  <2>3. ASSUME buffer'[i].kind = "answer"
        PROVE  IF i = 1 THEN ignore' ELSE buffer'[i - 1].kind \in Request
    <3>1. buffer[i].kind \in Request
      <4>1. (i + 1) - 1 = i
        BY <1>1
      <4>. QED
        BY <2>1, <2>3, <4>1 DEF LineInv
    <3>2. CASE i = 1
      BY <3>1, <3>2 DEF Head1
    <3>3. CASE i # 1
      <4>1. i - 1 \in 1..n - 1 /\ buffer'[i - 1] = buffer[i]
        BY <1>1, <1>2, <3>3
      <4>. QED
        BY <3>1, <3>3, <4>1
    <3>. QED
      BY <3>2, <3>3
  <2>4. ASSUME buffer'[i].kind \in Request, i < n - 1
        PROVE  buffer'[i] = Foreign /\ buffer'[i + 1].kind = "answer"
    <3>1. i + 1 < n /\ i + 1 \in 1..n - 1 /\ buffer'[i + 1] = buffer[(i + 1) + 1]
      BY <1>1, <1>2, <2>4
    <3>. QED
      BY <2>1, <2>4, <3>1 DEF LineInv
  <2>5. ASSUME buffer'[i].kind \in Request, i = n - 1
        PROVE  buffer'[i] = out \/ (buffer'[i] = Foreign /\ ~plugged)
    <3>1. i + 1 = n
      BY <1>1, <2>5
    <3>. QED
      BY <2>1, <2>5, <3>1 DEF LineInv
  <2>. QED
    BY <2>2, <2>3, <2>4, <2>5
<1>5. Len(buffer') = n - 1
  BY <1>1
<1>. HIDE DEF n
<1>. QED
  BY <1>1, <1>3, <1>4, <1>5 DEF LineInv, Head1

\* One more message arrives.
LEMMA AppendLine ==
  ASSUME TypeOK, LineInv, NEW m \in Message, buffer' = Append(buffer, m),
         UNCHANGED <<pc, ignore, plugged>>,
         \/ m.kind \in Request /\ out' = m /\ (buffer # <<>> => Final.kind = "answer")
            /\ (buffer = <<>> => ~ignore)
         \/ m.kind = "answer" /\ (IF buffer = <<>> THEN ignore ELSE Final = Foreign)
  PROVE  LineInv'
<1>. DEFINE n == Len(buffer)
<1>1. n \in Nat /\ Len(buffer') = n + 1 /\ buffer'[n + 1] = m /\ buffer' # <<>>
  BY DEF TypeOK
<1>2. \A i \in 1..n : buffer'[i] = buffer[i]
  BY DEF TypeOK
<1>3. n > 0 <=> buffer # <<>>
  BY DEF TypeOK
<1>4. n > 0 => n \in 1..n /\ Final = buffer[n] /\ buffer[n].kind # "rest"
  <2>1. n > 0 => n \in 1..n /\ Final = buffer[n]
    BY <1>1 DEF Final
  <2>2. n > 0 => Final.kind # "rest"
    BY <1>3 DEF Foreign, Request
  <2>. QED
    BY <2>1, <2>2
<1>5. ignore' => buffer'[1].kind \in {"answer", "rest"}
  <2>1. CASE n = 0
    BY <2>1, <1>1, <1>3
  <2>2. CASE n > 0
    <3>1. 1 \in 1..n
      BY <1>1, <2>2
    <3>. QED
      BY <2>2, <1>2, <1>3, <3>1 DEF LineInv, Head1
  <2>. QED
    BY <1>1, <2>1, <2>2
<1>6. ASSUME NEW i \in 1..n
      PROVE  /\ buffer'[i].kind # "rest"
             /\ buffer'[i].kind = "answer" =>
                   IF i = 1 THEN ignore' ELSE buffer'[i - 1].kind \in Request
             /\ buffer'[i].kind \in Request =>
                   buffer'[i] = Foreign /\ buffer'[i + 1].kind = "answer"
  <2>1. n > 0 /\ buffer'[i] = buffer[i]
    BY <1>1, <1>2
  <2>2. buffer'[i].kind # "rest"
    <3>1. buffer[i].kind = "rest" => n = 1
      BY DEF LineInv
    <3>. QED
      BY <2>1, <1>4, <3>1
  <2>3. ASSUME buffer'[i].kind = "answer"
        PROVE  IF i = 1 THEN ignore' ELSE buffer'[i - 1].kind \in Request
    <3>1. i # 1 => i - 1 \in 1..n
      BY <1>1
    <3>. QED
      BY <2>1, <2>3, <1>2, <3>1 DEF LineInv
  <2>4. ASSUME buffer'[i].kind \in Request
        PROVE  buffer'[i] = Foreign /\ buffer'[i + 1].kind = "answer"
    <3>1. CASE i < n
      <4>1. i + 1 \in 1..n /\ buffer'[i + 1] = buffer[i + 1]
        BY <1>1, <1>2, <3>1
      <4>. QED
        BY <2>1, <2>4, <3>1, <4>1 DEF LineInv
    <3>2. CASE i = n
      <4>1. Final.kind \in Request
        BY <2>1, <2>4, <1>4, <3>2
      <4>2. m.kind = "answer" /\ Final = Foreign
        BY <4>1, <2>1, <1>3 DEF Request
      <4>. QED
        BY <4>2, <1>1, <1>4, <2>1, <3>2
    <3>. QED
      BY <1>1, <3>1, <3>2
  <2>. QED
    BY <2>2, <2>3, <2>4
<1>7. /\ m.kind # "rest"
      /\ m.kind = "answer" => IF n = 0 THEN ignore' ELSE buffer'[n].kind \in Request
      /\ m.kind \in Request => m = out'
  <2>1. m.kind # "rest" /\ (m.kind \in Request => m = out')
    BY DEF Request
  <2>2. ASSUME m.kind = "answer"
        PROVE  IF n = 0 THEN ignore' ELSE buffer'[n].kind \in Request
    BY <2>2, <1>1, <1>2, <1>3, <1>4 DEF Request, Foreign
  <2>. QED
    BY <2>1, <2>2
<1>. QED
  <2>1. ASSUME NEW i \in 1..n + 1
        PROVE  /\ buffer'[i].kind # "rest"
               /\ buffer'[i].kind = "answer" =>
                     IF i = 1 THEN ignore' ELSE buffer'[i - 1].kind \in Request
               /\ buffer'[i].kind \in Request /\ i < n + 1 =>
                     buffer'[i] = Foreign /\ buffer'[i + 1].kind = "answer"
               /\ buffer'[i].kind \in Request /\ i = n + 1 => buffer'[i] = out'
    <3>1. CASE i \in 1..n
      <4>1. i # n + 1
        BY <1>1, <3>1
      <4>. QED
        BY <1>6, <3>1, <4>1
    <3>2. CASE i = n + 1
      <4>1. (n + 1) - 1 = n /\ (n + 1 = 1 <=> n = 0) /\ ~(n + 1 < n + 1)
        BY <1>1
      <4>. QED
        BY <1>1, <1>7, <3>2, <4>1
    <3>. QED
      BY <1>1, <3>1, <3>2
  <2>. QED
    BY <1>1, <1>5, <2>1 DEF LineInv, Head1

\* An empty line is in order.
LEMMA EmptyLine ==
  ASSUME buffer' = <<>>
  PROVE  LineInv'
BY DEF LineInv

\* A noisy request is the last thing on the line until the master has given it up.
LEMMA RestLine ==
  ASSUME out'.kind = "noise", buffer' = <<>> \/ \E n \in 0..MaxResidue : buffer' = <<Rest(n)>>
  PROVE  LineInv'
<1>1. CASE buffer' = <<>>
  BY <1>1, EmptyLine
<1>2. CASE \E n \in 0..MaxResidue : buffer' = <<Rest(n)>>
  <2>1. Len(buffer') = 1 /\ buffer'[1].kind = "rest"
    BY <1>2 DEF Rest
  <2>2. \A i \in 1..1 : i = 1
    OBVIOUS
  <2>. QED
    BY <2>1, <2>2 DEF LineInv, Head1, Request
<1>. QED
  BY <1>1, <1>2

\* The last message, after one more and after one less.
LEMMA AppendFinal ==
  ASSUME TypeOK, NEW m \in Message, buffer' = Append(buffer, m)
  PROVE  buffer' # <<>> /\ Final' = m
<1>1. Len(buffer') = Len(buffer) + 1 /\ buffer'[Len(buffer) + 1] = m /\ Len(buffer) \in Nat
  BY DEF TypeOK
<1>. QED
  BY <1>1 DEF Final

\* The last message is the same after the first is taken, unless it was the first.
LEMMA TailFinal ==
  ASSUME TypeOK, buffer # <<>>, buffer' = Tail(buffer)
  PROVE  IF buffer' = <<>> THEN Len(buffer) = 1 /\ Final = Head1 ELSE Final' = Final
<1>1. Len(buffer) \in Nat /\ Len(buffer) > 0 /\ Len(buffer') = Len(buffer) - 1
  BY DEF TypeOK
<1>2. CASE buffer' = <<>>
  <2>1. Len(buffer) = 1
    BY <1>1, <1>2
  <2>. QED
    BY <1>2, <2>1 DEF Final, Head1
<1>3. CASE buffer' # <<>>
  <2>1. Len(buffer') > 0
    BY <1>3 DEF TypeOK
  <2>2. \A i \in 1..Len(buffer) - 1 : buffer'[i] = buffer[i + 1]
    BY <1>1 DEF TypeOK
  <2>3. buffer'[Len(buffer) - 1] = buffer[(Len(buffer) - 1) + 1]
    BY <1>1, <2>1, <2>2
  <2>. QED
    BY <1>1, <1>3, <2>3 DEF Final
<1>. QED
  BY <1>2, <1>3

-----------------------------------------------------------------------------
(* What the master waits for                                               *)

\* The server deals with the request that the master waits on.
LEMMA Busy ==
  ASSUME TypeOK, WaitInv, pc \in {"reply", "answer"}
  PROVE  /\ current = out /\ out # NoMessage /\ ~due /\ buffer = <<>> /\ ~ignore
         /\ out.slave \in {"mine", "broadcast"} /\ (out.slave = "mine" => out.live)
<1>1. current = out /\ out.slave # "other" /\ buffer = <<>> /\ ~ignore
  BY DEF WaitInv
<1>2. out # NoMessage /\ ~due
  BY <1>1 DEF NoMessage, Foreign, WaitInv
<1>3. out \in Asked /\ out.slave \in Slave
  BY <1>2 DEF WaitInv, TypeOK, Message
<1>. QED
  BY <1>1, <1>2, <1>3, AskedFacts DEF Slave

\* A request in the buffer, with none that the master waits on, has been given up.
LEMMA Asking ==
  ASSUME TypeOK, WaitInv, LineInv, regime = "calm", Ask
  PROVE  /\ pc = "receive" /\ ~due
         /\ \A i \in 1..Len(buffer) : buffer[i].kind # "rest" /\ buffer[i] # out
         /\ plugged /\ buffer # <<>> => Final.kind = "answer"
         /\ plugged /\ buffer = <<>> => ~ignore
<1>1. out = NoMessage /\ pc = "receive"
  <2>1. out = NoMessage /\ Open
    BY DEF Ask, Patient
  <2>. QED
    BY <2>1, Busy DEF Open
<1>2. ~due
  BY <1>1 DEF WaitInv, NoMessage, Foreign
<1>3. ASSUME NEW i \in 1..Len(buffer)
      PROVE  buffer[i].kind # "rest" /\ buffer[i] # out
  BY <1>1 DEF LineInv, NoMessage
<1>4. plugged /\ buffer # <<>> => Final.kind = "answer"
  <2>1. SUFFICES ASSUME plugged, buffer # <<>>
                 PROVE  Final.kind = "answer"
    OBVIOUS
  <2>2. Len(buffer) \in 1..Len(buffer) /\ Final \in Message
    BY <2>1 DEF TypeOK, Final
  <2>3. Final.kind \notin Request
    BY <1>1, <1>3, <2>1, <2>2 DEF LineInv, Final
  <2>4. Final.kind # "rest"
    BY <1>3, <2>2 DEF Final
  <2>. QED
    BY <2>2, <2>3, <2>4 DEF Message
<1>5. plugged /\ buffer = <<>> => ~ignore
  BY <1>1 DEF WaitInv
<1>. QED
  BY <1>1, <1>2, <1>3, <1>4, <1>5

\* The other slave answers what the master waits on, and nothing else has been asked since.
LEMMA Answering ==
  ASSUME TypeOK, WaitInv, OtherAnswers
  PROVE  /\ out = Foreign /\ out' = NoMessage /\ pc \notin {"reply", "answer"}
         /\ pc = "receive" /\ plugged => IF buffer = <<>> THEN ignore ELSE Final = Foreign
<1>1. due /\ out = Foreign
  BY DEF OtherAnswers, WaitInv
<1>2. out' = NoMessage
  BY <1>1 DEF OtherAnswers, Foreign
<1>3. pc \notin {"reply", "answer"}
  BY <1>1, Busy
<1>. QED
  BY <1>1, <1>2, <1>3 DEF WaitInv

\* A patient master gives up when there is nothing left on the line.
LEMMA GivingUp ==
  ASSUME TypeOK, WaitInv, regime = "calm", MasterTimeout
  PROVE  (Quiet \/ pc = "done") /\ ~due /\ buffer = <<>> /\ buffer' = <<>>
<1>1. (Quiet \/ pc = "done") /\ ~due
  BY DEF MasterTimeout, Patient
<1>2. buffer = <<>>
  BY <1>1 DEF Quiet, WaitInv
<1>3. \A i : i \notin DOMAIN buffer
  BY <1>2
<1>4. buffer' = [i \in DOMAIN buffer |-> [buffer[i] EXCEPT !.live = FALSE]]
  BY DEF MasterTimeout
<1>5. DOMAIN buffer = {}
  BY <1>3
<1>6. buffer' = [i \in {} |-> [buffer[i] EXCEPT !.live = FALSE]]
  BY <1>4, <1>5
<1>7. buffer' = <<>>
  BY <1>6
<1>. QED
  BY <1>1, <1>2, <1>7

-----------------------------------------------------------------------------
(* Every step on a calm bus                                                *)

\* On a calm bus every step keeps the line in order.
LEMMA LineNext ==
  ASSUME TypeOK, WaitInv, LineInv, regime = "calm", regime' = "calm", [Next]_vars
  PROVE  LineInv'
<1>a. ASSUME UNCHANGED <<ignore, buffer, out>>, plugged' => plugged, pc' = pc
      PROVE  LineInv'
  BY <1>a DEF LineInv, Head1
<1>1. CASE Connect
  BY <1>1, EmptyLine DEF Connect, WaitInv
<1>2. CASE Close
  BY <1>2, EmptyLine DEF Close
<1>3. CASE TakeOwn
  BY <1>3, HeadIsOut, EmptyLine DEF TakeOwn, Heard
<1>4. CASE TakeForeign
  BY <1>4, TailLine DEF TakeForeign, Heard, world
<1>5. CASE BadCrc
  BY <1>5, HeadIsOut, EmptyLine DEF BadCrc, Heard, Request
<1>6. CASE IgnoreConfirmation
  BY <1>6, TailLine DEF IgnoreConfirmation, Heard, FlagReset, Request, world
<1>7. CASE NothingToIgnore
  BY <1>7, EmptyLine DEF NothingToIgnore
<1>8. CASE MisreadRequest \/ MisreadConfirmation
  <2>1. out' = out
    BY <1>8 DEF MisreadRequest, MisreadConfirmation, world
  <2>. QED
    BY <1>8, <2>1, Misread, RestLine
<1>9. CASE LineDead
  BY <1>9, EmptyLine DEF LineDead
<1>10. CASE Reply
  BY <1>10, Busy, EmptyLine DEF Reply
<1>11. CASE Purge
  BY <1>11, EmptyLine DEF Purge
<1>12. CASE ReplyFails
  BY <1>12, Busy, EmptyLine DEF ReplyFails
<1>13. CASE Signal
  BY <1>13, <1>a DEF Signal, world
<1>14. CASE Ask
  <2>1. PICK m \in Asked : out' = m /\ Hear(m)
    BY <1>14 DEF Ask
  <2>2. m \in Message /\ m.kind \in Request
    BY Messages, AskedFacts
  <2>3. UNCHANGED <<pc, ignore, plugged>>
    BY <1>14 DEF Ask, serverVars
  <2>4. CASE plugged
    <3>1. buffer' = Append(buffer, m)
      BY <1>14, <2>1, <2>4, Asking DEF Hear, Open
    <3>. QED
      BY <1>14, <2>1, <2>2, <2>3, <2>4, <3>1, Asking, AppendLine
  <2>5. CASE ~plugged
    <3>1. buffer' = buffer
      BY <2>1, <2>5 DEF Hear
    <3>2. \A i \in 1..Len(buffer) : buffer[i].kind # "rest" /\ buffer[i] # out
      BY <1>14, Asking
    <3>. QED
      BY <2>3, <3>1, <3>2 DEF LineInv, Head1
  <2>. QED
    BY <2>4, <2>5
<1>15. CASE OtherAnswers
  <2>. DEFINE m == [kind |-> "answer", slave |-> "other", live |-> FALSE, size |-> 0]
  <2>1. Hear(m) /\ UNCHANGED <<pc, ignore, plugged>>
    BY <1>15 DEF OtherAnswers, serverVars
  <2>2. CASE pc = "receive" /\ plugged
    <3>1. buffer' = Append(buffer, m)
      BY <2>1, <2>2 DEF Hear, Open
    <3>2. m \in Message /\ m.kind = "answer"
      BY Messages
    <3>3. IF buffer = <<>> THEN ignore ELSE Final = Foreign
      BY <1>15, <2>2, Answering
    <3>. HIDE DEF m
    <3>. QED
      BY <2>1, <3>1, <3>2, <3>3, AppendLine
  <2>3. CASE ~(pc = "receive" /\ plugged)
    <3>1. buffer' = buffer /\ out = Foreign
      BY <1>15, <2>1, <2>3, Answering DEF Hear, Open
    <3>2. pc \in {"outer", "done"} => buffer' = <<>>
      BY <3>1 DEF WaitInv
    <3>3. CASE pc \in {"outer", "done"}
      BY <3>2, <3>3, EmptyLine
    <3>4. CASE pc \notin {"outer", "done"}
      <4>1. ~plugged \/ pc = "close"
        BY <1>15, <2>3, <3>4, Answering DEF TypeOK
      <4>2. out.kind # "noise"
        BY <3>1 DEF Foreign
      <4>. QED
        BY <2>1, <3>1, <4>1, <4>2 DEF LineInv, Head1
    <3>. QED
      BY <3>3, <3>4
  <2>. QED
    BY <2>2, <2>3
<1>16. CASE MasterTimeout
  BY <1>16, GivingUp, EmptyLine
<1>17. CASE Calm
  BY <1>17 DEF Calm
<1>18. CASE Unplug
  BY <1>18, <1>a DEF Unplug, serverVars
<1>19. CASE UNCHANGED vars
  BY <1>19, <1>a DEF vars
<1>. QED
  BY <1>1, <1>2, <1>3, <1>4, <1>5, <1>6, <1>7, <1>8, <1>9, <1>10, <1>11, <1>12, <1>13, <1>14,
     <1>15, <1>16, <1>17, <1>18, <1>19 DEF Next, ServerStep, Receive

\* On a calm bus every step keeps in order who waits for what.
LEMMA WaitNext ==
  ASSUME TypeOK, WaitInv, LineInv, regime = "calm", regime' = "calm", [Next]_vars
  PROVE  WaitInv'
<1>a. NoMessage.kind = "rest" /\ ~Own(NoMessage) /\ ~Own(Foreign) /\ NoMessage # Foreign
  BY DEF Own, NoMessage, Foreign
<1>b. Patient
  BY DEF Patient
<1>c. UNCHANGED <<pc, stop, ignore, current, plugged, buffer, out, due>> => WaitInv'
  BY DEF WaitInv, Final, Own
<1>1. CASE Connect
  BY <1>1 DEF Connect, WaitInv, world, Own
<1>2. CASE Close
  BY <1>2 DEF Close, WaitInv, world, Own
<1>3. CASE TakeOwn
  <2>1. buffer' = <<>> /\ current' = out /\ current'.slave # "other"
    BY <1>3, HeadIsOut DEF TakeOwn, Heard
  <2>. QED
    BY <1>3, <2>1 DEF TakeOwn, WaitInv, world
<1>4. CASE TakeForeign
  <2>1. buffer # <<>> /\ buffer' = Tail(buffer) /\ ignore' /\ pc' = Resume /\ pc = "receive"
        /\ UNCHANGED <<stop, world>> /\ Head1.slave = "other" /\ Head1.kind \in Request
    BY <1>4 DEF TakeForeign, Heard
  <2>2. plugged /\ buffer' = <<>> => Head1 = out
    <3>1. SUFFICES ASSUME plugged, buffer' = <<>>
                   PROVE  Head1 = out
      OBVIOUS
    <3>2. Len(buffer) = 1
      BY <2>1, <3>1, TailFinal
    <3>. QED
      BY <2>1, <3>1, <3>2 DEF LineInv, Head1
  <2>3. plugged /\ buffer' = <<>> => out # NoMessage /\ ~Own(out)
    BY <1>a, <2>1, <2>2 DEF Own, Request
  <2>4. buffer' # <<>> => Final' = Final
    BY <2>1, TailFinal
  <2>. QED
    BY <2>1, <2>3, <2>4 DEF WaitInv, world, Resume, Own
<1>5. CASE BadCrc
  <2>1. ~due /\ out.kind = "noise"
    BY <1>5, HeadIsOut DEF BadCrc, Heard, Request
  <2>. QED
    BY <1>5, <2>1 DEF BadCrc, WaitInv, world, Own
<1>6. CASE IgnoreConfirmation
  <2>1. buffer # <<>> /\ buffer' = Tail(buffer) /\ ~ignore' /\ pc' = Resume /\ pc = "receive"
        /\ UNCHANGED <<stop, world>> /\ Head1.kind = "answer"
    BY <1>6 DEF IgnoreConfirmation, Heard, FlagReset
  <2>2. plugged /\ (due \/ (Own(out) /\ ~stop)) => buffer' # <<>> /\ Final' = out
    <3>1. SUFFICES ASSUME plugged, due \/ (Own(out) /\ ~stop)
                   PROVE  buffer' # <<>> /\ Final' = out
      OBVIOUS
    <3>2. Final = out /\ out.kind = "plain"
      BY <2>1, <3>1 DEF WaitInv, Own, Foreign
    <3>. QED
      BY <2>1, <3>2, TailFinal
  <2>. QED
    BY <2>1, <2>2 DEF WaitInv, world, Resume, Own
<1>7. CASE NothingToIgnore
  BY <1>7, <1>b DEF NothingToIgnore, WaitInv, world, Resume, FlagReset, Own
<1>8. CASE MisreadRequest \/ MisreadConfirmation
  <2>1. out.kind = "noise" /\ ~due /\ ~Own(out) /\ out # NoMessage
    BY <1>8, <1>a, Misread DEF Own
  <2>2. /\ UNCHANGED <<stop, world>>
        /\ \/ pc' = Resume
           \/ pc' = "close" /\ ignore' = ignore /\ ~ignore
    BY <1>8 DEF MisreadRequest, MisreadConfirmation
  <2>. QED
    BY <2>1, <2>2 DEF WaitInv, world, Resume, Own
<1>9. CASE LineDead
  BY <1>9 DEF LineDead, WaitInv, world, Resume, FlagReset
<1>10. CASE Reply
  <2>1. current = out /\ ~due /\ buffer = <<>> /\ ~ignore
        /\ out.slave \in {"mine", "broadcast"} /\ (out.slave = "mine" => out.live)
    BY <1>10, Busy DEF Reply
  <2>2. UNCHANGED <<stop, ignore, plugged, buffer, due>>
    BY <1>10 DEF Reply
  <2>3. CASE out.slave = "broadcast"
    <3>1. pc' = Resume /\ out' = out /\ ~Own(out)
      BY <1>10, <2>1, <2>3 DEF Reply, Send, Own
    <3>2. out \in Asked \cup {NoMessage} /\ out # NoMessage
      BY <2>3 DEF WaitInv, NoMessage
    <3>. QED
      BY <2>1, <2>2, <3>1, <3>2 DEF WaitInv, Resume, Own
  <2>4. CASE out.slave = "mine"
    <3>1. (plugged /\ pc' = Resume /\ out' = NoMessage) \/ (~plugged /\ pc' = "close" /\ out' = out)
      BY <1>10, <2>1, <2>4 DEF Reply, Send
    <3>2. out \in Asked \cup {NoMessage}
      BY DEF WaitInv
    <3>. QED
      BY <1>a, <2>1, <2>2, <3>1, <3>2 DEF WaitInv, Resume, Own
  <2>. QED
    BY <2>1, <2>3, <2>4
<1>11. CASE Purge
  BY <1>11, Busy DEF Purge, WaitInv, world
<1>12. CASE ReplyFails
  <2>1. ~due /\ ~ignore /\ out.kind = "fatal"
    BY <1>12, Busy DEF ReplyFails
  <2>. QED
    BY <1>12, <2>1 DEF ReplyFails, WaitInv, world, Own
<1>13. CASE Signal
  BY <1>13 DEF Signal, WaitInv, world, Final, Own
<1>14. CASE Ask
  <2>1. PICK m \in Asked : /\ out' = m /\ Hear(m)
                           /\ due' \in {due, due \/ (m.slave = "other" /\ m.kind # "noise")}
    BY <1>14 DEF Ask
  <2>2. pc = "receive" /\ ~due /\ UNCHANGED <<pc, plugged>>
    BY <1>14, Asking DEF Ask, serverVars
  <2>3. due' => m = Foreign
    BY <2>1, <2>2, AskedFacts
  <2>4. plugged => buffer' # <<>> /\ Final' = m
    BY <2>1, <2>2, Messages, AppendFinal DEF Hear, Open
  <2>. QED
    BY <2>1, <2>2, <2>3, <2>4 DEF WaitInv
<1>15. CASE OtherAnswers
  <2>. DEFINE m == [kind |-> "answer", slave |-> "other", live |-> FALSE, size |-> 0]
  <2>1. Hear(m) /\ ~due' /\ UNCHANGED <<pc, stop, ignore, plugged>>
    BY <1>15 DEF OtherAnswers, serverVars
  <2>2. out' = NoMessage /\ ~Own(out)' /\ pc \notin {"reply", "answer"}
    BY <1>15, <1>a, Answering DEF Own
  <2>3. m \in Message
    BY Messages
  <2>4. pc = "receive" /\ plugged => buffer' # <<>>
    <3>. HIDE DEF m
    <3>. QED
      BY <2>1, <2>3, AppendFinal DEF Hear, Open
  <2>5. pc \in {"outer", "done"} => buffer' = buffer
    BY <2>1 DEF Hear, Open
  <2>. HIDE DEF m
  <2>. QED
    BY <2>1, <2>2, <2>4, <2>5 DEF WaitInv
<1>16. CASE MasterTimeout
  <2>1. (Quiet \/ pc = "done") /\ ~due /\ buffer' = <<>>
    BY <1>16, GivingUp
  <2>2. out' = NoMessage /\ UNCHANGED <<pc, stop, ignore, plugged, due>>
    BY <1>16 DEF MasterTimeout, serverVars
  <2>3. ~Own(out)'
    BY <1>a, <2>2 DEF Own
  <2>. QED
    BY <2>1, <2>2, <2>3 DEF WaitInv, Quiet
<1>17. CASE Calm
  BY <1>17 DEF Calm
<1>18. CASE Unplug
  BY <1>18 DEF Unplug, serverVars, WaitInv
<1>19. CASE UNCHANGED vars
  BY <1>19, <1>c DEF vars
<1>. QED
  BY <1>1, <1>2, <1>3, <1>4, <1>5, <1>6, <1>7, <1>8, <1>9, <1>10, <1>11, <1>12, <1>13, <1>14,
     <1>15, <1>16, <1>17, <1>18, <1>19 DEF Next, ServerStep, Receive

\* On a calm bus no step leaves the master waiting for nothing.
LEMMA MissNext ==
  ASSUME TypeOK, WaitInv, MissInv, regime = "calm", [Next]_vars
  PROVE  MissInv'
<1>1. CASE Reply
  <2>1. last' \in {last, "answered"} /\ UNCHANGED <<stop, plugged>>
    BY <1>1 DEF Reply, Send
  <2>. QED
    BY <2>1 DEF MissInv
<1>2. CASE MasterTimeout
  <2>1. ~stop /\ plugged => ~Own(out)
    BY <1>2, GivingUp DEF Quiet, WaitInv
  <2>2. last' = (IF Own(out) THEN "missed" ELSE last) /\ UNCHANGED <<stop, plugged>>
    BY <1>2 DEF MasterTimeout, serverVars
  <2>. QED
    BY <2>1, <2>2 DEF MissInv
<1>3. CASE Ask
  BY <1>3 DEF Ask, MissInv
<1>4. CASE Signal
  BY <1>4 DEF Signal, MissInv
<1>5. CASE Unplug
  BY <1>5 DEF Unplug, MissInv
<1>6. CASE Connect \/ Close \/ Receive \/ Purge \/ ReplyFails
  <2>1. UNCHANGED <<stop, world>>
    BY <1>6 DEF Connect, Close, Receive, TakeOwn, TakeForeign, BadCrc, IgnoreConfirmation,
       NothingToIgnore, MisreadRequest, MisreadConfirmation, LineDead, Purge, ReplyFails
  <2>. QED
    BY <2>1 DEF world, MissInv
<1>7. CASE OtherAnswers \/ Calm \/ UNCHANGED vars
  BY <1>7 DEF OtherAnswers, Calm, vars, serverVars, MissInv
<1>. QED
  BY <1>1, <1>2, <1>3, <1>4, <1>5, <1>6, <1>7 DEF Next, ServerStep

-----------------------------------------------------------------------------
(* The theorems                                                            *)

\* The invariant holds at first.
LEMMA BusInit == Init => BusInv
<1>. SUFFICES ASSUME Init
              PROVE  BusInv
  OBVIOUS
<1>1. TypeOK
  <2>1. <<>> \in Seq(Message) /\ Len(<<>>) = 0
    OBVIOUS
  <2>2. buffer \in Seq(Message) /\ Len(buffer) <= MaxBuffer + 1
    BY <2>1 DEF Init
  <2>3. current \in Message /\ out \in Message
    BY Messages DEF Init
  <2>4. (pc = "done") = (status # 1) /\ (status = 0 => stop)
    BY DEF Init
  <2>. QED
    BY <2>2, <2>3, <2>4 DEF Init, TypeOK
<1>2. WaitInv
  BY DEF Init, WaitInv, Own, NoMessage
<1>3. LineInv /\ MissInv
  BY DEF Init, LineInv, MissInv
<1>. QED
  BY <1>1, <1>2, <1>3 DEF BusInv

\* A calm bus has always been calm.
LEMMA BusNext == BusInv /\ [Next]_vars => BusInv'
<1>. SUFFICES ASSUME BusInv, [Next]_vars
              PROVE  BusInv'
  OBVIOUS
<1>1. TypeOK'
  BY TypeNext DEF BusInv
<1>2. regime' = "calm" => regime = "calm"
  BY DEF Next, ServerStep, Connect, Close, Receive, TakeOwn, TakeForeign, BadCrc,
     IgnoreConfirmation, NothingToIgnore, MisreadRequest, MisreadConfirmation, LineDead, Reply,
     Purge, ReplyFails, Signal, Ask, OtherAnswers, MasterTimeout, Calm, Unplug, vars, world
<1>3. regime' = "calm" => WaitInv' /\ LineInv' /\ MissInv'
  BY <1>2, WaitNext, LineNext, MissNext DEF BusInv
<1>. QED
  BY <1>1, <1>3 DEF BusInv

(* The inductive invariant: on a calm bus the buffer of the server holds   *)
(* foreign requests with their answers, and then at most the one request   *)
(* that the master waits on, in step with confirmation_to_ignore.          *)
THEOREM BusInvariant == Spec => []BusInv
BY BusInit, BusNext, PTL DEF Spec

(* run_rtu_server: the variables keep their types, the server is done when *)
(* it has a status, and the buffer stays within its bound.                 *)
THEOREM BusTypes == Spec => []TypeOK
<1>1. BusInv => TypeOK
  BY DEF BusInv
<1>. QED
  BY <1>1, BusInvariant, PTL

(* _modbus_rtu_receive: on a calm bus no request is ever taken for the     *)
(* confirmation that confirmation_to_ignore expects.                       *)
THEOREM CalmRequestsHeard == Spec => []RequestsHeardWhenCalm
<1>1. BusInv => RequestsHeardWhenCalm
  BY DEF BusInv, LineInv, RequestsHeardWhenCalm, Swallowing, Heard, Request
<1>. QED
  BY <1>1, BusInvariant, PTL

(* modbus_reply: on a calm bus the server sends only what the master waits *)
(* for, and never for another slave.                                       *)
THEOREM CalmTalksInTurn == Spec => []TalksInTurn
<1>1. BusInv => TalksInTurn
  <2>. SUFFICES ASSUME BusInv, regime = "calm", Speaking
                PROVE  out.slave = "mine" /\ current.live
    BY DEF TalksInTurn
  <2>1. pc \in {"reply", "answer"} /\ current.slave # "broadcast"
    BY DEF Speaking
  <2>. QED
    BY <2>1, Busy DEF BusInv
<1>. QED
  BY <1>1, BusInvariant, PTL

(* run_rtu_server: on a calm bus the master waits in vain for no request   *)
(* that modbus_reply answers, while the server runs on a working line.     *)
THEOREM CalmNothingMissed == Spec => []NothingMissed
<1>1. BusInv => NothingMissed
  BY DEF BusInv, MissInv, NothingMissed
<1>. QED
  BY <1>1, BusInvariant, PTL

=============================================================================
