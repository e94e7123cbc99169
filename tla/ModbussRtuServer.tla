-------------------------- MODULE ModbussRtuServer --------------------------
(***************************************************************************)
(* `modbuss rtu` (run_rtu_server in src/modbuss.c) on a serial bus it      *)
(* shares with a master and another slave.                                 *)
(*                                                                         *)
(* The server hears the requests and the answers of everybody else, and    *)
(* nothing on the line says which is which: a message is cut out of the    *)
(* byte stream by the length tables of requests, or, right after a request *)
(* for another slave, by those of answers (confirmation_to_ignore). A      *)
(* message read with the right tables comes out whole (ModbusFraming); one *)
(* read with the wrong ones is misread, and leaves or takes too much.      *)
(***************************************************************************)
EXTENDS Integers, Sequences

CONSTANTS
    MaxBuffer,  \* bound: messages the receive buffer holds
    MaxResidue  \* bound: how often what is left of a message is misread again

ASSUME BoundAssumption == MaxBuffer \in Nat \ {0} /\ MaxResidue \in Nat \ {0}

(* What a message is to the server.                                        *)
(*   "plain"  a request that modbus_reply answers                          *)
(*   "purge"  a request answered by an exception with to_flush             *)
(*   "fatal"  a request for which modbus_reply returns -1 (FC 0x07)        *)
(*   "noise"  a request whose CRC is wrong                                 *)
(*   "answer" the other slave's answer                                     *)
(*   "rest"   the end of a message whose beginning was read as another     *)
(* `live` means that the master is still waiting for the answer; `size`    *)
(* bounds how many more times a "rest" can be misread.                     *)
Request == {"plain", "purge", "fatal", "noise"}
Slave   == {"mine", "other", "broadcast"}
Message == [kind : Request \cup {"answer", "rest"}, slave : Slave, live : BOOLEAN,
            size : 0..MaxResidue]
NoMessage == [kind |-> "rest", slave |-> "other", live |-> FALSE, size |-> 0]

VARIABLES
    \* run_rtu_server
    pc,       \* "outer" loop test, "receive", "reply", "answer", "close", "done"
    stop,     \* stop_requested
    status,   \* return value
    ignore,   \* ctx_rtu->confirmation_to_ignore
    current,  \* the request in `query` until it has been dealt with
    \* the line
    plugged,  \* the device exists
    buffer,   \* the messages waiting to be read
    \* the master and the other slave
    regime,   \* "rough", "calm", or "calmed" after a rough time
    out,      \* the request the master is waiting on, or NoMessage
    last,     \* how its last exchange with this server ended
    due       \* the other slave is going to answer

world == <<plugged, regime, out, last, due>>
vars  == <<pc, stop, status, ignore, current, plugged, buffer, regime, out, last, due>>

Patient == regime # "rough"
Open    == pc \in {"receive", "reply", "answer"}

\* The server waits for a request, with nothing to time out.
Quiet == pc = "receive" /\ ~ignore /\ buffer = <<>>

\* A request the server has to answer.
Own(m) == m.slave = "mine" /\ m.kind = "plain"

Init ==
    /\ pc = "outer" /\ stop = FALSE /\ status = 1 /\ ignore = FALSE
    /\ current = NoMessage
    /\ plugged = TRUE /\ buffer = <<>>
    /\ regime \in {"rough", "calm"}
    /\ out = NoMessage /\ last = "none" /\ due = FALSE

-----------------------------------------------------------------------------
(* The loops.                                                              *)

\* The test of the inner loop.
Resume == IF stop THEN "close" ELSE "receive"

\* Mutant: a port that does not open ends the loop like a stop request.
ConnectBreaks ==
    /\ pc = "outer"
    /\ IF stop \/ ~plugged THEN pc' = "done" /\ status' = 0
                            ELSE pc' = "receive" /\ UNCHANGED status
    /\ UNCHANGED <<stop, ignore, current, buffer, world>>

\* Either loop has ended, or the port is opened.
Connect ==
    /\ pc = "outer"
    /\ \/ stop /\ pc' = "done" /\ status' = 0
       \/ ~stop /\ ~plugged /\ pc' = "done" /\ status' = -1
       \/ ~stop /\ plugged /\ pc' = "receive" /\ UNCHANGED status
    /\ UNCHANGED <<stop, ignore, current, buffer, world>>

\* modbus_close; what had arrived is lost with the port.
Close ==
    /\ pc = "close"
    /\ pc' = "outer"
    /\ buffer' = <<>>
    /\ UNCHANGED <<stop, status, ignore, current, world>>

-----------------------------------------------------------------------------
(* _modbus_rtu_receive.                                                    *)

Head1 == buffer[1]
Heard(kinds) == pc = "receive" /\ buffer # <<>> /\ Head1.kind \in kinds

\* The flag after a confirmation has been read, or an error has ended the wait.
FlagKept  == TRUE  \* mutant: the reset is missing
FlagReset == FALSE

\* Mutant: every request is followed by a confirmation, this server's too.
TakeOwnSetsFlag ==
    /\ ~ignore /\ Heard(Request \ {"noise"}) /\ Head1.slave # "other"
    /\ current' = Head1
    /\ ignore' = TRUE
    /\ buffer' = Tail(buffer)
    /\ pc' = "reply"
    /\ UNCHANGED <<stop, status, world>>

\* check_integrity accepts it: it is for this server, or for all.
TakeOwn ==
    /\ ~ignore /\ Heard(Request \ {"noise"}) /\ Head1.slave # "other"
    /\ current' = Head1
    /\ buffer' = Tail(buffer)
    /\ pc' = "reply"
    /\ UNCHANGED <<stop, status, ignore, world>>

\* Mutant: no filter on the slave address.
TakeForeignAsOwn ==
    /\ ~ignore /\ Heard(Request) /\ Head1.slave = "other"
    /\ current' = Head1
    /\ buffer' = Tail(buffer)
    /\ pc' = "reply"
    /\ UNCHANGED <<stop, status, ignore, world>>

\* It is for another slave, whose answer comes next; the CRC is not looked at.
TakeForeign ==
    /\ ~ignore /\ Heard(Request) /\ Head1.slave = "other"
    /\ ignore' = TRUE
    /\ buffer' = Tail(buffer)
    /\ pc' = Resume
    /\ UNCHANGED <<stop, status, current, world>>

\* EMBBADCRC: modbus_receive returns -1, and the port is closed.
BadCrc ==
    /\ ~ignore /\ Heard({"noise"}) /\ Head1.slave # "other"
    /\ buffer' = Tail(buffer)
    /\ pc' = "close"
    /\ UNCHANGED <<stop, status, ignore, current, world>>

\* The other slave's answer, read as such; errors are ignored too.
IgnoreConfirmation ==
    /\ ignore /\ Heard({"answer"})
    /\ ignore' = FlagReset
    /\ buffer' = Tail(buffer)
    /\ pc' = Resume
    /\ UNCHANGED <<stop, status, current, world>>

\* Mutant: the error is returned before the flag is reset.
NothingToIgnoreReturns ==
    /\ pc = "receive" /\ ignore /\ buffer = <<>>
    /\ Patient => ~due
    /\ pc' = "close"
    /\ UNCHANGED <<stop, status, ignore, current, buffer, world>>

\* Nothing came for response_timeout. A calm slave would have answered by then.
NothingToIgnore ==
    /\ pc = "receive" /\ ignore /\ buffer = <<>>
    /\ Patient => ~due
    /\ ignore' = FlagReset
    /\ pc' = Resume
    /\ UNCHANGED <<stop, status, current, buffer, world>>

Rest(n) == [kind |-> "rest", slave |-> "other", live |-> FALSE, size |-> n]

\* The first message has been read with tables that are not its own: exactly,
\* too short, or with all or some of the next one.
LeftOvers ==
    LET tail == Tail(buffer)
        n    == IF Head1.kind = "rest" THEN Head1.size - 1 ELSE MaxResidue
    IN  {tail}
        \cup (IF n > 0 THEN {<<Rest(n)>> \o tail} ELSE {})
        \cup (IF tail # <<>> THEN {Tail(tail), <<Rest(MaxResidue)>> \o Tail(tail)} ELSE {})

\* Read as a request, its first byte is, or is not, another slave's address
\* (if it is not, the CRC is wrong); or the byte timeout ends it.
MisreadRequest ==
    /\ ~ignore /\ Heard({"answer", "rest", "noise"})
    /\ \/ ignore' = TRUE /\ pc' = Resume /\ buffer' \in LeftOvers
       \/ UNCHANGED ignore /\ pc' = "close" /\ buffer' \in LeftOvers \cup {<<>>}
    /\ UNCHANGED <<stop, status, current, world>>

\* Read as the confirmation to ignore, whatever it is.
MisreadConfirmation ==
    /\ ignore /\ Heard(Request \cup {"rest"})
    /\ ignore' = FlagReset
    /\ buffer' \in LeftOvers \cup {<<>>}
    /\ pc' = Resume
    /\ UNCHANGED <<stop, status, current, world>>

\* Mutant: end of file on the device is not an error.
LineDeadRetried ==
    /\ pc = "receive" /\ ~plugged /\ buffer = <<>>
    /\ ignore' = FALSE
    /\ UNCHANGED <<pc, stop, status, current, buffer, world>>

\* The device is gone: read returns 0 or an error.
LineDead ==
    /\ pc = "receive" /\ ~plugged /\ buffer = <<>>
    /\ IF ignore THEN ignore' = FlagReset /\ pc' = Resume
                 ELSE pc' = "close" /\ UNCHANGED ignore
    /\ UNCHANGED <<stop, status, current, buffer, world>>

Receive == \/ TakeOwn \/ TakeForeign \/ BadCrc \/ IgnoreConfirmation \/ NothingToIgnore
           \/ MisreadRequest \/ MisreadConfirmation \/ LineDead

-----------------------------------------------------------------------------
(* modbus_reply.                                                           *)

\* send_msg, or nothing at all if everybody was asked.
Send ==
    \/ /\ current.slave = "broadcast"
       /\ pc' = Resume
       /\ UNCHANGED <<out, last>>
    \/ /\ current.slave # "broadcast" /\ plugged
       /\ pc' = Resume
       /\ IF current.live THEN out' = NoMessage /\ last' = "answered"
                          ELSE UNCHANGED <<out, last>>
    \/ /\ current.slave # "broadcast" /\ ~plugged
       /\ pc' = "close"
       /\ UNCHANGED <<out, last>>

Reply ==
    /\ \/ pc = "reply" /\ current.kind = "plain"
       \/ pc = "answer"
    /\ Send
    /\ current' = NoMessage
    /\ UNCHANGED <<stop, status, ignore, plugged, buffer, regime, due>>

\* response_exception sleeps for response_timeout and flushes the line.
Purge ==
    /\ pc = "reply" /\ current.kind = "purge"
    /\ pc' = "answer"
    /\ buffer' = <<>>
    /\ UNCHANGED <<stop, status, ignore, current, world>>

\* MODBUS_FC_READ_EXCEPTION_STATUS is not implemented.
ReplyFails ==
    /\ pc = "reply" /\ current.kind = "fatal"
    /\ pc' = "close"
    /\ current' = NoMessage
    /\ UNCHANGED <<stop, status, ignore, buffer, world>>

\* request_stop. select is called again after EINTR, so nothing else happens.
Signal ==
    /\ ~stop /\ pc # "done"
    /\ stop' = TRUE
    /\ UNCHANGED <<pc, status, ignore, current, buffer, world>>

-----------------------------------------------------------------------------
(* The master, the other slave and the cable.                              *)

serverVars == <<pc, stop, status, ignore>>

\* The requests a master may send: only for this server does the kind matter
\* (but for noise), and only its answer is waited on here.
Asked ==
    {[kind |-> k, slave |-> "mine", live |-> TRUE, size |-> 0] : k \in Request}
    \cup {[kind |-> k, slave |-> "other", live |-> FALSE, size |-> 0] : k \in {"plain", "noise"}}
    \cup {[kind |-> k, slave |-> "broadcast", live |-> FALSE, size |-> 0] : k \in {"plain", "purge"}}

\* What the line carries reaches the server if its port is open.
Hear(m) ==
    IF Open /\ plugged THEN Len(buffer) < MaxBuffer /\ buffer' = Append(buffer, m)
                       ELSE UNCHANGED buffer

\* A noisy request is answered by nobody. A patient master does not ask while
\* the port is being opened: it starts after the server, and otherwise has
\* just waited for an answer.
Ask ==
    /\ out = NoMessage /\ pc # "done"
    /\ Patient => Open
    /\ \E m \in Asked :
          /\ out' = m
          /\ Hear(m)
          /\ due' \in {due, due \/ (m.slave = "other" /\ m.kind # "noise")}
    /\ last' = "none"
    /\ UNCHANGED <<serverVars, current, plugged, regime>>

OtherAnswers ==
    /\ due
    /\ due' = FALSE
    /\ Hear([kind |-> "answer", slave |-> "other", live |-> FALSE, size |-> 0])
    /\ out' = IF out.slave = "other" THEN NoMessage ELSE out
    /\ UNCHANGED <<serverVars, current, plugged, regime, last>>

\* The master stops waiting. A patient one waits longer than the server may
\* be busy with, or waiting for, anything else.
MasterTimeout ==
    /\ out # NoMessage
    /\ Patient => ~due /\ (Quiet \/ pc = "done")
    /\ out' = NoMessage
    /\ last' = IF Own(out) THEN "missed" ELSE last
    /\ buffer' = [i \in DOMAIN buffer |-> [buffer[i] EXCEPT !.live = FALSE]]
    /\ current' = [current EXCEPT !.live = FALSE]
    /\ UNCHANGED <<serverVars, plugged, regime, due>>

Calm ==
    /\ regime = "rough"
    /\ regime' = "calmed"
    /\ UNCHANGED <<serverVars, current, plugged, buffer, out, last, due>>

Unplug ==
    /\ plugged
    /\ plugged' = FALSE
    /\ UNCHANGED <<serverVars, current, buffer, regime, out, last, due>>

-----------------------------------------------------------------------------
ServerStep == Connect \/ Close \/ Receive \/ Reply \/ Purge \/ ReplyFails

Next == ServerStep \/ Signal \/ Ask \/ OtherAnswers \/ MasterTimeout \/ Calm \/ Unplug

Spec == Init /\ [][Next]_vars

\* The server runs and its timers expire; a master's wait ends, and so does
\* that for a slave that is going to answer.
FairSpec == Spec /\ WF_vars(ServerStep) /\ WF_vars(OtherAnswers) /\ WF_vars(MasterTimeout)

-----------------------------------------------------------------------------
(* Properties.                                                             *)

\* A request is about to be read as the confirmation to ignore.
Swallowing == ignore /\ Heard(Request)

\* Types; the server is done exactly when it has a status, 0 only if asked to stop.
TypeOK ==
    /\ pc \in {"outer", "receive", "reply", "answer", "close", "done"}
    /\ stop \in BOOLEAN /\ status \in {1, 0, -1} /\ ignore \in BOOLEAN
    /\ (pc = "done") = (status # 1) /\ (status = 0 => stop)
    /\ current \in Message /\ out \in Message
    /\ plugged \in BOOLEAN /\ due \in BOOLEAN
    /\ buffer \in Seq(Message) /\ Len(buffer) <= MaxBuffer + 1
    /\ regime \in {"rough", "calm", "calmed"}
    /\ last \in {"none", "answered", "missed"}

(* On a calm bus the guess of _modbus_rtu_receive is right: no request is  *)
(* taken for the answer it expects, although some foreign requests are not *)
(* answered and noise can look foreign.                                    *)
RequestsHeardWhenCalm == regime = "calm" => ~Swallowing

\* The server is about to send.
Speaking == (pc = "answer" \/ (pc = "reply" /\ current.kind = "plain"))
            /\ current.slave # "broadcast"

(* On a calm bus the server speaks only when the master waits for it: it   *)
(* never answers for others, nor a request the master has given up.        *)
TalksInTurn == (regime = "calm" /\ Speaking) => (out.slave = "mine" /\ current.live)

(* On a calm bus every answerable request gets its answer, whatever came   *)
(* before it: noise, fatal requests, broadcasts, a reopened port.          *)
NothingMissed == (regime = "calm" /\ ~stop /\ plugged) => last # "missed"

(* However rough the bus has been, once it is calm the server finds its    *)
(* place in the stream again and answers.                                  *)
Resyncs ==
    (<>[](regime # "rough" /\ ~stop /\ plugged) /\ []<>Own(out)) => []<>(last = "answered")

(* A stop request ends the server with the next message at the latest, and *)
(* a device that has gone ends it by itself.                               *)
Ends == ((stop /\ buffer # <<>>) \/ ~plugged) ~> pc = "done"

(* What NEWS:306 and the comment on the flag say: what is ignored is a     *)
(* confirmation from another slave. The code ignores whatever comes within *)
(* response_timeout of a request that is not its own.                      *)
RequestsHeard == ~Swallowing
=============================================================================
