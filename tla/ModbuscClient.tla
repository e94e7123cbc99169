---------------------------- MODULE ModbuscClient ----------------------------
(***************************************************************************)
(* `modbusc` asking a range of slave addresses, with each of the serial    *)
(* settings (the end of main, connect_and_process and process_requests in  *)
(* src/modbusc.c, over libmodbus's connections and request functions), and *)
(* the slaves that answer in time, late, wrongly or not at all.            *)
(*                                                                         *)
(* libmodbus reads one message per request and never flushes the line (the *)
(* error recovery is not enabled), so an answer that comes after its       *)
(* timeout is read by a later request, and told apart only by the          *)
(* transaction identifier (TCP) or the slave address (RTU).                *)
(*                                                                         *)
(* A descriptor is known by the setting it was opened for. Of the terminal *)
(* settings only whose they are is kept: what they are is ModbusContext's. *)
(* A device that was unplugged comes back with settings of its own.        *)
(***************************************************************************)
EXTENDS Integers, Sequences, FiniteSets

CONSTANTS
    NumSettings,  \* baud rates times parities of an RTU run
    First, Last,  \* the address range
    MaxTid,       \* UINT16_MAX
    MaxServed     \* bound: how often a slave is followed carrying out one request

\* At most MBU_MAX_SLAVE_ADDRESS + 1 requests are made on a connection, so the
\* transaction identifiers of one connection differ.
ASSUME RangeAssumption ==
    /\ NumSettings \in Nat \ {0}
    /\ First \in Nat /\ Last \in Nat /\ First <= Last
    /\ MaxTid \in Nat /\ Last - First < MaxTid
    /\ MaxServed \in Nat /\ MaxServed > 1

Addresses == First..Last
Settings  == 1..NumSettings
Requests  == Settings \X Addresses

VARIABLES
    tcp,        \* the transport
    home,       \* the setting the slaves on the serial line use
    role,       \* of each slave: "absent", "good", or "refuses" (an exception)
    \* main, connect_and_process, process_requests
    pc,         \* "connect", "opened", "connecting", "ask", "wait", "next", "close", "done"
    setting, address,
    tid,        \* ctx_tcp->t_id
    successes,  \* of process_requests
    opened,     \* successes of main: settings that found a slave
    exit,
    \* what the client has of the system
    descriptors, \* the open ones
    tios,       \* the settings the serial line has, or AsFound
    old_tios,   \* ctx_rtu->old_tios
    \* the line and the slaves
    link,       \* "up" or "down"
    pending,    \* requests a slave is working on
    buffer,     \* answers that have reached the client
    \* what happened
    asked, served, reported,
    timely,     \* requests answered while the client waited for them
    spoilt      \* what went wrong on the line: "late", "damaged", "lost"

fixed      == <<tcp, home, role>>
history    == <<asked, served, reported, timely, spoilt>>
clientVars == <<pc, setting, address, tid, successes, opened, exit>>
device     == <<descriptors, tios, old_tios>>
vars       == <<fixed, clientVars, device, link, pending, buffer, history>>

AsFound == 0

Current == <<setting, address>>
InSession == pc \in {"ask", "wait", "next"}

Garbage == [unit |-> First, tid |-> 0, kind |-> "garbage"]

Init ==
    /\ tcp \in BOOLEAN
    /\ home \in Settings
    /\ role \in [Addresses -> {"absent", "good", "refuses"}]
    /\ pc = "connect" /\ setting = IF tcp THEN NumSettings ELSE 1
    /\ address = First /\ tid = 0 /\ successes = 0 /\ opened = 0 /\ exit = "running"
    /\ descriptors = {} /\ tios = AsFound /\ old_tios = AsFound
    /\ link = "down" /\ pending = {} /\ buffer = <<>>
    /\ asked = {} /\ served = [x \in Requests \X Addresses |-> 0]
    /\ reported = {} /\ timely = {} /\ spoilt = {}

-----------------------------------------------------------------------------
(* main and connect_and_process.                                           *)

\* One setting is done: `found` says whether it returned 0.
Return(found) ==
    LET total == opened + (IF found THEN 1 ELSE 0)
    IN  /\ opened' = total
        /\ IF setting < NumSettings
           THEN pc' = "connect" /\ setting' = setting + 1 /\ UNCHANGED exit
           ELSE /\ pc' = "done"
                /\ exit' = IF total > 0 THEN "success" ELSE "failure"
                /\ UNCHANGED setting

\* Mutant: the successes of the settings before are counted again.
ConnectedKeepsCount ==
    /\ link' = "up" /\ pc' = "ask" /\ address' = First
    /\ tid' = 0 /\ buffer' = <<>>
    /\ UNCHANGED <<fixed, setting, successes, opened, exit, pending, history>>
\* modbus_connect has succeeded, and process_requests begins.
Connected ==
    /\ link' = "up" /\ pc' = "ask" /\ address' = First
    /\ tid' = 0 /\ successes' = 0 /\ buffer' = <<>>
    /\ UNCHANGED <<fixed, setting, opened, exit, pending, history>>

\* A new context, and modbus_connect opens the device or makes a socket.
Open ==
    /\ pc = "connect"
    /\ descriptors' = descriptors \cup {setting} /\ pc' = "opened"
    /\ UNCHANGED <<fixed, setting, address, tid, successes, opened, exit, tios, old_tios, link,
                   pending, buffer, history>>

\* No context, one that cannot be configured, or a device that cannot be opened.
OpenFails ==
    /\ pc = "connect"
    /\ Return(FALSE)
    /\ UNCHANGED <<fixed, address, tid, successes, device, link, pending, buffer, history>>

\* _modbus_rtu_connect: tcgetattr and tcsetattr.
SetLine ==
    /\ pc = "opened" /\ ~tcp
    /\ old_tios' = tios /\ tios' = setting
    /\ Connected
    /\ UNCHANGED descriptors

\* _connect: connect succeeds at once, or is in progress.
StartConnect ==
    /\ pc = "opened" /\ tcp
    /\ \/ Connected
       \/ /\ pc' = "connecting"
          /\ UNCHANGED <<fixed, setting, address, tid, successes, opened, exit, link, pending,
                         buffer, history>>
    /\ UNCHANGED device

\* select finds the socket writable, and SO_ERROR is 0.
Established == pc = "connecting" /\ Connected /\ UNCHANGED device

\* Mutant: the descriptor is left to modbus_free, which closes nothing.
SetUpFailsOpen ==
    /\ pc \in {"opened", "connecting"}
    /\ Return(FALSE)
    /\ UNCHANGED <<fixed, address, tid, successes, device, link, pending, buffer, history>>
\* tcsetattr, a socket option, the address, connect, select (at response_timeout),
\* or SO_ERROR.
SetUpFails ==
    /\ pc \in {"opened", "connecting"}
    /\ descriptors' = descriptors \ {setting}
    /\ Return(FALSE)
    /\ UNCHANGED <<fixed, address, tid, successes, tios, old_tios, link, pending, buffer, history>>

\* Mutant: the settings found are forgotten.
CloseKeepsLine ==
    /\ pc = "close"
    /\ descriptors' = descriptors \ {setting}
    /\ Return(successes > 0)
    /\ link' = "down" /\ buffer' = <<>>
    /\ UNCHANGED <<fixed, address, tid, successes, tios, old_tios, pending, history>>

\* modbus_close. Nothing can be set on a device that is gone.
Close ==
    /\ pc = "close"
    /\ tios' = IF link = "up" THEN old_tios ELSE tios
    /\ descriptors' = descriptors \ {setting}
    /\ Return(successes > 0)
    /\ link' = "down" /\ buffer' = <<>>
    /\ UNCHANGED <<fixed, address, tid, successes, old_tios, pending, history>>

-----------------------------------------------------------------------------
(* One turn of the loop in process_requests.                               *)

\* The slaves that hear a request: on TCP the unit, behind the server; on a
\* serial line the slave, or all of them, if they use this setting.
Hearers ==
    {by \in Addresses : /\ role[by] # "absent"
                        /\ IF tcp THEN by = address
                                  ELSE tios = home /\ address \in {by, 0}}

NextTid == IF tid < MaxTid THEN tid + 1 ELSE 0

\* Mutant: the t_id is not increased.
AskSameTid ==
    /\ pc = "ask" /\ link = "up"
    /\ asked' = asked \cup {Current}
    /\ pending' = pending \cup {[req |-> Current, tid |-> tid, by |-> b] : b \in Hearers}
    /\ pc' = "wait"
    /\ UNCHANGED <<fixed, setting, address, tid, successes, opened, exit, device, link, buffer, served,
                   reported, timely, spoilt>>

\* modbus_set_slave, build_request_basis and send_msg.
Ask ==
    /\ pc = "ask" /\ link = "up"
    /\ tid' = NextTid
    /\ asked' = asked \cup {Current}
    /\ pending' = pending \cup {[req |-> Current, tid |-> tid', by |-> b] : b \in Hearers}
    /\ pc' = "wait"
    /\ UNCHANGED <<fixed, setting, address, successes, opened, exit, device, link, buffer, served,
                   reported, timely, spoilt>>

\* send_msg fails; nothing connects again.
AskFails ==
    /\ pc = "ask" /\ link = "down"
    /\ tid' = NextTid
    /\ pc' = "next"
    /\ UNCHANGED <<fixed, setting, address, successes, opened, exit, device, link, pending, buffer,
                   history>>

\* pre_check_confirmation. An answer to address 0 on a serial line has been
\* given length 0 by check_integrity, and is refused further on.
Matches(m) == IF tcp THEN m.tid = tid ELSE m.unit = address /\ m.unit # 0

\* What is left of the line after the first message has been read: garbage has
\* no length of its own.
Remaining ==
    IF Head(buffer).kind = "garbage"
    THEN {<<>>, buffer, Tail(buffer)} ELSE {Tail(buffer)}

\* _modbus_receive_msg and check_confirmation.
Receive ==
    /\ pc = "wait" /\ buffer # <<>>
    /\ buffer' \in Remaining
    /\ IF Head(buffer).kind = "ok" /\ Matches(Head(buffer))
       THEN successes' = successes + 1 /\ reported' = reported \cup {Current}
       ELSE UNCHANGED <<successes, reported>>
    /\ pc' = "next"
    /\ UNCHANGED <<fixed, setting, address, tid, opened, exit, device, link, pending, asked, served,
                   timely, spoilt>>

\* Mutant: the timeout is not told from an answer that is there.
NothingReadRaces ==
    /\ pc = "wait"
    /\ pc' = "next"
    /\ UNCHANGED <<fixed, setting, address, tid, successes, opened, exit, device, link, pending, buffer,
                   history>>

\* Mutant: the request is sent again.
NothingReadResends ==
    /\ pc = "wait" /\ buffer = <<>>
    /\ pending' = pending \cup {[req |-> Current, tid |-> tid, by |-> b] : b \in Hearers}
    /\ UNCHANGED <<fixed, clientVars, device, link, buffer, history>>

\* ETIMEDOUT, or the end of the connection.
NothingRead ==
    /\ pc = "wait" /\ buffer = <<>>
    /\ pc' = "next"
    /\ UNCHANGED <<fixed, setting, address, tid, successes, opened, exit, device, link, pending, buffer,
                   history>>

\* Mutant: an address that failed is asked again.
NextRetries ==
    /\ pc = "next"
    /\ IF address < Last THEN /\ pc' = "ask"
                              /\ address' = IF Current \in reported THEN address + 1 ELSE address
                         ELSE pc' = "close" /\ UNCHANGED address
    /\ UNCHANGED <<fixed, setting, tid, successes, opened, exit, device, link, pending, buffer, history>>

\* The end of the loop's body; between two addresses, interframe_delay passes.
Advance ==
    /\ pc = "next"
    /\ IF address < Last THEN pc' = "ask" /\ address' = address + 1
                         ELSE pc' = "close" /\ UNCHANGED address
    /\ UNCHANGED <<fixed, setting, tid, successes, opened, exit, device, link, pending, buffer, history>>

-----------------------------------------------------------------------------
(* The slaves and the line.                                                *)

Answer(p) == [unit |-> p.req[2], tid |-> p.tid,
              kind |-> IF role[p.by] = "good" THEN "ok" ELSE "exception"]

\* What may reach the client: on a serial line an answer may be damaged or
\* lost, is garbage to another setting, and is not given to a broadcast.
Arrives(p) ==
    IF ~InSession \/ link = "down" THEN {<<>>}
    ELSE IF tcp THEN {<<Answer(p)>>}
    ELSE IF p.req[2] = 0 THEN {<<>>}
    ELSE {<<>>, <<Garbage>>} \cup (IF tios = home THEN {<<Answer(p)>>} ELSE {})

\* A slave carries out p, and what reaches the client of its answer is `answer`.
ServeOne(p, answer) ==
    LET good   == role[p.by] = "good"
        inTime == pc = "wait" /\ p.req = Current
        whole  == answer = <<Answer(p)>>
    IN  /\ served[<<p.req, p.by>>] < MaxServed
        /\ pending' = pending \ {p}
        /\ served' = IF good THEN [served EXCEPT ![<<p.req, p.by>>] = @ + 1] ELSE served
        /\ buffer' = buffer \o answer
        /\ timely' = IF good /\ inTime /\ whole THEN timely \cup {p.req} ELSE timely
        /\ spoilt' = spoilt \cup
               (IF answer = <<Garbage>> THEN {"damaged"} ELSE {}) \cup
               (IF whole /\ ~inTime THEN {"late"} ELSE {})
        /\ UNCHANGED <<fixed, clientVars, device, link, asked, reported>>

Serve == \E p \in pending : \E answer \in Arrives(p) : ServeOne(p, answer)

\* The server closes the connection, or the serial device is unplugged; what
\* has arrived may go with it.
LinkLost ==
    /\ InSession /\ link = "up"
    /\ link' = "down" /\ tios' = AsFound
    /\ \/ UNCHANGED <<buffer, spoilt>>
       \/ buffer # <<>> /\ buffer' = <<>> /\ spoilt' = spoilt \cup {"lost"}
    /\ UNCHANGED <<fixed, clientVars, descriptors, old_tios, pending, asked, served, reported, timely>>

-----------------------------------------------------------------------------
ClientStep == \/ Open \/ OpenFails \/ SetLine \/ StartConnect \/ Established \/ SetUpFails
              \/ Close \/ Ask \/ AskFails
              \/ Receive \/ NothingRead \/ Advance

Next == ClientStep \/ Serve \/ LinkLost

Spec == Init /\ [][Next]_vars

\* The client runs, and its timeout expires.
FairSpec == Spec /\ WF_vars(ClientStep)

-----------------------------------------------------------------------------
(* Properties.                                                             *)

\* Types, and the counters count what has been printed.
TypeOK ==
    /\ pc \in {"connect", "opened", "connecting", "ask", "wait", "next", "close", "done"}
    /\ descriptors \subseteq Settings /\ {tios, old_tios} \subseteq Settings \cup {AsFound}
    /\ setting \in Settings /\ address \in Addresses /\ tid \in 0..MaxTid
    /\ exit \in {"running", "success", "failure"} /\ link \in {"up", "down"}
    /\ asked \subseteq Requests /\ reported \subseteq asked /\ timely \subseteq asked
    /\ InSession => successes = Cardinality({r \in reported : r[1] = setting})
    /\ spoilt \subseteq {"late", "damaged", "lost"}

Promise == INSTANCE ModbusScan

(* The run keeps the promise of ModbusScan: no address is reported on the  *)
(* strength of another's answer, no slave is made to carry out a request   *)
(* twice, and the exit status tells whether anything was reported.         *)
ImplementsScan == Promise!ASpec

(* As long as no answer is late, damaged or lost, every slave that carries *)
(* out its request in time is reported, whatever the others do.            *)
OnlyLateAnswersHurt ==
    spoilt = {} => \A r \in timely : r \in reported \/ (r = Current /\ pc = "wait")

(* Whatever step of a connection fails, and wherever it is lost, nothing   *)
(* is open between two settings and when the run ends, and the serial line *)
(* is as it was found (modbus-rtu.c:1096); what is sent in between goes    *)
(* out with the settings it is meant for.                                  *)
LineGivenBack ==
    /\ pc \in {"connect", "done"} => descriptors = {} /\ tios = AsFound
    /\ pc \in {"ask", "wait", "next", "close"} =>
          /\ descriptors = {setting}
          /\ ~tcp /\ link = "up" => tios = setting

(* Absent slaves, late answers and a lost connection delay the run, and do *)
(* not prevent its end.                                                    *)
ScanEnds == <>(pc = "done")

(* What README.md:139-141 says of the exit status: it is nonzero only if   *)
(* no slave responded successfully. No answer is damaged or lost here.     *)
TimelyAnswersCount ==
    (pc = "done" /\ timely # {} /\ spoilt \subseteq {"late"}) => exit = "success"
=============================================================================
