---------------------------- MODULE ModbusFraming ----------------------------
(***************************************************************************)
(* _modbus_receive_msg (src/libmodbus/src/modbus.c): how a message is cut  *)
(* out of a byte stream. The reader asks for what it must have to know how *)
(* much more to ask for: up to the function code, then the fixed part      *)
(* ("meta"), then the counted data and the checksum.                       *)
(*                                                                         *)
(* The stream is a row of frames; of their bytes only the function code    *)
(* and the byte that counts the data can change what the reader does, so   *)
(* the others are all Filler. Positions are counted from the start of the  *)
(* stream. The stream delivers any number of bytes at a time and may stop  *)
(* anywhere.                                                               *)
(***************************************************************************)
EXTENDS ModbusPdu

CONSTANTS
    Lines,   \* the byte streams considered: see LineAssumption
    Filler,  \* the value of every other byte
    Breaks   \* bound: a delivery ends this far from an end of a frame

Frame == [fc : Byte, nb : Nat, count : Byte, size : Nat \ {0}, at : Nat]

(* A line: the backend, who reads it (a server reads indications, a client *)
(* confirmations), and the frames sent, which lie end to end.              *)
Tiled(l) ==
    /\ \A f \in l.frames : f.at + f.size <= l.total
    /\ \A f, g \in l.frames : f = g \/ f.at + f.size <= g.at \/ g.at + g.size <= f.at
    /\ \A p \in {0} \cup {f.at + f.size : f \in l.frames} :
          p = l.total \/ \E f \in l.frames : f.at = p

LineAssumption ==
    \A l \in Lines :
        /\ l.backend \in {TcpBackend, RtuBackend}
        /\ l.type \in {"indication", "confirmation"}
        /\ l.frames \subseteq Frame
        /\ l.total \in Nat
        /\ Tiled(l)

ASSUME Assumption == LineAssumption /\ Filler \in Byte /\ Breaks \subseteq Nat

VARIABLES
    line,     \* the stream, fixed from the start
    arrived,  \* bytes the receive buffer has been given
    pc,       \* "idle" between calls, "reading", or "closed"
    step,     \* _step_t step
    need,     \* length_to_read
    first,    \* where in the stream this message starts
    len,      \* msg_length
    timer,    \* what p_tv points to: "none", "response" or "byte"
    result,   \* what the last call returned
    torn      \* a timeout or a reset has cut a message short

vars == <<line, arrived, pc, step, need, first, len, timer, result, torn>>

header   == line.backend.header
checksum == line.backend.checksum
maxAdu   == line.backend.maxAdu
Frames   == line.frames
Total    == line.total

\* The byte at position p of the stream.
ByteAt(p) ==
    LET f == CHOOSE g \in Frames : g.at <= p /\ p < g.at + g.size
    IN  CASE p = f.at + header                                     -> f.fc
          [] /\ CountPlaced(f.fc, line.type) # 0
             /\ p = f.at + header + CountPlaced(f.fc, line.type)  -> f.count
          [] OTHER                                                 -> Filler

available == arrived - (first + len)
function  == ByteAt(first + header)

\* compute_data_length_after_meta
DataLength ==
    checksum + IF CountAt(function, line.type) = 0 THEN 0
               ELSE ByteAt(first + header + CountAt(function, line.type))

Result == [kind : {"none", "message", "overflow", "timeout", "reset"}, at : Nat, size : Nat]

Init ==
    /\ line \in Lines
    /\ arrived = 0 /\ first = 0 /\ len = 0 /\ need = 0
    /\ pc = "idle" /\ step = "FUNCTION" /\ timer = "none" /\ torn = FALSE
    /\ result = [kind |-> "none", at |-> 0, size |-> 0]

-----------------------------------------------------------------------------
(* The stream.                                                             *)

AtBreak(p) == \E f \in Frames : (p - f.at) \in Breaks \/ (f.at + f.size - p) \in Breaks

\* The next bytes arrive, in one piece.
Arrive ==
    /\ pc # "closed"
    /\ \E p \in (arrived + 1)..Total : AtBreak(p) /\ arrived' = p
    /\ UNCHANGED <<line, pc, step, need, first, len, timer, result, torn>>

-----------------------------------------------------------------------------
(* The reader.                                                             *)

\* The call: ask for everything up to the function code. A server waits for
\* a request without a limit, a client for an answer with response_timeout.
Call ==
    /\ pc = "idle"
    /\ pc' = "reading"
    /\ step' = "FUNCTION"
    /\ need' = header + 1
    /\ len' = 0
    /\ timer' = IF line.type = "indication" THEN "none" ELSE "response"
    /\ UNCHANGED <<line, arrived, first, result, torn>>

\* The whole message has been read.
Deliver(size) ==
    /\ result' = [kind |-> "message", at |-> first, size |-> size]
    /\ pc' = "idle"
    /\ first' = first + size
    /\ len' = 0 /\ need' = 0 /\ timer' = "none"
    /\ UNCHANGED <<line, arrived, step, torn>>

\* The call returns -1 after `size` bytes. Both servers then close the
\* connection or the port; the client carries on with its next request.
Fail(kind, size) ==
    /\ result' = [kind |-> kind, at |-> first, size |-> size]
    /\ pc' = IF line.type = "indication" THEN "closed" ELSE "idle"
    /\ torn' = (torn \/ (size > 0 /\ kind # "overflow"))
    /\ first' = first + size
    /\ len' = 0 /\ need' = 0 /\ timer' = "none"
    /\ UNCHANGED <<line, arrived, step>>

\* Mutant: the interval between two bytes is not limited.
AskForUntimed(n, s, got) ==
    /\ need' = n
    /\ step' = s
    /\ len' = got
    /\ UNCHANGED <<line, arrived, pc, first, timer, result, torn>>

\* There is more to read, and byte_timeout limits the wait for it.
AskFor(n, s, got) ==
    /\ need' = n
    /\ step' = s
    /\ len' = got
    /\ timer' = "byte"
    /\ UNCHANGED <<line, arrived, pc, first, result, torn>>

\* Mutant: counts the bytes asked for instead of the bytes received.
ReadPartAsAsked ==
    /\ pc = "reading"
    /\ 0 < available /\ available < need
    /\ AskFor(need - available, step, len + need)

\* recv returns less than was asked for.
ReadPart ==
    /\ pc = "reading"
    /\ 0 < available /\ available < need
    /\ AskFor(need - available, step, len + available)

ReadEnough == pc = "reading" /\ available >= need

\* Mutant: the check leaves room for the data and forgets the checksum.
AfterMetaNoChecksum(got) ==
    \/ got + DataLength - checksum > maxAdu /\ Fail("overflow", got)
    \/ /\ got + DataLength - checksum <= maxAdu
       /\ IF DataLength > 0 THEN AskFor(DataLength, "DATA", got) ELSE Deliver(got)

\* The fixed part is complete: the data it announces must fit the buffer.
AfterMeta(got) ==
    \/ got + DataLength > maxAdu /\ Fail("overflow", got)
    \/ /\ got + DataLength <= maxAdu
       /\ IF DataLength > 0 THEN AskFor(DataLength, "DATA", got) ELSE Deliver(got)

ReadFunction ==
    /\ ReadEnough /\ step = "FUNCTION"
    /\ LET meta == MetaLength(function, line.type)
       IN  IF meta # 0 THEN AskFor(meta, "META", len + need) ELSE AfterMeta(len + need)

ReadMeta == ReadEnough /\ step = "META" /\ AfterMeta(len + need)

ReadData == ReadEnough /\ step = "DATA" /\ Deliver(len + need)

\* select runs out of time with nothing to read.
Timeout ==
    /\ pc = "reading"
    /\ available = 0 /\ timer # "none"
    /\ Fail("timeout", len)

\* The peer has gone: recv returns 0, or an error.
Reset ==
    /\ pc = "reading"
    /\ available = 0
    /\ Fail("reset", len)

Read == ReadPart \/ ReadFunction \/ ReadMeta \/ ReadData

Next == Arrive \/ Call \/ Read \/ Timeout \/ Reset

Spec == Init /\ [][Next]_vars

\* The thread runs, and select's timer expires.
FairSpec == Spec /\ WF_vars(Read \/ Timeout)

-----------------------------------------------------------------------------
(* Properties.                                                             *)

\* Types: what has been read lies between what was delivered and what arrived.
TypeOK ==
    /\ line \in Lines
    /\ arrived \in 0..Total /\ first \in 0..arrived /\ len \in 0..(arrived - first)
    /\ pc \in {"idle", "reading", "closed"}
    /\ step \in {"FUNCTION", "META", "DATA"}
    /\ need \in Nat
    /\ timer \in {"none", "response", "byte"}
    /\ result \in Result
    /\ torn \in BOOLEAN

(* What recv may still store fits the caller's buffer of maxAdu bytes,     *)
(* whatever bytes the peer sent: the length check comes after the counted  *)
(* part is known, but the fixed part is asked for unchecked.               *)
InBuffer == pc = "reading" => len + need <= maxAdu

(* A frame as the request builders and modbus_reply write it.              *)
Built(f) ==
    /\ f.fc \in Written(line.type)
    /\ f.nb \in 0..MaxValues(f.fc, line.type)
    /\ f.size = header + PduLength(f.fc, f.nb, line.type) + checksum
    /\ CountPlaced(f.fc, line.type) # 0 => f.count = CountByte(f.fc, f.nb)

(* Whatever pieces the stream arrives in, a reader that no timeout or      *)
(* reset has cut short, and that has met only frames libmodbus builds,     *)
(* returns exactly one frame at a time and refuses none: the lengths the   *)
(* reader derives are the lengths the writers use, for every function.     *)
WholeFrames ==
    (result.kind \in {"message", "overflow"} /\ ~torn
        /\ \A f \in Frames : f.at <= result.at => Built(f))
    => \E f \in Frames : /\ f.at = result.at
                         /\ result = [kind |-> "message", at |-> f.at, size |-> f.size]

(* A client's call always ends; a server's ends once the peer has sent one *)
(* byte, however the peer goes on: neither can be held by half a message.  *)
ReceiveEnds ==
    (pc = "reading" /\ (len > 0 \/ line.type = "confirmation")) ~> pc # "reading"
=============================================================================
