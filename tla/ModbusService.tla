---------------------------- MODULE ModbusService ----------------------------
(***************************************************************************)
(* What `modbuss tcp` promises its clients, with no descriptors and no    *)
(* select: a serial service. Connections are admitted in the order they    *)
(* arrived; one frame of one connection is in hand at a time; what is in   *)
(* hand is answered on the connection it came from; and a connection is    *)
(* dropped only because of what that client itself did, or because the    *)
(* service ends.                                                           *)
(***************************************************************************)
EXTENDS Naturals, Sequences

CONSTANTS Client, NoClient, Kind, Token

VARIABLES
    open,     \* the service takes connections
    queue,    \* clients waiting to be admitted, in order of arrival
    admitted, \* clients being served
    left,     \* clients that closed their end
    asked,    \* what each client sent that was not taken in hand yet
    unread,   \* answers each client has not read yet
    serving,  \* whose frame is in hand
    frame     \* what it is: a Kind, "part" of a frame, or "bad"

svars == <<open, queue, admitted, left, asked, unread, serving, frame>>

Init ==
    /\ open = TRUE
    /\ queue = <<>>
    /\ admitted = {}
    /\ left = {}
    /\ asked = [c \in Client |-> <<>>]
    /\ unread = [c \in Client |-> 0]
    /\ serving = NoClient
    /\ frame = "none"

Waiting(c) == \E i \in 1..Len(queue) : queue[i] = c
Present(c) == Waiting(c) \/ c \in admitted

\* Nothing of client c's connection remains.
Gone(c) ==
    /\ left' = left \ {c}
    /\ asked' = [asked EXCEPT ![c] = <<>>]
    /\ unread' = [unread EXCEPT ![c] = 0]

Connect(c) ==
    /\ open
    /\ ~Present(c)
    /\ queue' = Append(queue, c)
    /\ UNCHANGED <<open, admitted, left, asked, unread, serving, frame>>

Ask(c, t) ==
    /\ Present(c)
    /\ c \notin left
    /\ asked' = [asked EXCEPT ![c] = Append(@, t)]
    /\ UNCHANGED <<open, queue, admitted, left, unread, serving, frame>>

Read(c) ==
    /\ unread[c] > 0
    /\ unread' = [unread EXCEPT ![c] = @ - 1]
    /\ UNCHANGED <<open, queue, admitted, left, asked, serving, frame>>

Leave(c) ==
    /\ Present(c)
    /\ left' = left \cup {c}
    /\ UNCHANGED <<open, queue, admitted, asked, unread, serving, frame>>

Admit ==
    /\ queue # <<>>
    /\ serving = NoClient
    /\ admitted' = admitted \cup {Head(queue)}
    /\ queue' = Tail(queue)
    /\ UNCHANGED <<open, left, asked, unread, serving, frame>>

\* Out of capacity, or the client already left.
Refuse ==
    /\ queue # <<>>
    /\ serving = NoClient
    /\ queue' = Tail(queue)
    /\ Gone(Head(queue))
    /\ UNCHANGED <<open, admitted, serving, frame>>

\* A whole request is taken as what it is; anything else may be read as a
\* request, as part of one, or be refused.
Take(c) ==
    /\ serving = NoClient
    /\ c \in admitted
    /\ asked[c] # <<>>
    /\ asked' = [asked EXCEPT ![c] = Tail(@)]
    /\ serving' = c
    /\ \/ Head(asked[c]) \in Kind /\ frame' = Head(asked[c])
       \/ Head(asked[c]) \notin Kind /\ frame' \in Kind \cup {"part", "bad"}
    /\ UNCHANGED <<open, queue, admitted, left, unread>>

Complete(c) ==
    /\ serving = c
    /\ frame = "part"
    /\ asked[c] # <<>>
    /\ asked' = [asked EXCEPT ![c] = Tail(@)]
    /\ frame' \in Kind \cup {"bad"}
    /\ UNCHANGED <<open, queue, admitted, left, unread, serving>>

\* The causes for which a connection is dropped: the client left, the frame
\* was never completed, or it is one the server refuses.
GiveUp(c) ==
    /\ \/ serving = c /\ (c \in left \/ frame \in {"part", "fatal"})
       \/ serving = NoClient /\ c \in admitted \cap left /\ asked[c] = <<>>
    /\ serving' = c
    /\ frame' = "bad"
    /\ UNCHANGED <<open, queue, admitted, left, asked, unread>>

Purge(c) ==
    /\ serving = c
    /\ frame = "purge"
    /\ asked' = [asked EXCEPT ![c] = <<>>]
    /\ frame' = "plain"
    /\ UNCHANGED <<open, queue, admitted, left, unread, serving>>

Answer(c) ==
    /\ serving = c
    /\ frame = "plain"
    /\ unread' = [unread EXCEPT ![c] = @ + 1]
    /\ serving' = NoClient
    /\ frame' = "none"
    /\ UNCHANGED <<open, queue, admitted, left, asked>>

Drop(c) ==
    /\ serving = c
    /\ frame = "bad"
    /\ admitted' = admitted \ {c}
    /\ serving' = NoClient
    /\ frame' = "none"
    /\ Gone(c)
    /\ UNCHANGED <<open, queue>>

End ==
    /\ serving = NoClient
    /\ open' = FALSE
    /\ queue' = <<>>
    /\ admitted' = {}
    /\ left' = {}
    /\ asked' = [c \in Client |-> <<>>]
    /\ unread' = [c \in Client |-> 0]
    /\ UNCHANGED <<serving, frame>>

Next ==
    \/ Admit \/ Refuse \/ End
    \/ \E c \in Client :
          \/ Connect(c) \/ Read(c) \/ Leave(c) \/ Take(c) \/ Complete(c)
          \/ GiveUp(c) \/ Purge(c) \/ Answer(c) \/ Drop(c)
          \/ \E t \in Token : Ask(c, t)

ServiceSpec == Init /\ [][Next]_svars
=============================================================================
