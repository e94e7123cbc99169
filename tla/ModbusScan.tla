----------------------------- MODULE ModbusScan -----------------------------
(***************************************************************************)
(* What a `modbusc` run promises: it asks each address once with each      *)
(* serial setting, in order; a slave carries out at most one request of    *)
(* each; an address is reported only if the slave has carried it out; the  *)
(* exit status says whether anything was reported.                         *)
(***************************************************************************)
EXTENDS Integers

CONSTANTS
    Settings,   \* the serial settings, 1..n (a TCP run has one)
    Addresses   \* the slave addresses, an interval

VARIABLES
    asked,      \* <<setting, address>> of the requests made so far
    served,     \* served[<<r, by>>]: how often slave `by` has carried out r
    reported,   \* the requests printed as a success
    exit        \* "running", "success" or "failure"

avars == <<asked, served, reported, exit>>

Requests == Settings \X Addresses

Before(r, q) == r[1] < q[1] \/ (r[1] = q[1] /\ r[2] < q[2])

\* The request being made: the last one asked.
IsLast(r) == r \in asked /\ \A q \in asked : q = r \/ Before(q, r)

AInit ==
    /\ asked = {}
    /\ served = [x \in Requests \X Addresses |-> 0]
    /\ reported = {}
    /\ exit = "running"

AAsk ==
    /\ exit = "running"
    /\ \E r \in Requests :
          /\ \A q \in asked : Before(q, r)
          /\ asked' = asked \cup {r}
    /\ UNCHANGED <<served, reported, exit>>

\* Address 0 is for every slave. A slave may still be busy when the client has gone.
AServe ==
    /\ \E r \in asked, by \in Addresses :
          /\ served[<<r, by>>] = 0
          /\ r[2] \in {by, 0}
          /\ served' = [served EXCEPT ![<<r, by>>] = 1]
    /\ UNCHANGED <<asked, reported, exit>>

AReport ==
    /\ exit = "running"
    /\ \E r \in asked \ reported :
          /\ IsLast(r)
          /\ served[<<r, r[2]>>] = 1
          /\ reported' = reported \cup {r}
    /\ UNCHANGED <<asked, served, exit>>

AFinish ==
    /\ exit = "running"
    /\ exit' = IF reported = {} THEN "failure" ELSE "success"
    /\ UNCHANGED <<asked, served, reported>>

ANext == AAsk \/ AServe \/ AReport \/ AFinish

ASpec == AInit /\ [][ANext]_avars
=============================================================================
