------------------------------ MODULE PingPong ------------------------------
(***************************************************************************)
(* What a latency test promises: two sides that send each other Total      *)
(* messages in turn, First beginning.  A side sends its next message only  *)
(* after it has received the answer to the last one, so that the time      *)
(* between two of its time stamps is one round trip.  The loops of the     *)
(* latency tests (LatWrite, LatSend) are shown to implement it.            *)
(***************************************************************************)
EXTENDS Integers

CONSTANTS Side, First, Total

Peer(s) == CHOOSE t \in Side : t # s

VARIABLES sent, rcvd   \* per side: messages sent, messages noticed

vars == <<sent, rcvd>>

Init == sent = [s \in Side |-> 0] /\ rcvd = [s \in Side |-> 0]

\* First is ahead by one message while the other has not answered it.
MaySend(s) == /\ sent[s] < Total
              /\ IF s = First THEN sent[s] = rcvd[s] ELSE sent[s] < rcvd[s]

Send(s) == /\ MaySend(s)
           /\ sent' = [sent EXCEPT ![s] = @ + 1]
           /\ UNCHANGED rcvd

Receive(s) == /\ rcvd[s] < sent[Peer(s)]
              /\ rcvd' = [rcvd EXCEPT ![s] = @ + 1]
              /\ UNCHANGED sent

\* The test is over.
Over == (\A s \in Side : sent[s] = Total /\ rcvd[s] = Total) /\ UNCHANGED vars

Next == (\E s \in Side : Send(s) \/ Receive(s)) \/ Over

Spec == Init /\ [][Next]_vars

-----------------------------------------------------------------------------

\* Between two messages of a side lies a whole round trip: when it sends one
\* its peer has noticed all the earlier ones.
RoundTrip == \A s \in Side : sent[s] <= rcvd[Peer(s)] + 1
=============================================================================
