------------------------------- MODULE Outbox --------------------------------
(***************************************************************************)
(* What the queue and the socket server promise together to the threads    *)
(* that notify home: an outbox of bounded size, emptied from its head into *)
(* the stream of messages handed to the kernel.  Nothing overtakes, nothing*)
(* is handed over twice, nothing is lost while the process lives.          *)
(***************************************************************************)
EXTENDS Naturals, Sequences

CONSTANTS Messages, Capacity

VARIABLES pending, delivered

outboxVars == <<pending, delivered>>

Init == pending = <<>> /\ delivered = <<>>

Post(m) ==
    /\ Len(pending) < Capacity
    /\ pending' = Append(pending, m)
    /\ UNCHANGED delivered

Deliver ==
    /\ pending # <<>>
    /\ delivered' = Append(delivered, Head(pending))
    /\ pending' = Tail(pending)

Next == Deliver \/ \E m \in Messages : Post(m)

Spec == Init /\ [][Next]_outboxVars
=============================================================================
