------------------------------ MODULE MCQueue -------------------------------
(* Values for the runs of QueueClients: two producers, which are alike.    *)
EXTENDS QueueClients, TLC

CONSTANTS p1, p2, taker, m1, m2, null, free, stale

MCThreads == {p1, p2, taker}
MCMessages == {m1, m2}
MCLocks == {free, stale}
Alike == Permutations({p1, p2})
=============================================================================
