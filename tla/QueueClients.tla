---------------------------- MODULE QueueClients ----------------------------
(***************************************************************************)
(* MutexQueue on its own, under every schedule of callers that keep to the *)
(* one rule its interface needs: Front and Pop are called by one thread.   *)
(* That thread calls them in any order, also Pop with nothing to pop.      *)
(***************************************************************************)
EXTENDS MutexQueue

CONSTANTS
    Consumer,     \* the thread that calls Front and Pop
    MaxAccepted   \* bound: Push is not called once this many were accepted

ASSUME ClientsAssumption ==
    /\ Consumer \in Threads
    /\ MaxAccepted \in Nat

Producers == Threads \ {Consumer}

Next ==
    \/ \E p \in Producers, m \in Messages :
          Len(accepted) < MaxAccepted /\ Push(p, m)
    \/ Pop(Consumer)
    \/ Front(Consumer)
    \/ \E t \in Threads : CallStep(t) \/ SpuriousWakeup(t)

Spec == QueueInit /\ [][Next]_queueVars

-----------------------------------------------------------------------------
(* Properties *)

\* Messages leave in the order in which they were inserted, none twice and
\* none skipped, whatever the callers of Push (56-71) and Pop (73-84) do.
Fifo == accepted = removed \o queue

\* The loop around the wait in Push (60-66): a thread woken by Front, which
\* makes no room, or by nobody, does not insert beyond m_nSize.
WithinCapacity == Len(queue) <= Capacity

\* The signal at the end of Push (69) is never missed: the thread asleep in
\* Front (91-92) sleeps only while there is nothing to take.
NoForgottenConsumer == call[Consumer] = "frontWait" => queue = <<>>

\* What MutexQueue.h:28 says of m_condFull, "after pop send this cond": a
\* Pop that makes room while a thread sleeps in Push wakes a sleeper.
Asleep == {t \in Threads : call[t] = "pushWait"}

PopWakesPusher ==
    [][Len(removed') > Len(removed) /\ Asleep # {} => Asleep' # Asleep]_queueVars

=============================================================================
