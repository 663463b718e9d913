-------------------------- MODULE MutexQueueProofs --------------------------
(***************************************************************************)
(* What holds of a MutexQueue whoever calls it: lemmas for the proofs      *)
(* about its clients.                                                      *)
(***************************************************************************)
EXTENDS MutexQueue, SequenceTheorems, TLAPS

PushStates == {"pushEnter", "pushWait", "pushInsert"}

\* A thread in Push has a message to insert.
PushHasMessage ==
    \A t \in Threads : call[t] \in PushStates => item[t] \in Messages

\* A thread about to insert holds the mutex, and there is room.
InsertIsSafe ==
    \A t \in Threads :
        call[t] = "pushInsert" => mutex = t /\ Len(queue) < Capacity

\* The queue's part of the type invariant, over a step of a call in progress.
QueueTypeInv == QueueTypeOK /\ PushHasMessage

LEMMA SignalType ==
    ASSUME call \in [Threads -> CallStates], NEW t \in Threads,
           NEW waiting \in CallStates, NEW woken \in CallStates,
           SignalAndReturn(t, waiting, woken)
    PROVE  /\ call' \in [Threads -> CallStates]
           /\ \A u \in Threads :
                 call'[u] = call[u] \/ (call[u] = waiting /\ call'[u] = woken)
                   \/ (u = t /\ call'[u] = "none")
BY DEF SignalAndReturn, CallStates

LEMMA CallStepType ==
    ASSUME QueueTypeInv, NEW t \in Threads, CallStep(t) \/ SpuriousWakeup(t)
    PROVE  QueueTypeInv'
<1> USE DEF QueueTypeInv, QueueTypeOK, PushHasMessage, PushStates, CallStates
<1>1. CASE PushFull(t) BY <1>1, QueueAssumption DEF PushFull, Holding
<1>2. CASE PushRoom(t) BY <1>2, QueueAssumption DEF PushRoom, Holding
<1>3. CASE PushInsert(t)
  <2>1. /\ call' \in [Threads -> CallStates]
        /\ \A u \in Threads :
              \/ call'[u] = call[u]
              \/ call[u] = "frontWait" /\ call'[u] = "frontWoken"
              \/ u = t /\ call'[u] = "none"
    BY <1>3, SignalType DEF PushInsert
  <2>2. call'[t] = "none"
    BY <1>3 DEF PushInsert, SignalAndReturn
  <2>3. item[t] \in Messages
    BY <1>3 DEF PushInsert
  <2>4. /\ Append(queue, item[t]) \in Seq(Messages)
        /\ Append(accepted, item[t]) \in Seq(Messages)
    BY <2>3, AppendProperties
  <2>5. QueueTypeOK'
    BY <1>3, <2>1, <2>4 DEF PushInsert
  <2>6. PushHasMessage'
    BY <1>3, <2>1, <2>2 DEF PushInsert
  <2>. QED BY <2>5, <2>6
<1>4. CASE PushWaitError(t)
  BY <1>4, QueueAssumption DEF PushWaitError, Holding
<1>5. CASE PopEmpty(t) BY <1>5 DEF PopEmpty, Holding
<1>6. CASE PopHead(t)
  <2>1. Head(queue) \in Messages /\ Tail(queue) \in Seq(Messages)
    BY <1>6, HeadTailProperties DEF PopHead
  <2>. QED BY <1>6, <2>1 DEF PopHead, Holding
<1>7. CASE FrontEmpty(t) BY <1>7 DEF FrontEmpty, Holding
<1>8. CASE FrontHead(t)
  <2>1. /\ call' \in [Threads -> CallStates]
        /\ \A u \in Threads :
              \/ call'[u] = call[u]
              \/ call[u] = "pushWait" /\ call'[u] = "pushEnter"
              \/ u = t /\ call'[u] = "none"
    BY <1>8, SignalType DEF FrontHead
  <2>2. call'[t] = "none"
    BY <1>8 DEF FrontHead, SignalAndReturn, Holding
  <2>3. FrontResults \subseteq Messages \cup {NULL}
    BY HeadTailProperties DEF FrontResults
  <2>. QED BY <1>8, <2>1, <2>2, <2>3 DEF FrontHead
<1>9. CASE FrontWaitError(t) BY <1>9 DEF FrontWaitError, Holding
<1>10. CASE SpuriousWakeup(t) BY <1>10 DEF SpuriousWakeup
<1>. QED
  BY <1>1, <1>2, <1>3, <1>4, <1>5, <1>6, <1>7, <1>8, <1>9, <1>10 DEF CallStep

\* Beginning a call keeps it, too.
LEMMA BeginType ==
    ASSUME QueueTypeInv, NEW t \in Threads,
           \/ Pop(t) \/ Front(t)
           \/ \E m \in Messages : Push(t, m)
    PROVE  QueueTypeInv'
BY DEF QueueTypeInv, QueueTypeOK, PushHasMessage, PushStates, CallStates,
       Pop, Front, Push, Begin

-----------------------------------------------------------------------------
(* Sequences *)

LEMMA AppendConcat ==
    \A s, q \in Seq(Messages), m \in Messages :
        Append(s \o q, m) = s \o Append(q, m)
OBVIOUS

LEMMA MoveHead ==
    \A s, q \in Seq(Messages) :
        q # <<>> => s \o q = Append(s, Head(q)) \o Tail(q)
OBVIOUS

LEMMA AppendBehindHead ==
    \A q \in Seq(Messages), m \in Messages :
        q # <<>> =>
            /\ Append(q, m) # <<>>
            /\ Head(Append(q, m)) = Head(q)
            /\ Tail(Append(q, m)) = Append(Tail(q), m)
OBVIOUS
=============================================================================
