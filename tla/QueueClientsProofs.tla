------------------------- MODULE QueueClientsProofs -------------------------
(***************************************************************************)
(* The promises of MutexQueue for any number of producers, any messages    *)
(* and any capacity, whatever the mutex held at first and whether or not   *)
(* the waits may fail.                                                     *)
(***************************************************************************)
EXTENDS QueueClients, MutexQueueProofs

\* Producers do nothing but push.
OneConsumer ==
    \A t \in Producers : call[t] \in PushStates \cup {"none"}

IInv ==
    /\ QueueTypeInv
    /\ InsertIsSafe
    /\ OneConsumer
    /\ Fifo
    /\ WithinCapacity
    /\ NoForgottenConsumer

LEMMA ClientsInit == QueueInit => IInv
<1> SUFFICES ASSUME QueueInit PROVE IInv
  OBVIOUS
<1>1. <<>> \in Seq(Messages) /\ mutex \in Threads \cup {Free, Stale}
  BY QueueAssumption DEF QueueInit
<1>2. QueueTypeInv
  BY <1>1 DEF QueueInit, QueueTypeInv, QueueTypeOK, PushHasMessage, PushStates,
              CallStates
<1>3. Fifo /\ WithinCapacity
  BY QueueAssumption DEF QueueInit, Fifo, WithinCapacity
<1>. QED
  BY <1>2, <1>3, ClientsAssumption
  DEF QueueInit, IInv, InsertIsSafe, OneConsumer, NoForgottenConsumer,
      Producers, PushStates

LEMMA FifoPush ==
    ASSUME QueueTypeOK, Fifo, NEW m \in Messages
    PROVE  Append(accepted, m) = removed \o Append(queue, m)
<1>1. removed \in Seq(Messages) /\ queue \in Seq(Messages)
  BY DEF QueueTypeOK
<1>2. Append(removed \o queue, m) = removed \o Append(queue, m)
  BY <1>1, AppendConcat
<1>. QED BY <1>2 DEF Fifo

\* A step of a call in progress.
LEMMA ClientsCallStep ==
    ASSUME IInv, NEW t \in Threads, CallStep(t) \/ SpuriousWakeup(t)
    PROVE  IInv'
<1>1. QueueTypeInv'
  BY CallStepType DEF IInv
<1> USE QueueAssumption, ClientsAssumption
    DEF IInv, QueueTypeInv, QueueTypeOK, PushHasMessage, CallStates,
        PushStates, InsertIsSafe, OneConsumer, Producers, Fifo,
        WithinCapacity, NoForgottenConsumer
<1>2. CASE PushFull(t) BY <1>1, <1>2 DEF PushFull, Holding
<1>3. CASE PushRoom(t)
  <2>1. /\ call[t] = "pushEnter" /\ mutex = Free /\ Len(queue) < Capacity
        /\ mutex' = t /\ call' = [call EXCEPT ![t] = "pushInsert"]
        /\ UNCHANGED <<queue, item, accepted, removed>>
    <3>1. Len(queue) \in Nat
      BY LenProperties
    <3>. QED BY <1>3, <3>1 DEF PushRoom, Holding
  <2>2. InsertIsSafe' /\ OneConsumer'
    BY <2>1
  <2>3. Fifo' /\ WithinCapacity' /\ NoForgottenConsumer'
    BY <2>1
  <2>. QED BY <1>1, <2>2, <2>3
<1>4. CASE PushInsert(t)
  <2>1. /\ call[t] = "pushInsert" /\ mutex = t /\ Len(queue) < Capacity
        /\ \A u \in Threads \ {t} : call[u] # "pushInsert"
        /\ item[t] \in Messages
    BY <1>4 DEF PushInsert
  <2>2. /\ call'[Consumer] # "frontWait"
        /\ \A u \in Threads :
              \/ u = t /\ call'[u] = "none"
              \/ u = Consumer /\ call'[u] = "frontWoken"
              \/ u # t /\ call'[u] = call[u]
    BY <1>4, <2>1 DEF PushInsert, SignalAndReturn
  <2>3. /\ queue' = Append(queue, item[t])
        /\ accepted' = Append(accepted, item[t])
        /\ UNCHANGED removed
    BY <1>4 DEF PushInsert
  <2>4. InsertIsSafe' /\ OneConsumer'
    BY <2>1, <2>2
  <2>5. WithinCapacity'
    <3>1. Len(queue') = Len(queue) + 1 /\ Len(queue) \in Nat
      BY <2>1, <2>3, AppendProperties, LenProperties
    <3>. QED BY <2>1, <3>1
  <2>6. Fifo'
    <3>1. Append(accepted, item[t]) = removed \o Append(queue, item[t])
      BY <2>1, FifoPush
    <3>. QED BY <2>3, <3>1
  <2>. QED BY <1>1, <2>2, <2>4, <2>5, <2>6
<1>5. CASE PushWaitError(t) BY <1>1, <1>5 DEF PushWaitError, Holding
<1>6. CASE PopEmpty(t) BY <1>1, <1>6 DEF PopEmpty, Holding
<1>7. CASE PopHead(t)
  <2>1. Len(Tail(queue)) = Len(queue) - 1 /\ Len(queue) \in Nat
    BY <1>7, HeadTailProperties DEF PopHead
  <2>2. /\ queue' = Tail(queue) /\ mutex = Free
        /\ call' = [call EXCEPT ![t] = "none"]
        /\ UNCHANGED <<mutex, item, accepted>>
    BY <1>7 DEF PopHead, Holding
  <2>3. InsertIsSafe' /\ OneConsumer' /\ WithinCapacity' /\ NoForgottenConsumer'
    BY <1>7, <2>1, <2>2 DEF PopHead, Holding
  <2>4. Fifo'
    BY <1>7, MoveHead DEF PopHead
  <2>. QED BY <1>1, <2>3, <2>4
<1>8. CASE FrontEmpty(t) BY <1>1, <1>8 DEF FrontEmpty, Holding
<1>9. CASE FrontHead(t)
  <2>1. /\ mutex = Free /\ UNCHANGED <<queue, mutex, accepted, removed>>
        /\ \A u \in Threads :
              \/ call'[u] = call[u]
              \/ call[u] = "pushWait" /\ call'[u] = "pushEnter"
              \/ u = t /\ call'[u] = "none"
    BY <1>9, SignalType DEF FrontHead, Holding
  <2>. QED BY <1>1, <2>1
<1>10. CASE FrontWaitError(t) BY <1>1, <1>10 DEF FrontWaitError, Holding
<1>11. CASE SpuriousWakeup(t) BY <1>1, <1>11 DEF SpuriousWakeup
<1>. QED
  BY <1>2, <1>3, <1>4, <1>5, <1>6, <1>7, <1>8, <1>9, <1>10, <1>11 DEF CallStep

LEMMA ClientsNext == IInv /\ [Next]_queueVars => IInv'
<1> SUFFICES ASSUME IInv, [Next]_queueVars PROVE IInv'
  OBVIOUS
<1>1. CASE UNCHANGED queueVars
  BY <1>1
  DEF queueVars, IInv, QueueTypeInv, QueueTypeOK, PushHasMessage, InsertIsSafe,
      OneConsumer, Fifo, WithinCapacity, NoForgottenConsumer
<1>2. ASSUME NEW t \in Threads,
             \/ t = Consumer /\ (Pop(t) \/ Front(t))
             \/ \E m \in Messages : t \in Producers /\ Push(t, m)
      PROVE  IInv'
  <2>1. QueueTypeInv'
    BY <1>2, BeginType DEF IInv
  <2>2. /\ call[t] = "none" /\ UNCHANGED <<queue, mutex, accepted, removed>>
        /\ \/ t = Consumer /\ call' = [call EXCEPT ![t] = "popEnter"]
           \/ t = Consumer /\ call' = [call EXCEPT ![t] = "frontEnter"]
           \/ call' = [call EXCEPT ![t] = "pushEnter"]
    BY <1>2 DEF Pop, Front, Push, Begin
  <2>. QED
    BY <2>1, <2>2, ClientsAssumption
    DEF IInv, QueueTypeInv, QueueTypeOK, InsertIsSafe, OneConsumer, Producers,
        PushStates, Fifo, WithinCapacity, NoForgottenConsumer
<1>3. ASSUME NEW t \in Threads, CallStep(t) \/ SpuriousWakeup(t)
      PROVE  IInv'
  BY <1>3, ClientsCallStep
<1>. QED
  BY <1>1, <1>2, <1>3, ClientsAssumption DEF Next, Producers

THEOREM Invariance == Spec => []IInv
BY ClientsInit, ClientsNext, PTL DEF Spec

\* First in, first out, whatever the schedule.
THEOREM FifoAlways == Spec => []Fifo
<1>1. IInv => Fifo
  BY DEF IInv
<1>. QED BY Invariance, <1>1, PTL

\* A woken Push that re-tests the size never exceeds m_nSize.
THEOREM CapacityKept == Spec => []WithinCapacity
<1>1. IInv => WithinCapacity
  BY DEF IInv
<1>. QED BY Invariance, <1>1, PTL

\* No message is ever in the queue while the consumer sleeps unsignalled.
THEOREM ConsumerNotForgotten == Spec => []NoForgottenConsumer
<1>1. IInv => NoForgottenConsumer
  BY DEF IInv
<1>. QED BY Invariance, <1>1, PTL

\* No schedule puts a null pointer into the queue or an impossible value into
\* the mutex, also when a wait fails or a Pop finds nothing.
THEOREM QueueTyped == Spec => []QueueTypeOK
<1>1. IInv => QueueTypeOK
  BY DEF IInv, QueueTypeInv
<1>. QED BY Invariance, <1>1, PTL
=============================================================================
