----------------------------- MODULE MutexQueue -----------------------------
(***************************************************************************)
(* The template class MutexQueue<T> (daemon/include/MutexQueue.h): a       *)
(* bounded FIFO of message pointers shared by the threads of the daemon.   *)
(* A definition marked "Slip" is no part of the model: it is the mistake   *)
(* that one of the properties is there to catch.                           *)
(*                                                                         *)
(* A call takes as many steps as another thread can tell apart.  Taking    *)
(* the mutex, testing the size and going to sleep are one step, because    *)
(* nothing can happen in between; so are the end of a critical section,    *)
(* its signal and its unlock, because whoever is signalled needs the       *)
(* mutex first.  The insertion is apart from the test before it: Size()    *)
(* reads the deque without the mutex and can meet it half changed.         *)
(***************************************************************************)
EXTENDS Naturals, Sequences

CONSTANTS
    Threads,       \* the threads that call the queue
    Messages,      \* the messages (pointers) pushed
    Capacity,      \* m_nSize
    NULL,          \* the null pointer
    Free,          \* value of the mutex nobody holds
    Stale,         \* value of a mutex word that says "held", by nobody
    InitialLocks,  \* what the never-initialised m_mutexLock may hold at first
    WaitErrors     \* whether pthread_cond_wait may return an error

ASSUME QueueAssumption ==
    /\ Capacity \in Nat \ {0}
    /\ NULL \notin Messages
    /\ Free \notin Threads
    /\ Stale \notin Threads \cup {Free}
    /\ InitialLocks \subseteq {Free, Stale}
    /\ WaitErrors \in BOOLEAN

VARIABLES
    queue,     \* *m_qInnerQueue
    mutex,     \* m_mutexLock: the holder, Free or Stale
    call,      \* per thread: where it is in the call it is making
    item,      \* per thread: the argument of Push, then the result of Front
    accepted,  \* history: every message inserted, in order
    removed    \* history: every message popped, in order

queueVars == <<queue, mutex, call, item, accepted, removed>>

(***************************************************************************)
(* "pushWait" is a thread asleep on m_condFull and "frontWait" one asleep  *)
(* on m_condEmpty; a thread signalled there goes back to "pushEnter"       *)
(* (Push re-tests the size) or to "frontWoken" (Front does not).           *)
(***************************************************************************)
CallStates == {"none", "pushEnter", "pushWait", "pushInsert", "popEnter",
               "frontEnter", "frontWait", "frontWoken"}

QueueTypeOK ==
    /\ queue \in Seq(Messages)
    /\ mutex \in Threads \cup {Free, Stale}
    /\ call \in [Threads -> CallStates]
    /\ item \in [Threads -> Messages \cup {NULL}]
    /\ accepted \in Seq(Messages)
    /\ removed \in Seq(Messages)

\* The constructor allocates the inner queue and nothing else: the mutex
\* keeps whatever the heap block held.
QueueInit ==
    /\ queue = <<>>
    /\ mutex \in InitialLocks
    /\ call = [t \in Threads |-> "none"]
    /\ item = [t \in Threads |-> NULL]
    /\ accepted = <<>>
    /\ removed = <<>>

-----------------------------------------------------------------------------
(* Steps shared by the calls. *)

Begin(t, entry) ==
    /\ call[t] = "none"
    /\ call' = [call EXCEPT ![t] = entry]
    /\ UNCHANGED <<queue, mutex, accepted, removed>>

Holding(t, state) == call[t] = state /\ mutex = Free

\* pthread_cond_signal by t as it leaves its critical section: one of the
\* threads asleep in state waiting, if there is one, goes on in state woken.
SignalAndReturn(t, waiting, woken) ==
    LET asleep == {w \in Threads : call[w] = waiting}
    IN \/ /\ asleep = {}
          /\ call' = [call EXCEPT ![t] = "none"]
       \/ \E w \in asleep :
             call' = [call EXCEPT ![t] = "none", ![w] = woken]

-----------------------------------------------------------------------------
(* Push *)

Push(t, m) ==
    /\ Begin(t, "pushEnter")
    /\ item' = [item EXCEPT ![t] = m]

\* Slip: the queue counts as full one message too early.
PushFullEarly(t) ==
    /\ Holding(t, "pushEnter")
    /\ Len(queue) + 1 >= Capacity
    /\ call' = [call EXCEPT ![t] = "pushWait"]
    /\ UNCHANGED <<queue, mutex, item, accepted, removed>>

PushFull(t) ==
    /\ Holding(t, "pushEnter")
    /\ Len(queue) = Capacity
    /\ call' = [call EXCEPT ![t] = "pushWait"]
    /\ UNCHANGED <<queue, mutex, item, accepted, removed>>

\* Slip: the size is not tested again after the wait.
PushRoomUntested(t) ==
    /\ Holding(t, "pushEnter")
    /\ mutex' = t
    /\ call' = [call EXCEPT ![t] = "pushInsert"]
    /\ UNCHANGED <<queue, item, accepted, removed>>

PushRoom(t) ==
    /\ Holding(t, "pushEnter")
    /\ Len(queue) # Capacity
    /\ mutex' = t
    /\ call' = [call EXCEPT ![t] = "pushInsert"]
    /\ UNCHANGED <<queue, item, accepted, removed>>

\* Slip: Push ends without its signal.
PushInsertSilent(t) ==
    /\ call[t] = "pushInsert"
    /\ queue' = Append(queue, item[t])
    /\ accepted' = Append(accepted, item[t])
    /\ call' = [call EXCEPT ![t] = "none"]
    /\ mutex' = Free
    /\ item' = [item EXCEPT ![t] = NULL]
    /\ UNCHANGED removed

PushInsert(t) ==
    /\ call[t] = "pushInsert"
    /\ queue' = Append(queue, item[t])
    /\ accepted' = Append(accepted, item[t])
    /\ SignalAndReturn(t, "frontWait", "frontWoken")
    /\ mutex' = Free
    /\ item' = [item EXCEPT ![t] = NULL]
    /\ UNCHANGED removed

\* Slip: after the error the insertion goes on, without a message.
PushWaitErrorGoesOn(t) ==
    /\ WaitErrors
    /\ Holding(t, "pushWait")
    /\ call' = [call EXCEPT ![t] = "pushInsert"]
    /\ mutex' = t
    /\ item' = [item EXCEPT ![t] = NULL]
    /\ UNCHANGED <<queue, accepted, removed>>

\* The error return of the wait: the message is dropped without a word.
PushWaitError(t) ==
    /\ WaitErrors
    /\ Holding(t, "pushWait")
    /\ call' = [call EXCEPT ![t] = "none"]
    /\ item' = [item EXCEPT ![t] = NULL]
    /\ UNCHANGED <<queue, mutex, accepted, removed>>

-----------------------------------------------------------------------------
(* Pop *)

Pop(t) ==
    /\ Begin(t, "popEnter")
    /\ UNCHANGED item

\* "empty queue cannot pop": the early return leaves the mutex locked.
PopEmpty(t) ==
    /\ Holding(t, "popEnter")
    /\ queue = <<>>
    /\ mutex' = t
    /\ call' = [call EXCEPT ![t] = "none"]
    /\ UNCHANGED <<queue, item, accepted, removed>>

\* Slip: the newest message goes, as from a stack.
PopNewest(t) ==
    /\ Holding(t, "popEnter")
    /\ queue # <<>>
    /\ removed' = Append(removed, queue[Len(queue)])
    /\ queue' = SubSeq(queue, 1, Len(queue) - 1)
    /\ call' = [call EXCEPT ![t] = "none"]
    /\ UNCHANGED <<mutex, item, accepted>>

\* Nobody is signalled, although room has just been made.
PopHead(t) ==
    /\ Holding(t, "popEnter")
    /\ queue # <<>>
    /\ removed' = Append(removed, Head(queue))
    /\ queue' = Tail(queue)
    /\ call' = [call EXCEPT ![t] = "none"]
    /\ UNCHANGED <<mutex, item, accepted>>

-----------------------------------------------------------------------------
(* Front *)

Front(t) ==
    /\ Begin(t, "frontEnter")
    /\ UNCHANGED item

FrontEmpty(t) ==
    /\ Holding(t, "frontEnter")
    /\ queue = <<>>
    /\ call' = [call EXCEPT ![t] = "frontWait"]
    /\ UNCHANGED <<queue, mutex, item, accepted, removed>>

\* What front() may yield: of an empty deque, any pointer at all.
FrontResults == IF queue = <<>> THEN Messages \cup {NULL} ELSE {Head(queue)}

\* Slip: Front ends without its signal.
FrontHeadSilent(t) ==
    /\ \/ Holding(t, "frontEnter") /\ queue # <<>>
       \/ Holding(t, "frontWoken")
    /\ \E m \in FrontResults : item' = [item EXCEPT ![t] = m]
    /\ call' = [call EXCEPT ![t] = "none"]
    /\ UNCHANGED <<queue, mutex, accepted, removed>>

\* A thread woken from its wait does not look at the size again.
FrontHead(t) ==
    /\ \/ Holding(t, "frontEnter") /\ queue # <<>>
       \/ Holding(t, "frontWoken")
    /\ \E m \in FrontResults : item' = [item EXCEPT ![t] = m]
    /\ SignalAndReturn(t, "pushWait", "pushEnter")
    /\ UNCHANGED <<queue, mutex, accepted, removed>>

FrontWaitError(t) ==
    /\ WaitErrors
    /\ Holding(t, "frontWait")
    /\ call' = [call EXCEPT ![t] = "none"]
    /\ item' = [item EXCEPT ![t] = NULL]
    /\ UNCHANGED <<queue, mutex, accepted, removed>>

-----------------------------------------------------------------------------
\* Size() > 0, read without the mutex: while an insertion is under way the
\* two ends of the deque do not belong together and either answer comes out.
SizePositive ==
    IF \E t \in Threads : call[t] = "pushInsert" THEN BOOLEAN
    ELSE {queue # <<>>}

\* Slip: whoever is awake inserts.
WakeupInserts(t) ==
    /\ call[t] = "pushWait"
    /\ mutex = Free
    /\ queue' = Append(queue, item[t])
    /\ accepted' = Append(accepted, item[t])
    /\ call' = [call EXCEPT ![t] = "none"]
    /\ item' = [item EXCEPT ![t] = NULL]
    /\ UNCHANGED <<mutex, removed>>

\* pthread_cond_wait may return without a signal.
SpuriousWakeup(t) ==
    /\ \/ call[t] = "pushWait" /\ call' = [call EXCEPT ![t] = "pushEnter"]
       \/ call[t] = "frontWait" /\ call' = [call EXCEPT ![t] = "frontWoken"]
    /\ UNCHANGED <<queue, mutex, item, accepted, removed>>

\* The steps of a call in progress, whoever made it and why.
CallStep(t) ==
    \/ PushFull(t) \/ PushRoom(t) \/ PushInsert(t) \/ PushWaitError(t)
    \/ PopEmpty(t) \/ PopHead(t)
    \/ FrontEmpty(t) \/ FrontHead(t) \/ FrontWaitError(t)
=============================================================================
