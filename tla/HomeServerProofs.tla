-------------------------- MODULE HomeServerProofs ---------------------------
(***************************************************************************)
(* Type correctness, in-order delivery and the refinement of Outbox, for   *)
(* any number of messages and connections and any Capacity >= 2.           *)
(***************************************************************************)
EXTENDS HomeServer, MutexQueueProofs, FiniteSetTheorems

-----------------------------------------------------------------------------
(* The inductive invariant *)

WithinCapacity == Len(queue) <= Capacity

\* Only the server calls Front and Pop.
OneConsumer ==
    \A t \in Threads \ {Server} : call[t] \in PushStates \cup {"none"}

\* What the server's call says about where its loop is ...
ServerCalls ==
    /\ call[Server] \in PushStates \cup {"none", "popEnter", "frontEnter"}
    /\ call[Server] = "frontEnter" => server = "send"
    /\ server = "send" => call[Server] \in {"none", "frontEnter"}

\* ... and about the queue.  Size() > 0 is also said of an empty queue, but
\* then an insertion is under way and Front will have to wait for it.
ServerFinds ==
    /\ call[Server] = "popEnter" => queue # <<>>
    /\ call[Server] = "frontEnter" =>
          \/ queue # <<>>
          \/ \E t \in Threads : call[t] = "pushInsert"
    /\ server = "send" /\ Idle(Server) =>
          queue # <<>> /\ item[Server] = Head(queue)

\* Main starts the server once, after its own messages.
StartedByMain == main = "notify" => server = "off"

IInv ==
    /\ TypeOK
    /\ PushHasMessage
    /\ StartedByMain
    /\ InsertIsSafe
    /\ WithinCapacity
    /\ OneConsumer
    /\ ServerCalls
    /\ ServerFinds
    /\ InOrder
-----------------------------------------------------------------------------
(* Type correctness *)

TypeInv == TypeOK /\ PushHasMessage

LEMMA StartMessagesType == StartMessages \subseteq Seq(Messages)
BY HomeAssumption, SMT DEF StartMessages

LEMMA TypeInit == Init => TypeInv
<1> SUFFICES ASSUME Init PROVE TypeInv
  OBVIOUS
<1>1. QueueTypeOK
  <2>1. <<>> \in Seq(Messages)
    OBVIOUS
  <2>2. mutex \in Threads \cup {Free, Stale}
    BY QueueAssumption DEF Init, QueueInit
  <2>. QED BY <2>1, <2>2 DEF Init, QueueInit, QueueTypeOK, CallStates
<1>2. PushHasMessage
  BY DEF Init, QueueInit, PushHasMessage, PushStates
<1>3. alive \in BOOLEAN /\ checking \in BOOLEAN /\ first \in BOOLEAN
  BY Zenon DEF Init
<1>4. todo \in Seq(Messages) /\ sent \in Seq(Messages)
  BY StartMessagesType DEF Init
<1>5. /\ main \in {"notify", "checker", "loop"}
      /\ server \in ServerStates
      /\ home \in {"none", "up", "down"}
      /\ backlog \in Nat /\ connects \in Nat /\ greeted \in Nat
  BY DEF Init, ServerStates
<1>. QED
  BY <1>1, <1>2, <1>3, <1>4, <1>5 DEF TypeInv, TypeOK

LEMMA TypeStep == TypeInv /\ [Next]_vars => TypeInv'
<1> SUFFICES ASSUME TypeInv, [Next]_vars PROVE TypeInv'
  OBVIOUS
<1> USE DEF TypeInv, TypeOK, ServerStates
<1>0. QueueTypeInv
  BY DEF QueueTypeInv
<1>a. ASSUME UNCHANGED queueVars PROVE QueueTypeInv'
  BY <1>0, <1>a
  DEF queueVars, QueueTypeInv, QueueTypeOK, PushHasMessage, PushStates
<1>1. CASE MainNotify
  <2>1. Head(todo) \in Messages /\ Tail(todo) \in Seq(Messages)
    BY <1>1, HeadTailProperties DEF MainNotify
  <2>2. QueueTypeInv'
    BY <1>0, <1>1, <2>1, BeginType, HomeAssumption DEF MainNotify
  <2>. QED BY <1>1, <2>1, <2>2 DEF MainNotify, serverVars, QueueTypeInv
<1>2. CASE StartServer
  BY <1>2, <1>a DEF StartServer, QueueTypeInv
<1>3. CASE StartChecker
  BY <1>3, <1>a DEF StartChecker, serverVars, QueueTypeInv
<1>4. ASSUME NEW m \in CheckerMessages, CheckerNotify(m) PROVE TypeInv'
  BY <1>0, <1>4, BeginType, HomeAssumption
  DEF CheckerNotify, CheckerMessages, mainVars, serverVars, QueueTypeInv
<1>5. CASE Connect
  BY <1>5, <1>a DEF Connect, mainVars, QueueTypeInv
<1>6. CASE HomeLeaves
  BY <1>6, <1>a DEF HomeLeaves, mainVars, QueueTypeInv
<1>7. CASE Setup
  BY <1>7, <1>a DEF Setup, mainVars, QueueTypeInv
<1>8. CASE SelectIdle
  BY <1>8, <1>a DEF SelectIdle, AfterSelect, mainVars, QueueTypeInv
<1>9. CASE Accept
  BY <1>9, <1>a DEF Accept, mainVars, QueueTypeInv
<1>10. CASE AcceptFails
  BY <1>10, <1>a DEF AcceptFails, AfterSelect, mainVars, QueueTypeInv
<1>11. CASE HandshakeOk
  <2>1. QueueTypeInv'
    BY <1>0, <1>a, <1>11, BeginType, HomeAssumption DEF HandshakeOk
  <2>2. first' \in BOOLEAN
    BY <1>11, Zenon DEF HandshakeOk
  <2>3. server' \in ServerStates /\ greeted' \in Nat
    BY <1>11 DEF HandshakeOk
  <2>4. UNCHANGED <<alive, main, todo, checking, home, backlog, connects, sent>>
    BY <1>11 DEF HandshakeOk, mainVars
  <2>. QED BY <2>1, <2>2, <2>3, <2>4 DEF QueueTypeInv
<1>12. CASE HandshakeBad
  BY <1>12, <1>a DEF HandshakeBad, mainVars, QueueTypeInv
<1>13. CASE Drain
  <2>1. QueueTypeInv'
    BY <1>0, <1>a, <1>13, BeginType, HomeAssumption DEF Drain
  <2>. QED BY <1>13, <2>1 DEF Drain, mainVars, QueueTypeInv
<1>14. CASE SendOk
  <2>1. QueueTypeInv'
    BY <1>0, <1>14, BeginType, HomeAssumption DEF SendOk
  <2>2. item[Server] \in Messages
    BY <1>14, HomeAssumption DEF SendOk, Sending, QueueTypeOK
  <2>. QED BY <1>14, <2>1, <2>2 DEF SendOk, mainVars, QueueTypeInv
<1>15. CASE SendFails
  BY <1>15, <1>a DEF SendFails, mainVars, QueueTypeInv
<1>16. CASE SendKills
  BY <1>16, <1>a DEF SendKills, serverVars, QueueTypeInv
<1>17. ASSUME NEW t \in Threads, QueueStep(t) PROVE TypeInv'
  BY <1>0, <1>17, CallStepType DEF QueueStep, mainVars, serverVars, QueueTypeInv
<1>18. CASE UNCHANGED vars
  BY <1>18, <1>a DEF vars, mainVars, serverVars, QueueTypeInv
<1>. QED
  BY <1>1, <1>2, <1>3, <1>4, <1>5, <1>6, <1>7, <1>8, <1>9, <1>10, <1>11, <1>12,
     <1>13, <1>14, <1>15, <1>16, <1>17, <1>18
  DEF Next, MainStep, ServerStep

\* Every variable keeps its type: no null pointer enters the queue, no unread
\* handshake makes the backlog negative.
THEOREM TypeCorrect == Spec => []TypeOK
<1>1. TypeInv => TypeOK
  BY DEF TypeInv
<1>. QED BY <1>1, TypeInit, TypeStep, PTL DEF Spec

-----------------------------------------------------------------------------
(* In-order delivery *)

LEMMA PostInOrder ==
    ASSUME sent \in Seq(Messages), Outstanding \in Seq(Messages), InOrder,
           NEW m \in Messages
    PROVE  Append(accepted, m) = sent \o Append(Outstanding, m)
<1>1. Append(sent \o Outstanding, m) = sent \o Append(Outstanding, m)
  BY AppendConcat
<1>. QED BY <1>1 DEF InOrder

Delivery ==
    /\ InsertIsSafe
    /\ WithinCapacity
    /\ OneConsumer
    /\ ServerCalls
    /\ ServerFinds
    /\ InOrder

LEMMA DeliveryInit == Init => Delivery
<1> SUFFICES ASSUME Init PROVE Delivery
  OBVIOUS
<1>1. InOrder
  BY HomeAssumption DEF Init, QueueInit, InOrder, Outstanding
<1>2. WithinCapacity
  BY QueueAssumption DEF Init, QueueInit, WithinCapacity
<1>. QED
  BY <1>1, <1>2, HomeAssumption
  DEF Init, QueueInit, Delivery, InsertIsSafe, OneConsumer, ServerCalls,
      ServerFinds, Idle

\* A step of a call in progress.
LEMMA DeliveryCallStep ==
    ASSUME TypeInv, TypeInv', Delivery, NEW t \in Threads,
           CallStep(t) \/ SpuriousWakeup(t), UNCHANGED <<server, sent>>
    PROVE  Delivery'
<1> USE HomeAssumption, QueueAssumption
    DEF TypeInv, TypeOK, QueueTypeOK, CallStates, PushStates, Delivery,
        InsertIsSafe, WithinCapacity, OneConsumer, ServerCalls, ServerFinds,
        InOrder, Outstanding, Idle
<1>1. CASE PushFull(t) BY <1>1 DEF PushFull, Holding
<1>2. CASE PushRoom(t)
  <2>1. /\ call[t] = "pushEnter" /\ mutex = Free /\ Len(queue) < Capacity
        /\ mutex' = t /\ call' = [call EXCEPT ![t] = "pushInsert"]
        /\ UNCHANGED <<queue, item, accepted>>
    <3>1. Len(queue) \in Nat
      BY LenProperties
    <3>. QED BY <1>2, <3>1 DEF PushRoom, Holding
  <2>2. InsertIsSafe'
    BY <2>1
  <2>3. OneConsumer' /\ ServerCalls' /\ WithinCapacity'
    BY <2>1
  <2>4. ServerFinds'
    BY <2>1
  <2>5. InOrder'
    BY <2>1
  <2>. QED BY <2>2, <2>3, <2>4, <2>5
<1>3. CASE PushInsert(t)
  <2>1. /\ call[t] = "pushInsert" /\ mutex = t /\ Len(queue) < Capacity
        /\ \A u \in Threads \ {t} : call[u] # "pushInsert"
        /\ item[t] \in Messages
    BY <1>3 DEF PushInsert, PushHasMessage
  <2>2. call' = [call EXCEPT ![t] = "none"]
    <3>1. {w \in Threads : call[w] = "frontWait"} = {}
      OBVIOUS
    <3>. QED BY <1>3, <3>1 DEF PushInsert, SignalAndReturn
  <2>3. /\ queue' = Append(queue, item[t])
        /\ accepted' = Append(accepted, item[t])
        /\ item' = [item EXCEPT ![t] = NULL]
        /\ mutex' = Free
    BY <1>3 DEF PushInsert
  <2>4. InsertIsSafe' /\ OneConsumer' /\ ServerCalls' /\ WithinCapacity'
    <3>1. Len(queue') = Len(queue) + 1 /\ Len(queue) \in Nat
      BY <2>1, <2>3, AppendProperties, LenProperties
    <3>2. InsertIsSafe'
      BY <2>1, <2>2
    <3>3. OneConsumer' /\ ServerCalls'
      BY <2>1, <2>2
    <3>4. WithinCapacity'
      BY <2>1, <3>1
    <3>. QED BY <3>2, <3>3, <3>4
  <2>5. ServerFinds'
    <3>1. queue \in Seq(Messages)
      OBVIOUS
    <3>2. queue' # <<>>
      BY <2>1, <2>3, <3>1, AppendProperties, SMTT(60)
    <3>3. queue # <<>> => Head(queue') = Head(queue)
      BY <2>1, <2>3, <3>1, AppendBehindHead
    <3>. QED BY <2>1, <2>2, <2>3, <3>2, <3>3
  <2>6. InOrder'
    <3>1. Outstanding' = Append(Outstanding, item[t])
      <4>1. CASE call[Server] = "popEnter"
        <5>1. queue # <<>> /\ call'[Server] = "popEnter"
          BY <4>1, <2>1, <2>2
        <5>2. Tail(queue') = Append(Tail(queue), item[t])
          BY <5>1, <2>1, <2>3, AppendBehindHead
        <5>. QED BY <4>1, <5>1, <5>2
      <4>2. CASE call[Server] # "popEnter"
        BY <4>2, <2>2, <2>3
      <4>. QED BY <4>1, <4>2
    <3>2. Outstanding \in Seq(Messages) /\ sent \in Seq(Messages)
      BY HeadTailProperties
    <3>3. accepted = sent \o Outstanding /\ sent' = sent
      OBVIOUS
    <3>4. item[t] \in Messages
      BY <2>1
    <3>. HIDE DEF Outstanding, TypeInv, TypeOK, Delivery, InOrder
    <3>5. Append(accepted, item[t]) = sent \o Append(Outstanding, item[t])
      BY <3>2, <3>3, <3>4, PostInOrder DEF InOrder
    <3>. QED BY <2>3, <3>1, <3>3, <3>5 DEF InOrder
  <2>. QED BY <2>4, <2>5, <2>6
<1>4. CASE PushWaitError(t) BY <1>4 DEF PushWaitError, Holding
<1>5. CASE PopEmpty(t) BY <1>5 DEF PopEmpty, Holding
<1>6. CASE PopHead(t)
  <2>1. /\ t = Server /\ call[t] = "popEnter" /\ mutex = Free
        /\ queue' = Tail(queue) /\ call' = [call EXCEPT ![t] = "none"]
        /\ UNCHANGED <<mutex, item, accepted>>
    BY <1>6 DEF PopHead, Holding
  <2>2. Len(Tail(queue)) = Len(queue) - 1 /\ Len(queue) \in Nat
    BY <1>6, HeadTailProperties DEF PopHead
  <2>3. InsertIsSafe' /\ OneConsumer' /\ ServerCalls' /\ WithinCapacity'
    BY <2>1, <2>2
  <2>4. ServerFinds'
    BY <2>1
  <2>5. InOrder'
    BY <2>1
  <2>. QED BY <2>3, <2>4, <2>5
<1>7. CASE FrontEmpty(t) BY <1>7 DEF FrontEmpty, Holding
<1>8. CASE FrontHead(t)
  <2>1. /\ t = Server /\ call[t] = "frontEnter" /\ mutex = Free
        /\ queue # <<>> /\ server = "send"
        /\ UNCHANGED <<queue, mutex, accepted>>
    BY <1>8 DEF FrontHead, Holding
  <2>2. item' = [item EXCEPT ![t] = Head(queue)]
    BY <1>8, <2>1 DEF FrontHead, FrontResults
  <2>3. /\ call'[t] = "none"
        /\ \A u \in Threads \ {t} :
              \/ call'[u] = call[u]
              \/ call[u] = "pushWait" /\ call'[u] = "pushEnter"
    BY <1>8, <2>1 DEF FrontHead, SignalAndReturn
  <2>4. InsertIsSafe' /\ OneConsumer' /\ ServerCalls' /\ WithinCapacity'
    BY <2>1, <2>3
  <2>5. ServerFinds'
    BY <2>1, <2>2, <2>3
  <2>6. InOrder'
    BY <2>1, <2>3
  <2>. QED BY <2>4, <2>5, <2>6
<1>9. CASE FrontWaitError(t) BY <1>9 DEF FrontWaitError, Holding
<1>10. CASE SpuriousWakeup(t) BY <1>10, ZenonT(60) DEF SpuriousWakeup
<1>. QED
  BY <1>1, <1>2, <1>3, <1>4, <1>5, <1>6, <1>7, <1>8, <1>9, <1>10 DEF CallStep

LEMMA StartedStep == StartedByMain /\ [Next]_vars => StartedByMain'
BY DEF StartedByMain, Next, vars, MainStep, MainNotify, StartServer,
       StartChecker, CheckerNotify, Connect, HomeLeaves, ServerStep, Setup,
       SelectIdle, Accept, AcceptFails, HandshakeOk, HandshakeBad, Drain,
       Sending, SendOk, SendFails, SendKills, QueueStep, mainVars, serverVars

LEMMA DeliveryStep ==
    /\ TypeInv /\ TypeInv' /\ StartedByMain /\ Delivery
    /\ [Next]_vars
    => Delivery'
<1> SUFFICES ASSUME TypeInv, TypeInv', StartedByMain, Delivery, [Next]_vars
             PROVE  Delivery'
  OBVIOUS
<1> USE HomeAssumption, QueueAssumption
    DEF TypeInv, TypeOK, QueueTypeOK, CallStates, PushStates, Delivery,
        InsertIsSafe, WithinCapacity, OneConsumer, ServerCalls, ServerFinds,
        InOrder, Outstanding, Idle, ServerStates
\* Steps that leave the queue alone and do not enter or leave "send" while a
\* call of Front is under way.
<1>a. ASSUME UNCHANGED <<queueVars, sent>>,
             \/ UNCHANGED server
             \/ server' # "send" /\ call[Server] # "frontEnter"
      PROVE  Delivery'
  BY <1>a DEF queueVars
\* A Push begun by another thread than the server.
<1>b. ASSUME NEW t \in Threads \ {Server}, NEW m \in Messages, Push(t, m),
             UNCHANGED <<server, sent>>
      PROVE  Delivery'
  BY <1>b DEF Push, Begin
<1>1. CASE MainNotify
  <2>1. Head(todo) \in Messages
    BY <1>1, HeadTailProperties DEF MainNotify
  <2>. QED BY <1>1, <1>b, <2>1 DEF MainNotify, serverVars
<1>2. CASE StartServer
  <2>1. UNCHANGED <<queueVars, sent>>
    BY <1>2 DEF StartServer
  <2>2. CASE UNCHANGED server
    BY <2>1, <2>2, <1>a
  <2>3. CASE server' = "setup"
    BY <2>1, <2>3, <1>2, <1>a DEF StartServer, StartedByMain
  <2>. QED BY <1>2, <2>2, <2>3 DEF StartServer
<1>3. CASE StartChecker
  BY <1>3, <1>a DEF StartChecker, serverVars
<1>4. ASSUME NEW m \in CheckerMessages, CheckerNotify(m) PROVE Delivery'
  BY <1>4, <1>b DEF CheckerNotify, CheckerMessages, serverVars
<1>5. CASE Connect BY <1>5, <1>a DEF Connect
<1>6. CASE HomeLeaves BY <1>6, <1>a DEF HomeLeaves
<1>7. CASE Setup BY <1>7, <1>a DEF Setup
<1>8. CASE SelectIdle BY <1>8, <1>a DEF SelectIdle, AfterSelect
<1>9. CASE Accept BY <1>9, <1>a DEF Accept
<1>10. CASE AcceptFails BY <1>10, <1>a DEF AcceptFails, AfterSelect
<1>11. CASE HandshakeOk
  <2>1. CASE first
    BY <1>11, <2>1, <1>a DEF HandshakeOk
  <2>2. CASE Push(Server, Status)
    BY <1>11, <2>2 DEF HandshakeOk, Push, Begin
  <2>. QED BY <1>11, <2>1, <2>2 DEF HandshakeOk
<1>12. CASE HandshakeBad BY <1>12, <1>a DEF HandshakeBad
<1>13. CASE Drain
  <2>1. CASE UNCHANGED queueVars /\ server' = "select"
    BY <1>13, <2>1, <1>a DEF Drain
  <2>2. CASE Front(Server) /\ server' = "send" /\ TRUE \in SizePositive
    BY <1>13, <2>2 DEF Drain, Front, Begin, SizePositive
  <2>. QED BY <1>13, <2>1, <2>2 DEF Drain
<1>14. CASE SendOk
  <2>1. /\ server = "send" /\ call[Server] = "none"
        /\ queue # <<>> /\ item[Server] = Head(queue)
        /\ sent' = Append(sent, Head(queue)) /\ server' = "drain"
        /\ call' = [call EXCEPT ![Server] = "popEnter"]
        /\ UNCHANGED <<queue, mutex, accepted, item>>
    BY <1>14 DEF SendOk, Sending, Pop, Begin
  <2>2. sent \o queue = Append(sent, Head(queue)) \o Tail(queue)
    BY <2>1, MoveHead
  <2>3. InOrder'
    BY <2>1, <2>2
  <2>. QED BY <2>1, <2>3
<1>15. CASE SendFails BY <1>15, <1>a DEF SendFails, Sending
<1>16. CASE SendKills BY <1>16, <1>a DEF SendKills, serverVars
<1>17. ASSUME NEW t \in Threads, QueueStep(t) PROVE Delivery'
  BY <1>17, DeliveryCallStep DEF QueueStep, serverVars
<1>18. CASE UNCHANGED vars
  BY <1>18, <1>a DEF vars, serverVars
<1>. QED
  BY <1>1, <1>2, <1>3, <1>4, <1>5, <1>6, <1>7, <1>8, <1>9, <1>10, <1>11, <1>12,
     <1>13, <1>14, <1>15, <1>16, <1>17, <1>18
  DEF Next, MainStep, ServerStep

\* The inductive invariant, of which the properties below are consequences.
THEOREM Invariance == Spec => []IInv
<1>1. IInv <=> TypeInv /\ StartedByMain /\ Delivery
  BY DEF IInv, TypeInv, Delivery
<1>2. Init => StartedByMain
  BY DEF Init, StartedByMain
<1>. QED
  BY <1>1, <1>2, TypeInit, TypeStep, StartedStep, DeliveryInit, DeliveryStep,
     PTL DEF Spec

\* Across failed sends, reconnections and pushes between a send and its Pop,
\* the messages handed to the kernel are those accepted, in order, but for
\* those still outstanding.
THEOREM DeliveredInOrder == Spec => []InOrder
<1>1. IInv => InOrder
  BY DEF IInv
<1>. QED BY <1>1, Invariance, PTL

\* The unsynchronised Size() never leads the server into a Front that sleeps
\* nor into the Pop of an empty queue, which would keep the mutex.
THEOREM NeverMisled == Spec => []ServerNeverMisled
<1>1. IInv => ServerNeverMisled
  BY DEF IInv, ServerCalls, ServerFinds, ServerNeverMisled, PushStates
<1>. QED BY <1>1, Invariance, PTL

-----------------------------------------------------------------------------
(* The refinement of Outbox *)

\* A message is posted by the end of PushInsert and delivered by SendOk; every
\* other step leaves the outbox alone.
LEMMA OutboxStep ==
    IInv /\ IInv' /\ [Next]_vars => [Promise!Next]_(Promise!outboxVars)
<1> SUFFICES ASSUME IInv, IInv', [Next]_vars
             PROVE  [Promise!Next]_(Promise!outboxVars)
  OBVIOUS
<1> USE HomeAssumption, QueueAssumption
    DEF IInv, TypeOK, QueueTypeOK, PushStates, CallStates, OneConsumer,
        ServerCalls, ServerFinds, Idle
<1>a. ASSUME UNCHANGED <<queue, sent>>,
             call'[Server] = "popEnter" <=> call[Server] = "popEnter"
      PROVE  UNCHANGED <<Outstanding, sent>>
  BY <1>a DEF Outstanding
<1>b. (UNCHANGED <<Outstanding, sent>>) => UNCHANGED Promise!outboxVars
  BY DEF Promise!outboxVars
<1>1. CASE MainNotify
  BY <1>1, <1>a, <1>b DEF MainNotify, Push, Begin, serverVars
<1>2. CASE StartServer
  BY <1>2, <1>a, <1>b DEF StartServer, queueVars
<1>3. CASE StartChecker
  BY <1>3, <1>a, <1>b DEF StartChecker, queueVars, serverVars
<1>4. ASSUME NEW m \in CheckerMessages, CheckerNotify(m)
      PROVE  UNCHANGED Promise!outboxVars
  BY <1>4, <1>a, <1>b DEF CheckerNotify, Push, Begin, serverVars
<1>5. CASE Connect BY <1>5, <1>a, <1>b DEF Connect, queueVars
<1>6. CASE HomeLeaves BY <1>6, <1>a, <1>b DEF HomeLeaves, queueVars
<1>7. CASE Setup BY <1>7, <1>a, <1>b DEF Setup, queueVars
<1>8. CASE SelectIdle BY <1>8, <1>a, <1>b DEF SelectIdle, queueVars
<1>9. CASE Accept BY <1>9, <1>a, <1>b DEF Accept, queueVars
<1>10. CASE AcceptFails BY <1>10, <1>a, <1>b DEF AcceptFails, queueVars
<1>11. CASE HandshakeOk
  BY <1>11, <1>a, <1>b DEF HandshakeOk, Push, Begin, queueVars
<1>12. CASE HandshakeBad BY <1>12, <1>a, <1>b DEF HandshakeBad, queueVars
<1>13. CASE Drain
  BY <1>13, <1>a, <1>b DEF Drain, Front, Begin, queueVars
<1>14. CASE SendOk
  <2>1. /\ queue # <<>> /\ Outstanding = queue /\ Outstanding' = Tail(queue)
        /\ sent' = Append(sent, Head(queue))
    BY <1>14 DEF SendOk, Sending, Pop, Begin, Outstanding
  <2>. QED BY <2>1 DEF Promise!Next, Promise!Deliver
<1>15. CASE SendFails BY <1>15, <1>a, <1>b DEF SendFails, queueVars
<1>16. CASE SendKills BY <1>16, <1>a, <1>b DEF SendKills, serverVars, queueVars
<1>17. ASSUME NEW t \in Threads, QueueStep(t)
       PROVE  [Promise!Next]_(Promise!outboxVars)
  <2>0. UNCHANGED sent
    BY <1>17 DEF QueueStep, serverVars
  <2>1. CASE PushFull(t)
    BY <2>0, <2>1, <1>a, <1>b DEF PushFull, Holding
  <2>2. CASE PushRoom(t)
    BY <2>0, <2>2, <1>a, <1>b DEF PushRoom, Holding
  <2>3. CASE PushInsert(t)
    <3>1. call[t] = "pushInsert" /\ item[t] \in Messages /\ Len(queue) < Capacity
      BY <2>3 DEF PushInsert, InsertIsSafe, PushHasMessage
    <3>2. queue' = Append(queue, item[t])
      BY <2>3 DEF PushInsert
    <3>3. call'[Server] = "popEnter" <=> call[Server] = "popEnter"
      BY <2>3, <3>1 DEF PushInsert, SignalAndReturn
    <3>4. CASE call[Server] = "popEnter"
      <4>1. queue # <<>>
        BY <3>4
      <4>2. Outstanding = Tail(queue) /\ Outstanding' = Append(Tail(queue), item[t])
        BY <3>1, <3>2, <3>3, <3>4, <4>1, AppendBehindHead DEF Outstanding
      <4>3. Len(Tail(queue)) < Capacity
        BY <3>1, <4>1, HeadTailProperties
      <4>. QED BY <2>0, <3>1, <4>2, <4>3 DEF Promise!Next, Promise!Post
    <3>5. CASE call[Server] # "popEnter"
      BY <2>0, <3>1, <3>2, <3>3, <3>5 DEF Outstanding, Promise!Next, Promise!Post
    <3>. QED BY <3>4, <3>5
  <2>4. CASE PushWaitError(t)
    BY <2>0, <2>4, <1>a, <1>b DEF PushWaitError, Holding
  <2>5. CASE PopEmpty(t)
    BY <2>5 DEF PopEmpty, Holding
  <2>6. CASE PopHead(t)
    <3>1. Outstanding' = Outstanding
      BY <2>6 DEF PopHead, Holding, Outstanding
    <3>. QED BY <2>0, <3>1, <1>b
  <2>7. CASE FrontEmpty(t)
    BY <2>0, <2>7, <1>a, <1>b DEF FrontEmpty, Holding
  <2>8. CASE FrontHead(t)
    BY <2>0, <2>8, <1>a, <1>b DEF FrontHead, Holding, SignalAndReturn
  <2>9. CASE FrontWaitError(t)
    BY <2>0, <2>9, <1>a, <1>b DEF FrontWaitError, Holding
  <2>10. CASE SpuriousWakeup(t)
    BY <2>0, <2>10, <1>a, <1>b DEF SpuriousWakeup
  <2>. QED
    BY <1>17, <2>1, <2>2, <2>3, <2>4, <2>5, <2>6, <2>7, <2>8, <2>9, <2>10
    DEF QueueStep, CallStep
<1>18. CASE UNCHANGED vars
  BY <1>18, <1>a, <1>b DEF vars, queueVars, serverVars
<1>. QED
  BY <1>1, <1>2, <1>3, <1>4, <1>5, <1>6, <1>7, <1>8, <1>9, <1>10, <1>11, <1>12,
     <1>13, <1>14, <1>15, <1>16, <1>17, <1>18
  DEF Next, MainStep, ServerStep

\* The queue and the socket server are, for the threads that notify home, an
\* outbox: first in, first out, nothing lost and nothing twice.
THEOREM ImplementsOutbox == Spec => OutboxSpec
<1>1. Init => Promise!Init
  BY HomeAssumption DEF Init, QueueInit, Promise!Init, Outstanding
<1>. QED
  BY <1>1, OutboxStep, Invariance, PTL DEF Spec, OutboxSpec, Promise!Spec

-----------------------------------------------------------------------------
(* Who sleeps in Push, and when *)

\* Main queues its messages alone and before anybody could take them: they
\* fit, so it never sleeps, and once the server runs it calls the queue no
\* more.
Pushing(t) == IF Idle(t) THEN 0 ELSE 1

StartUp ==
    /\ call[Main] # "pushWait"
    /\ main = "notify" =>
          /\ Idle(Server)
          /\ Len(queue) + Len(todo) + Pushing(Main) <= 2
    /\ main # "notify" => Idle(Main)
    /\ main # "loop" => ~checking
    /\ ~checking => Idle(Checker)

\* The Front before a Pop wakes the checker if it sleeps; if it sleeps again
\* by the time of the Pop, it has found the queue full.
Woken ==
    /\ call[Checker] = "pushWait" => Len(queue) + 1 >= Capacity
    /\ /\ call[Checker] = "pushWait"
       /\ (server = "send" /\ Idle(Server)) \/ call[Server] = "popEnter"
       => Len(queue) = Capacity
    /\ call[Server] = "pushWait" => Len(queue) = Capacity

Sleeping == StartUp /\ Woken

LEMMA SleepingInit == Init => Sleeping
<1> SUFFICES ASSUME Init PROVE Sleeping
  OBVIOUS
<1>1. Len(todo) <= 2 /\ Len(queue) = 0
  <2>1. Len(<<UpgradeSuccess>>) = 1 /\ Len(<<Status>>) = 1
    OBVIOUS
  <2>2. Len(<<UpgradeFail, Status>>) = 2
    OBVIOUS
  <2>3. Len(todo) <= 2
    <3>1. \/ todo = <<UpgradeSuccess>> \/ todo = <<Status>>
          \/ todo = <<UpgradeFail, Status>>
      BY DEF Init, StartMessages
    <3>. QED BY <2>1, <2>2, <3>1
  <2>4. Len(queue) = 0
    BY DEF Init, QueueInit
  <2>. QED BY <2>3, <2>4
<1>2. \A t \in Threads : call[t] = "none"
  BY DEF Init, QueueInit
<1>. QED
  BY <1>1, <1>2, HomeAssumption
  DEF Init, QueueInit, Sleeping, StartUp, Woken, Pushing, Idle

LEMMA SleepingCallStep ==
    ASSUME IInv, IInv', Sleeping, NEW t \in Threads,
           CallStep(t) \/ SpuriousWakeup(t), UNCHANGED <<mainVars, server>>
    PROVE  Sleeping'
<1> USE HomeAssumption, QueueAssumption
    DEF IInv, TypeOK, QueueTypeOK, CallStates, PushStates, InsertIsSafe,
        WithinCapacity, OneConsumer, ServerCalls, ServerFinds, Sleeping,
        StartUp, Woken, Pushing, Idle, mainVars
<1>0. Len(queue) \in Nat /\ Len(queue') \in Nat /\ Len(todo) \in Nat
  BY LenProperties
<1>1. CASE PushFull(t)
  <2>1. t # Main
    BY <1>0, <1>1 DEF PushFull, Holding
  <2>. QED BY <1>0, <1>1, <2>1 DEF PushFull, Holding
<1>2. CASE PushRoom(t) BY <1>0, <1>2 DEF PushRoom, Holding
<1>3. CASE PushInsert(t)
  <2>1. /\ call[t] = "pushInsert" /\ Len(queue) < Capacity
        /\ Len(queue') = Len(queue) + 1
    BY <1>3, AppendProperties DEF PushInsert, PushHasMessage
  <2>2. call' = [call EXCEPT ![t] = "none"]
    <3>1. {w \in Threads : call[w] = "frontWait"} = {}
      OBVIOUS
    <3>. QED BY <1>3, <3>1 DEF PushInsert, SignalAndReturn
  <2>. QED BY <1>0, <2>1, <2>2, SMTT(60)
<1>4. CASE PushWaitError(t) BY <1>0, <1>4 DEF PushWaitError, Holding
<1>5. CASE PopEmpty(t) BY <1>5 DEF PopEmpty, Holding
<1>6. CASE PopHead(t)
  <2>1. /\ t = Server /\ call[t] = "popEnter" /\ queue' = Tail(queue)
        /\ call' = [call EXCEPT ![t] = "none"]
    BY <1>6 DEF PopHead, Holding
  <2>2. Len(queue') = Len(queue) - 1 /\ server # "send"
    BY <1>6, <2>1, HeadTailProperties DEF PopHead
  <2>3. /\ call'[Server] = "none" /\ call'[Main] = call[Main]
        /\ call'[Checker] = call[Checker] /\ server' # "send"
    BY <2>1, <2>2
  <2>4. StartUp'
    BY <2>1, <2>3
  <2>5. call[Checker] = "pushWait" => Len(queue) = Capacity
    BY <2>1
  <2>6. Woken'
    <3>. HIDE DEF IInv, Sleeping
    <3>. QED BY <1>0, <2>2, <2>3, <2>5
  <2>. QED BY <2>4, <2>6
<1>7. CASE FrontEmpty(t) BY <1>7 DEF FrontEmpty, Holding
<1>8. CASE FrontHead(t)
  <2>1. /\ t = Server /\ call[t] = "frontEnter" /\ server = "send"
        /\ UNCHANGED queue
    BY <1>8 DEF FrontHead, Holding
  <2>2. {w \in Threads : call[w] = "pushWait"} \subseteq {Checker}
    BY <2>1
  <2>3. /\ call'[t] = "none" /\ call'[Checker] # "pushWait"
        /\ call'[Checker] = call[Checker] \/ call[Checker] = "pushWait"
        /\ call'[Main] = call[Main]
    BY <1>8, <2>1, <2>2 DEF FrontHead, SignalAndReturn
  <2>. QED BY <1>0, <2>1, <2>3
<1>9. CASE FrontWaitError(t) BY <1>9 DEF FrontWaitError, Holding
<1>10. CASE SpuriousWakeup(t) BY <1>0, <1>10, SMTT(60) DEF SpuriousWakeup
<1>. QED
  BY <1>1, <1>2, <1>3, <1>4, <1>5, <1>6, <1>7, <1>8, <1>9, <1>10 DEF CallStep

LEMMA SleepingStep == IInv /\ IInv' /\ Sleeping /\ [Next]_vars => Sleeping'
<1> SUFFICES ASSUME IInv, IInv', Sleeping, [Next]_vars PROVE Sleeping'
  OBVIOUS
<1> USE HomeAssumption, QueueAssumption
    DEF IInv, TypeOK, QueueTypeOK, CallStates, PushStates, OneConsumer,
        ServerCalls, Sleeping, StartUp, Woken, Pushing, Idle, StartedByMain
<1>0. Len(queue) \in Nat /\ Len(todo) \in Nat
  BY LenProperties
<1>a. ASSUME UNCHANGED <<queueVars, mainVars>>,
             server' = "send" => server = "send"
      PROVE  Sleeping'
  BY <1>a DEF queueVars, mainVars
<1>1. CASE MainNotify
  <2>1. Len(todo') = Len(todo) - 1
    BY <1>1, HeadTailProperties DEF MainNotify
  <2>2. /\ call' = [call EXCEPT ![Main] = "pushEnter"] /\ call[Main] = "none"
        /\ UNCHANGED <<queue, server, main, checking>>
    BY <1>1 DEF MainNotify, Push, Begin, serverVars
  <2>. QED BY <1>0, <1>1, <2>1, <2>2 DEF MainNotify
<1>2. CASE StartServer
  BY <1>2 DEF StartServer, queueVars
<1>3. CASE StartChecker
  BY <1>3, Zenon DEF StartChecker, queueVars, serverVars
<1>4. ASSUME NEW m \in CheckerMessages, CheckerNotify(m) PROVE Sleeping'
  BY <1>4 DEF CheckerNotify, Push, Begin, mainVars, serverVars
<1>5. CASE \/ Connect \/ HomeLeaves \/ Setup \/ SelectIdle \/ Accept
           \/ AcceptFails \/ HandshakeBad
  BY <1>5, <1>a
  DEF Connect, HomeLeaves, Setup, SelectIdle, AfterSelect, Accept, AcceptFails,
      HandshakeBad
<1>6. CASE HandshakeOk
  <2>1. CASE first
    BY <1>6, <2>1, <1>a DEF HandshakeOk
  <2>2. CASE Push(Server, Status)
    <3>1. main # "notify"
      BY <1>6 DEF HandshakeOk
    <3>. QED BY <1>6, <2>2, <3>1 DEF HandshakeOk, Push, Begin, mainVars
  <2>. QED BY <1>6, <2>1, <2>2 DEF HandshakeOk
<1>7. CASE Drain
  <2>1. CASE UNCHANGED queueVars /\ server' = "select"
    BY <1>7, <2>1, <1>a DEF Drain
  <2>2. CASE Front(Server) /\ server' = "send"
    <3>1. main # "notify"
      BY <1>7 DEF Drain
    <3>. QED BY <1>7, <2>2, <3>1 DEF Drain, Front, Begin, mainVars
  <2>. QED BY <1>7, <2>1, <2>2 DEF Drain
<1>8. CASE SendOk
  <2>1. main # "notify"
    BY <1>8 DEF SendOk, Sending
  <2>. QED BY <1>8, <2>1 DEF SendOk, Sending, Pop, Begin, mainVars
<1>9. CASE SendFails
  BY <1>9, <1>a DEF SendFails
<1>10. CASE SendKills
  BY <1>10 DEF SendKills, queueVars, serverVars
<1>11. ASSUME NEW t \in Threads, QueueStep(t) PROVE Sleeping'
  BY <1>11, SleepingCallStep DEF QueueStep, serverVars
<1>12. CASE UNCHANGED vars
  BY <1>12, <1>a DEF vars, serverVars
<1>. QED
  BY <1>1, <1>2, <1>3, <1>4, <1>5, <1>6, <1>7, <1>8, <1>9, <1>10, <1>11, <1>12
  DEF Next, MainStep, ServerStep

\* A message the server takes from a full queue may leave the checker asleep
\* beside one free place, as Pop signals nobody; the next Front wakes it, so
\* it is never left asleep beside two.
THEOREM SleepsNear == Spec => []SleepsNearCapacity
<1>1. Sleeping => SleepsNearCapacity
  BY DEF Sleeping, Woken, SleepsNearCapacity
<1>. QED BY <1>1, Invariance, SleepingInit, SleepingStep, PTL DEF Spec

\* The server goes to sleep on its own queue only if that is full.
THEOREM ServerSleepsOnFull == Spec => []ServerSleepsOnlyOnFull
<1>1. Sleeping => ServerSleepsOnlyOnFull
  BY DEF Sleeping, Woken, ServerSleepsOnlyOnFull
<1>. QED BY <1>1, Invariance, SleepingInit, SleepingStep, PTL DEF Spec

\* A server that sleeps in its own Push on a full queue sends nothing more,
\* and nobody changes the queue.
THEOREM StuckStays == Spec => StuckForGood
<1>1. IInv /\ [Next]_vars =>
          [StuckServer => sent' = sent /\ queue' = queue]_vars
  <2> SUFFICES ASSUME IInv, [Next]_vars, StuckServer
               PROVE  sent' = sent /\ queue' = queue
    OBVIOUS
  <2> USE HomeAssumption, QueueAssumption
      DEF IInv, TypeOK, QueueTypeOK, PushStates, InsertIsSafe, OneConsumer,
          ServerCalls, StuckServer
  <2>1. server # "send"
    OBVIOUS
  <2>2. ASSUME NEW t \in Threads, QueueStep(t)
        PROVE  sent' = sent /\ queue' = queue
    <3>1. call[t] # "pushInsert" /\ call[t] # "popEnter"
      <4>1. Len(queue) \in Nat /\ Len(queue) = Capacity
        BY LenProperties
      <4>2. call[t] # "pushInsert"
        BY <4>1 DEF InsertIsSafe
      <4>3. call[t] # "popEnter"
        BY DEF OneConsumer, StuckServer
      <4>. QED BY <4>2, <4>3
    <3>2. ~PushInsert(t) /\ ~PopHead(t)
      BY <3>1, Zenon DEF PushInsert, PopHead, Holding
    <3>. QED
      BY <2>2, <3>2
      DEF QueueStep, serverVars, CallStep, PushFull, PushRoom, PushWaitError,
          PopEmpty, FrontEmpty, FrontHead, FrontWaitError, SpuriousWakeup
  <2>3. CASE \/ MainStep \/ \E m \in CheckerMessages : CheckerNotify(m)
             \/ Connect \/ HomeLeaves
    BY <2>3
    DEF MainStep, MainNotify, StartServer, StartChecker, CheckerNotify, Push,
        Begin, Connect, HomeLeaves, queueVars, serverVars
  <2>4. CASE ServerStep
    BY <2>1, <2>4
    DEF ServerStep, Setup, SelectIdle, Accept, AcceptFails, HandshakeOk,
        HandshakeBad, Drain, SendOk, SendFails, SendKills, Sending, Front, Push,
        Begin, queueVars, serverVars
  <2>5. CASE UNCHANGED vars
    BY <2>5 DEF vars, queueVars, serverVars
  <2>. QED BY <2>2, <2>3, <2>4, <2>5 DEF Next
<1>. QED BY <1>1, Invariance, PTL DEF Spec, StuckForGood

-----------------------------------------------------------------------------
(* The status of the system for each home *)

Places(s) == {i \in DOMAIN s : s[i] = Status}

LEMMA PlacesFacts ==
    ASSUME NEW s \in Seq(Messages), NEW m \in Messages
    PROVE  /\ Cardinality(Places(s)) \in Nat
           /\ Cardinality(Places(Append(s, m))) =
                 Cardinality(Places(s)) + (IF m = Status THEN 1 ELSE 0)
<1>1. Len(s) \in Nat /\ DOMAIN s = 1 .. Len(s)
  BY LenProperties
<1>2. IsFiniteSet(Places(s))
  <2>1. IsFiniteSet(1 .. Len(s))
    BY <1>1, FS_Interval
  <2>. QED BY <1>1, <2>1, FS_Subset DEF Places
<1>3. Cardinality(Places(s)) \in Nat
  BY <1>2, FS_CardinalityType
<1>4. /\ DOMAIN Append(s, m) = 1 .. Len(s) + 1
      /\ Append(s, m)[Len(s) + 1] = m
      /\ \A i \in 1 .. Len(s) : Append(s, m)[i] = s[i]
  BY <1>1, AppendProperties
<1>5. CASE m = Status
  <2>1. Places(Append(s, m)) = Places(s) \cup {Len(s) + 1}
    BY <1>1, <1>4, <1>5 DEF Places
  <2>2. Len(s) + 1 \notin Places(s)
    BY <1>1 DEF Places
  <2>. QED BY <1>2, <1>3, <1>5, <2>1, <2>2, FS_AddElement
<1>6. CASE m # Status
  <2>1. Places(Append(s, m)) = Places(s)
    BY <1>1, <1>4, <1>6 DEF Places
  <2>. QED BY <1>3, <1>6, <2>1
<1>. QED BY <1>5, <1>6

\* What the server pushes is the status, once for each handshake after the
\* first: the push under way is the one that is still missing.
Greetings ==
    ~WaitErrors =>
        /\ first => greeted = 0
        /\ call[Server] \in PushStates => item[Server] = Status
        /\ greeted <= Cardinality(Places(accepted))
                         + (IF call[Server] \in PushStates THEN 2 ELSE 1)

LEMMA GreetingsCallStep ==
    ASSUME IInv, Greetings, NEW t \in Threads,
           CallStep(t) \/ SpuriousWakeup(t), UNCHANGED <<first, greeted>>
    PROVE  Greetings'
<1> SUFFICES ASSUME ~WaitErrors PROVE Greetings'
  BY DEF Greetings
<1> USE HomeAssumption
    DEF IInv, TypeOK, QueueTypeOK, CallStates, PushStates, OneConsumer,
        ServerCalls, Greetings
<1>0. Cardinality(Places(accepted)) \in Nat
  BY PlacesFacts
<1>1. CASE PushInsert(t)
  <2>1. /\ call[t] = "pushInsert" /\ item[t] \in Messages
        /\ accepted' = Append(accepted, item[t])
        /\ item' = [item EXCEPT ![t] = NULL]
    BY <1>1 DEF PushInsert, PushHasMessage
  <2>2. call' = [call EXCEPT ![t] = "none"]
    <3>1. {w \in Threads : call[w] = "frontWait"} = {}
      OBVIOUS
    <3>. QED BY <1>1, <3>1 DEF PushInsert, SignalAndReturn
  <2>3. Cardinality(Places(accepted')) =
            Cardinality(Places(accepted))
                + (IF item[t] = Status THEN 1 ELSE 0)
    BY <2>1, PlacesFacts
  <2>. QED BY <1>0, <2>1, <2>2, <2>3
<1>2. CASE PushFull(t) \/ PushRoom(t) \/ SpuriousWakeup(t)
  BY <1>0, <1>2 DEF PushFull, PushRoom, SpuriousWakeup, Holding
<1>3. CASE PopEmpty(t) \/ PopHead(t)
  BY <1>0, <1>3 DEF PopEmpty, PopHead, Holding
<1>4. CASE FrontEmpty(t)
  BY <1>0, <1>4 DEF FrontEmpty, Holding
<1>5. CASE FrontHead(t)
  <2>1. t = Server /\ call[t] = "frontEnter" /\ UNCHANGED accepted
    BY <1>5 DEF FrontHead, Holding
  <2>2. call'[Server] = "none"
    BY <1>5, <2>1 DEF FrontHead, SignalAndReturn
  <2>. QED BY <1>0, <2>1, <2>2
<1>6. CASE PushWaitError(t) \/ FrontWaitError(t)
  BY <1>6 DEF PushWaitError, FrontWaitError
<1>. QED
  BY <1>1, <1>2, <1>3, <1>4, <1>5, <1>6 DEF CallStep

LEMMA GreetingsStep == IInv /\ Greetings /\ [Next]_vars => Greetings'
<1> SUFFICES ASSUME IInv, Greetings, [Next]_vars, ~WaitErrors PROVE Greetings'
  BY DEF Greetings
<1> USE HomeAssumption
    DEF IInv, TypeOK, QueueTypeOK, CallStates, PushStates, ServerCalls,
        Greetings
<1>0. Cardinality(Places(accepted)) \in Nat
  BY HomeAssumption, PlacesFacts
<1>a. ASSUME UNCHANGED <<queueVars, first, greeted>> PROVE Greetings'
  BY <1>a DEF queueVars
<1>b. ASSUME NEW t \in Threads \ {Server}, NEW m \in Messages, Push(t, m),
             UNCHANGED <<first, greeted>>
      PROVE  Greetings'
  BY <1>b DEF Push, Begin
<1>1. CASE MainNotify
  <2>1. Head(todo) \in Messages
    BY <1>1, HeadTailProperties DEF MainNotify
  <2>. QED BY <1>1, <1>b, <2>1 DEF MainNotify, serverVars
<1>2. CASE StartServer \/ StartChecker
  BY <1>2, <1>a DEF StartServer, StartChecker, serverVars
<1>3. ASSUME NEW m \in CheckerMessages, CheckerNotify(m) PROVE Greetings'
  BY <1>3, <1>b DEF CheckerNotify, CheckerMessages, serverVars
<1>4. CASE \/ Connect \/ HomeLeaves \/ Setup \/ SelectIdle \/ Accept
           \/ AcceptFails \/ HandshakeBad \/ SendFails
  BY <1>4, <1>a
  DEF Connect, HomeLeaves, Setup, SelectIdle, Accept, AcceptFails, HandshakeBad,
      SendFails
<1>5. CASE SendKills
  BY <1>5, <1>a DEF SendKills, serverVars
<1>6. CASE HandshakeOk
  <2>1. CASE first /\ UNCHANGED queueVars
    <3>1. greeted = 0 /\ ~first'
      BY <1>6, <2>1, Zenon DEF HandshakeOk
    <3>2. greeted' = 1
      BY <1>6, <3>1 DEF HandshakeOk
    <3>3. UNCHANGED <<call, item, accepted>>
      BY <2>1 DEF queueVars
    <3>4. greeted' <= Cardinality(Places(accepted))
                         + (IF call[Server] \in PushStates THEN 2 ELSE 1)
      BY <1>0, <3>2
    <3>. QED BY <3>1, <3>3, <3>4, Zenon
  <2>2. CASE Push(Server, Status)
    BY <1>0, <1>6, <2>2 DEF HandshakeOk, Push, Begin
  <2>. QED BY <1>6, <2>1, <2>2 DEF HandshakeOk
<1>7. CASE Drain
  BY <1>0, <1>7 DEF Drain, Front, Begin, queueVars
<1>8. CASE SendOk
  BY <1>0, <1>8 DEF SendOk, Sending, Idle, Pop, Begin
<1>9. ASSUME NEW t \in Threads, QueueStep(t) PROVE Greetings'
  BY <1>9, GreetingsCallStep DEF QueueStep, serverVars
<1>10. CASE UNCHANGED vars
  BY <1>10, <1>a DEF vars, serverVars
<1>. QED
  BY <1>1, <1>2, <1>3, <1>4, <1>5, <1>6, <1>7, <1>8, <1>9, <1>10
  DEF Next, MainStep, ServerStep

\* Each home but the first has had the system status queued for it whenever
\* the server is not just queueing it; a wait that fails would drop it.
THEOREM StatusForEachHome == Spec => [](~WaitErrors => StatusPerReconnect)
<1> DEFINE Told == ~WaitErrors => StatusPerReconnect
<1>1. Init => Greetings
  <2> SUFFICES ASSUME Init PROVE Greetings
    OBVIOUS
  <2>1. Places(accepted) = {}
    BY DEF Init, QueueInit, Places
  <2>2. Cardinality(Places(accepted)) = 0
    BY <2>1, FS_EmptySet
  <2>. QED
    BY <2>2, HomeAssumption DEF Init, QueueInit, Greetings, PushStates
<1>2. Greetings => Told
  BY DEF Greetings, StatusPerReconnect, Statuses, Places, Idle, PushStates
<1>. QED BY <1>1, <1>2, Invariance, GreetingsStep, PTL DEF Spec

=============================================================================
