----------------------------- MODULE HomeServer -----------------------------
(***************************************************************************)
(* The socket server of the daemon (sock_server_thread, daemon/src/        *)
(* main.cpp 196-304), the main thread that starts it after queueing the    *)
(* start-up messages (74-136), and the checker thread seen as a producer   *)
(* of messages.  They share one MutexQueue, g_MessageQueue.                *)
(*                                                                         *)
(* The peer, "home", is external: it connects, sends its handshake when it *)
(* likes, and may go away at any time.                                     *)
(***************************************************************************)
EXTENDS MutexQueue, FiniteSets

CONSTANTS
    Main, Checker, Server,           \* the threads
    UpgradeSuccess, UpgradeFail,     \* OtaMessage(EVENT_UPGRADE, ...)
    Status,                          \* SystemMessage
    MaxNotices,    \* bound: the checker falls silent after this many accepted
    MaxConnects    \* bound: connections home opens in a run

\* Capacity is 1024 in the code (77).  Two is what the start-up messages
\* need: they are pushed before there is a thread to take them.
ASSUME HomeAssumption ==
    /\ Threads = {Main, Checker, Server}
    /\ Main # Checker /\ Main # Server /\ Checker # Server
    /\ {UpgradeSuccess, UpgradeFail, Status} \subseteq Messages
    /\ Capacity >= 2
    /\ MaxNotices \in Nat /\ MaxConnects \in Nat

VARIABLES
    alive,     \* whether the process runs
    main,      \* the main thread: what it does next
    todo,      \* the start-up messages main has still to queue
    checking,  \* whether the checker thread was started
    server,    \* the server thread: what it does next
    home,      \* homeFd: none, or a connection whose peer is up or down
    first,     \* the local `first`: no handshake has succeeded yet
    backlog,   \* connections completed by the kernel and not accepted yet
    connects,  \* history: connections home has opened
    greeted,   \* history: handshakes that succeeded
    sent       \* history: messages handed to the kernel, in order

serverVars == <<server, home, first, backlog, connects, greeted, sent>>
mainVars == <<alive, main, todo, checking>>
vars == <<queueVars, mainVars, serverVars>>

CheckerMessages == Messages \ {UpgradeSuccess, UpgradeFail, Status}

\* What the last recovery run leaves to be told at start-up (96-107): nothing
\* but its success, or its failure and the status, or the status alone.
StartMessages == {<<UpgradeSuccess>>, <<UpgradeFail, Status>>, <<Status>>}

\* "off" until pthread_create, "gone" after a return of the thread function.
ServerStates == {"off", "setup", "select", "recv", "drain", "send", "gone"}

TypeOK ==
    /\ QueueTypeOK
    /\ alive \in BOOLEAN
    /\ main \in {"notify", "checker", "loop"}
    /\ todo \in Seq(Messages)
    /\ checking \in BOOLEAN
    /\ server \in ServerStates
    /\ home \in {"none", "up", "down"}
    /\ first \in BOOLEAN
    /\ backlog \in Nat
    /\ connects \in Nat
    /\ greeted \in Nat
    /\ sent \in Seq(Messages)

Init ==
    /\ QueueInit
    /\ alive = TRUE
    /\ main = "notify"
    /\ todo \in StartMessages
    /\ checking = FALSE
    /\ server = "off"
    /\ home = "none"
    /\ first = TRUE
    /\ backlog = 0
    /\ connects = 0
    /\ greeted = 0
    /\ sent = <<>>

Idle(t) == call[t] = "none"

-----------------------------------------------------------------------------
(* The main thread *)

MainNotify ==
    /\ main = "notify"
    /\ todo # <<>>
    /\ Push(Main, Head(todo))
    /\ todo' = Tail(todo)
    /\ UNCHANGED <<alive, main, checking, serverVars>>

\* pthread_create of the server (111-118).  A failure ends the process.
StartServer ==
    /\ main = "notify"
    /\ todo = <<>>
    /\ Idle(Main)
    /\ \/ main' = "checker" /\ server' = "setup" /\ UNCHANGED alive
       \/ alive' = FALSE /\ UNCHANGED <<main, server>>
    /\ UNCHANGED <<queueVars, todo, checking>>
    /\ UNCHANGED <<home, first, backlog, connects, greeted, sent>>

StartChecker ==
    /\ main = "checker"
    /\ \/ main' = "loop" /\ checking' = TRUE /\ UNCHANGED alive
       \/ alive' = FALSE /\ UNCHANGED <<main, checking>>
    /\ UNCHANGED <<queueVars, todo, serverVars>>

-----------------------------------------------------------------------------
(* The checker thread: notifyHome is all that reaches the queue from there *)

CheckerNotify(m) ==
    /\ checking
    /\ Len(accepted) < MaxNotices
    /\ Push(Checker, m)
    /\ UNCHANGED <<mainVars, serverVars>>

-----------------------------------------------------------------------------
(* Home *)

Connect ==
    /\ server \notin {"off", "setup", "gone"}
    /\ connects < MaxConnects
    /\ connects' = connects + 1
    /\ backlog' = backlog + 1
    /\ UNCHANGED <<queueVars, mainVars, server, home, first, greeted, sent>>

HomeLeaves ==
    /\ home = "up"
    /\ home' = "down"
    /\ UNCHANGED <<queueVars, mainVars, server, first>>
    /\ UNCHANGED <<backlog, connects, greeted, sent>>

-----------------------------------------------------------------------------
(* The server thread *)

\* socket, bind and listen (197-228); one failure and the thread is gone.
Setup ==
    /\ server = "setup"
    /\ server' \in {"select", "gone"}
    /\ UNCHANGED <<queueVars, mainVars>>
    /\ UNCHANGED <<home, first, backlog, connects, greeted, sent>>

\* Slip: the queue is looked at only after a handshake.
AfterSelectNothing == "select"

\* Below the select, the queue is looked at if somebody is connected (280).
AfterSelect == IF home = "none" THEN "select" ELSE "drain"

\* select runs into its 10 ms, or fails.
SelectIdle ==
    /\ server = "select"
    /\ backlog = 0
    /\ server' = AfterSelect
    /\ UNCHANGED <<queueVars, mainVars>>
    /\ UNCHANGED <<home, first, backlog, connects, greeted, sent>>

\* A new connection replaces the old one, whatever its state (247-257).
Accept ==
    /\ server = "select"
    /\ backlog > 0
    /\ backlog' = backlog - 1
    /\ home' = "up"
    /\ server' = "recv"
    /\ UNCHANGED <<queueVars, mainVars, first, connects, greeted, sent>>

\* Slip: the listening socket is not looked up in the set that select left.
AcceptUnready ==
    /\ server = "select"
    /\ backlog' = backlog - 1
    /\ server' = AfterSelect
    /\ UNCHANGED <<queueVars, mainVars, home, first, connects, greeted, sent>>

AcceptFails ==
    /\ server = "select"
    /\ backlog > 0
    /\ backlog' = backlog - 1
    /\ server' = AfterSelect
    /\ UNCHANGED <<queueVars, mainVars, home, first, connects, greeted, sent>>

\* Slip: `first` is never reset.
HandshakeForgetful ==
    /\ server = "recv"
    /\ server' = "drain"
    /\ greeted' = greeted + 1
    /\ UNCHANGED <<queueVars, mainVars, home, first, backlog, connects, sent>>

\* The message of a peer that has left since can still be received.  From the
\* second handshake on the server itself queues the status for home (265-269).
HandshakeOk ==
    /\ server = "recv"
    /\ server' = "drain"
    /\ first' = FALSE
    /\ greeted' = greeted + 1
    /\ \/ first /\ UNCHANGED queueVars
       \/ ~first /\ Push(Server, Status)
    /\ UNCHANGED <<mainVars, home, backlog, connects, sent>>

HandshakeBad ==
    /\ server = "recv"
    /\ home' = "none"
    /\ server' = "select"
    /\ UNCHANGED <<queueVars, mainVars>>
    /\ UNCHANGED <<first, backlog, connects, greeted, sent>>

\* Slip: the loop is entered without a look at Size().
DrainUntested ==
    /\ server = "drain" \/ (server = "send" /\ item[Server] = NULL)
    /\ Idle(Server)
    /\ Front(Server)
    /\ server' = "send"
    /\ UNCHANGED <<mainVars, home, first, backlog, connects, greeted, sent>>

\* The test of the inner loop (281), reached from above, after a Pop, or when
\* Front has returned NULL.
Drain ==
    /\ server = "drain" \/ (server = "send" /\ item[Server] = NULL)
    /\ Idle(Server)
    /\ \E positive \in SizePositive :
          IF positive THEN Front(Server) /\ server' = "send"
                      ELSE UNCHANGED queueVars /\ server' = "select"
    /\ UNCHANGED <<mainVars, home, first, backlog, connects, greeted, sent>>

Sending == server = "send" /\ Idle(Server) /\ item[Server] # NULL

\* Slip: the message stays in the queue although it was sent.
SendNoPop ==
    /\ Sending
    /\ sent' = Append(sent, item[Server])
    /\ server' = "drain"
    /\ UNCHANGED <<queueVars, mainVars, home, first, backlog, connects, greeted>>

\* The kernel takes the message, which says nothing about the peer; Pop.
SendOk ==
    /\ Sending
    /\ sent' = Append(sent, item[Server])
    /\ Pop(Server)
    /\ server' = "drain"
    /\ UNCHANGED <<mainVars, home, first, backlog, connects, greeted>>

\* Slip: Pop also after a send that failed.
SendFailsPop ==
    /\ Sending
    /\ home = "down"
    /\ Pop(Server)
    /\ server' = "select"
    /\ UNCHANGED <<mainVars, home, first, backlog, connects, greeted, sent>>

\* send reports an error: the message stays and so does homeFd (289-291).
SendFails ==
    /\ Sending
    /\ home = "down"
    /\ server' = "select"
    /\ UNCHANGED <<queueVars, mainVars>>
    /\ UNCHANGED <<home, first, backlog, connects, greeted, sent>>

\* send on a connection the peer has reset raises SIGPIPE, which nothing
\* handles: the process is terminated.
SendKills ==
    /\ Sending
    /\ home = "down"
    /\ alive' = FALSE
    /\ UNCHANGED <<queueVars, main, todo, checking, serverVars>>

-----------------------------------------------------------------------------
QueueStep(t) ==
    /\ CallStep(t) \/ SpuriousWakeup(t)
    /\ UNCHANGED <<mainVars, serverVars>>

MainStep == MainNotify \/ StartServer \/ StartChecker

ServerStep ==
    \/ Setup
    \/ SelectIdle \/ Accept \/ AcceptFails
    \/ HandshakeOk \/ HandshakeBad
    \/ Drain \/ SendOk \/ SendFails \/ SendKills

Next ==
    /\ alive
    /\ \/ MainStep
       \/ \E m \in CheckerMessages : CheckerNotify(m)
       \/ Connect \/ HomeLeaves
       \/ ServerStep
       \/ \E t \in Threads : QueueStep(t)

Spec == Init /\ [][Next]_vars
-----------------------------------------------------------------------------
(* Safety *)

\* What has been accepted and not handed over.  Between the send and the end
\* of its Pop (289-293) the head of the queue is a message already sent.
Outstanding == IF call[Server] = "popEnter" THEN Tail(queue) ELSE queue

\* Send, Pop and delete (289-294) with pushes in between from any thread, and
\* failed sends, broken connections and new ones: home is told everything in
\* the order of notification, nothing twice, nothing left out.
InOrder == accepted = sent \o Outstanding

\* Size() is read without the mutex (MutexQueue.h:34) and may be wrong while
\* a push is under way.  Still the server is never led into a Front that
\* sleeps, while home's connection waits, or into the Pop of an empty queue,
\* which would keep the mutex for ever.
ServerNeverMisled ==
    /\ call[Server] \notin {"frontWait", "frontWoken"}
    /\ call[Server] = "popEnter" => queue # <<>>

\* Pop signals nobody (MutexQueue.h:73-84), the Front before it does.  So the
\* checker may sleep in notifyHome beside one free place, never beside more.
SleepsNearCapacity ==
    call[Checker] = "pushWait" => Len(queue) + 1 >= Capacity

\* The server pushes too (268), and nobody but the server empties the queue:
\* it can go to sleep there only on a queue that is really full.
ServerSleepsOnlyOnFull == call[Server] = "pushWait" => Len(queue) = Capacity

\* ... and then nothing wakes it: from there on no message is ever sent.
StuckServer == call[Server] = "pushWait" /\ Len(queue) = Capacity
StuckForGood == [][StuckServer => sent' = sent /\ queue' = queue]_vars

\* Each home but the first has the system status queued for it (265-269).
Statuses == Cardinality({i \in DOMAIN accepted : accepted[i] = Status})
StatusPerReconnect == Idle(Server) => greeted <= Statuses + 1

\* main.cpp:76, "create sender queue and notify system status".
StatusNotified ==
    main = "loop" => \E i \in DOMAIN accepted : accepted[i] = Status

\* The queue and the server implement the outbox.
Promise == INSTANCE Outbox WITH pending <- Outstanding, delivered <- sent
OutboxSpec == Promise!Spec

-----------------------------------------------------------------------------
(* Liveness.  Threads that can run do run; pthread_cond_wait is woken by    *)
(* signals only.  Nothing is asked of home: it need not connect, nor send   *)
(* its handshake, and the server waits in recv for it without a timeout.    *)

ServerRuns ==
    \/ Setup
    \/ SelectIdle \/ Accept \/ AcceptFails
    \/ Drain \/ SendOk \/ SendFails \/ SendKills

Fairness ==
    /\ WF_vars(alive /\ MainStep)
    /\ WF_vars(alive /\ ServerRuns)
    /\ \A t \in Threads :
          WF_vars(alive /\ CallStep(t) /\ UNCHANGED <<mainVars, serverVars>>)

FairSpec == Spec /\ Fairness

\* A home is connected and the server does not wait: neither for a handshake
\* nor, on a full queue, for itself.
Serving ==
    alive /\ home = "up" /\ server # "recv" /\ call[Server] # "pushWait"

\* As long as home is served, what was accepted is sent (280-299).
EverythingSent ==
    \A n \in 1 .. MaxNotices :
        Len(accepted) >= n ~> Len(sent) >= n \/ ~Serving

\* As long as home is served, no notifyHome of the checker hangs: the wake-up
\* that Pop does not give comes with the next Front.
CheckerResumes == ~Idle(Checker) ~> Idle(Checker) \/ ~Serving
=============================================================================
