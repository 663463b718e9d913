-------------------------------- MODULE Daemon --------------------------------
(* The parts of the daemon around the queue and the update: the connections   *)
(* to home, the request of a round of the checker, the pause of a download    *)
(* for a cast application, and the commands of librecovery.  They share no    *)
(* state.  A behaviour is about one of them; the others stay in their initial *)
(* state.                                                                     *)
EXTENDS Integers, Sequences

CONSTANTS
    MaxMessages, MaxConnects, Pieces,        \* of HomeStream
    Md5s, MaxRounds,                         \* of UpdateCheck
    Pids, Every, Total,                      \* of ProcessMonitor
    Wipe, Updates, FileSize, MaxCalls, Empty, Torn, NoFile   \* of LibRecovery

VARIABLES
    part,     \* what the behaviour is about
    queued, popped, fd, hello, complete, wire, rest, whole, before, given, base, connects,
    at, answer, pos, cut, buffer, overrun, rr, heap, round, quiet,
    procs, now, counter, asks, line, result, since, seen,
    file, pc, command, lost, ran, left, errno, calls

stream == <<queued, popped, fd, hello, complete, wire, rest, whole, before, given, base, connects>>
check == <<at, answer, pos, cut, buffer, overrun, rr, heap, round, quiet>>
monitor == <<procs, now, counter, asks, line, result, since, seen>>
recovery == <<file, pc, command, lost, ran, left, errno, calls>>
vars == <<part, stream, check, monitor, recovery>>

Stream == INSTANCE HomeStream

Check == INSTANCE UpdateCheck

Monitor == INSTANCE ProcessMonitor WITH at <- asks

Recovery == INSTANCE LibRecovery WITH Cut <- Torn, None <- NoFile

ASSUME DaemonAssumption ==
    /\ Stream!BoundAssumption /\ Check!CheckAssumption
    /\ Monitor!MonitorAssumption /\ Recovery!RecoveryAssumption

-----------------------------------------------------------------------------
Init ==
    /\ part \in {"stream", "check", "monitor", "recovery"}
    /\ Stream!Init /\ Check!Init /\ Monitor!Init
    /\ Recovery!Init /\ (part # "recovery" => file = NoFile /\ ~errno)

\* A step of one part.
Streams(A) == part = "stream" /\ A /\ UNCHANGED <<part, check, monitor, recovery>>
Checks(A) == part = "check" /\ A /\ UNCHANGED <<part, stream, monitor, recovery>>
Recovers(A) == part = "recovery" /\ A /\ UNCHANGED <<part, stream, check, monitor>>

NextStream == Streams(Stream!Next)
NextCheck == Checks(Check!Next)
NextMonitor == part = "monitor" /\ Monitor!Next /\ UNCHANGED <<part, stream, check, recovery>>
NextRecovery == Recovers(Recovery!Next)

Next == NextStream \/ NextCheck \/ NextMonitor \/ NextRecovery

\* The threads go on, and the network and the server with them; nothing is
\* said of home, of processes, of calls, or of a disk that fails.
Fairness ==
    /\ WF_vars(Streams(Stream!ShakeHands))
    /\ WF_vars(Streams(Stream!Send))
    /\ WF_vars(Streams(Stream!Arrive))
    /\ WF_vars(Checks(Check!CheckerStep))
    /\ WF_vars(Checks(Check!Completes))
    /\ WF_vars(Checks(Check!HandOver))
    /\ WF_vars(Recovers(Recovery!ReadTurn))
    /\ WF_vars(Recovers(Recovery!ReadTest))

Spec == Init /\ [][Next]_vars /\ Fairness

-----------------------------------------------------------------------------
\* On each connection home cuts the stream into whole messages by the lengths
\* JoinElements put in front, without a gap.
FramesAreMessages == part = "stream" => Stream!FramesAreMessages

\* Over broken and replaced connections no message arrives twice or out of
\* turn, or before main.cpp has popped it.
InOrderOnce == part = "stream" => Stream!InOrderOnce

\* requireUpdatePackage makes an offer only of a whole answer, and of what a
\* round of check_thread makes it leaks the RequireResult where there was an
\* offer and no task, and nothing else.
CheckIsRight ==
    part = "check" => Check!OfferIsAnswer /\ Check!CutIsHarmless /\ Check!OnlyResultsLeak

\* DownloadCallback slows the transfer for a cast application that runs, and
\* only for one.
SlowsForCast == part = "monitor" => Monitor!SlowsForCast

\* The device never restarts into a command of an earlier call.
RunsTheLatest == part = "recovery" => Recovery!RunsTheLatest

\* What is queued arrives on a connection that holds; a request comes to its
\* end, and so does the reading of the status.
GoesOn ==
    /\ Stream!Arrives
    /\ Check!RequestReturns
    /\ Recovery!StatusReturns
=============================================================================
