---------------------------- MODULE ProcessMonitor ----------------------------
(***************************************************************************)
(* The pause a download makes while a cast application runs: the progress  *)
(* callback (daemon/include/download/DownloadCallback.h) asks              *)
(* ProcessMonitor whether a process of that name is alive, and sleeps if   *)
(* so.  Processes come and go meanwhile.                                   *)
(***************************************************************************)
EXTENDS Integers, Sequences

CONSTANTS
    Pids,       \* process numbers
    Every,      \* of how many progress calls one asks (500)
    Total       \* the size of the transfer, in progress calls

MonitorAssumption == Pids \subseteq Nat \ {0} /\ Every \in Nat \ {0} /\ Total \in Nat

VARIABLES
    procs,      \* external: the name of the process of each pid, or "none"
    now,        \* the progress of the transfer
    counter,    \* DownloadCallback's counter, modulo Every
    at,         \* the callback: "idle", "popen", "kill", "done"
    line,       \* the first line that the command printed, if any
    result,     \* CheckCertainProcessAlive's result
    since,      \* history: the pids that have had the name ever since the call
    seen        \* history: the pids that had it at some time since the call

vars == <<procs, now, counter, at, line, result, since, seen>>

Names == {"none", "cast", "caster", "other"}

\* What grep lets through: the names that contain "cast".
Matching(p) == {pid \in Pids : p[pid] \in {"cast", "caster"}}

\* A line of b2g-ps in words: name, security, user and pid, the last a number.
\* Two texts that atoi makes 0 stand for the second and the third.
LineOf(p, pid) == <<p[pid], 0, 0, pid>>

-----------------------------------------------------------------------------
Init ==
    /\ procs = [pid \in Pids |-> "none"] /\ now = 0 /\ counter = 0 /\ at = "idle"
    /\ line = << >> /\ result = FALSE /\ since = {} /\ seen = {}

\* A process starts, ends or takes another name.
Environment ==
    /\ \E pid \in Pids, n \in Names : procs' = [procs EXCEPT ![pid] = n]
    /\ since' = since \cap Matching(procs')
    /\ seen' = IF at \in {"popen", "kill"} THEN seen \cup Matching(procs') ELSE seen
    /\ UNCHANGED <<now, counter, at, line, result>>

\* onDownloadProgress to the test of its counter.
Progress ==
    /\ at = "idle" /\ now < Total /\ now' = now + 1
    /\ counter' = (counter + 1) % Every
    /\ at' = IF counter' = 0 \/ now' = Total THEN "popen" ELSE "idle"
    /\ since' = Matching(procs) /\ seen' = Matching(procs)
    /\ UNCHANGED <<procs, line, result>>

\* popen and one fgets: whichever line comes first, or none, or the command
\* cannot be executed.
Popen ==
    /\ at = "popen" /\ result' = FALSE
    /\ \/ \E pid \in Matching(procs) :
             line' = LineOf(procs, pid) /\ at' = "kill" /\ UNCHANGED since
       \/ Matching(procs) = {} /\ line' = << >> /\ at' = "done" /\ UNCHANGED since
       \/ line' = << >> /\ at' = "done" /\ since' = {}
    /\ UNCHANGED <<procs, now, counter, seen>>

\* Slip: the column in front of it.
UserColumn(text) == text[3]

PidColumn(text) == text[4]

\* kill(pid, 0), whose result is only logged, and the return.
Kill ==
    /\ at = "kill" /\ at' = "done" /\ result' = (PidColumn(line) # 0)
    /\ UNCHANGED <<procs, now, counter, line, since, seen>>

\* The callback sleeps if the answer was yes, and returns.
Return ==
    /\ at = "done" /\ at' = "idle" /\ line' = << >> /\ result' = FALSE
    /\ since' = {} /\ seen' = {} /\ UNCHANGED <<procs, now, counter>>

Next == Environment \/ Progress \/ Popen \/ Kill \/ Return

Spec == Init /\ [][Next]_vars

-----------------------------------------------------------------------------
\* The transfer is slowed whenever a process of the name was there all through
\* the call, if the command could be executed, and only if one was there at
\* some time during it (CheckCertainProcessAlive).
SlowsForCast == at = "done" => (since # {} => result) /\ (result => seen # {})
=============================================================================
