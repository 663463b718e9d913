------------------------------- MODULE BootCell -------------------------------
(***************************************************************************)
(* What the update relies on in the boot message (RecoveryManager): one    *)
(* cell that a call sets.  A call that returns success has set it.  A call *)
(* that fails, or that a loss of power ends, has set it or not, or has     *)
(* damaged it; nothing changes it between the calls.                       *)
(***************************************************************************)
CONSTANTS Messages, Damaged   \* Damaged: what an interrupted write may leave

VARIABLES cell, call, result

Idle == "idle"

Init ==
    /\ cell \notin Messages
    /\ call = Idle
    /\ result = "none"

Begin(m) ==
    /\ call = Idle
    /\ call' = m
    /\ result' = "none"
    /\ UNCHANGED cell

Change ==
    /\ call # Idle
    /\ cell' \in Damaged \cup {cell, call}
    /\ UNCHANGED <<call, result>>

Succeed ==
    /\ call # Idle /\ cell = call
    /\ result' = "ok" /\ call' = Idle
    /\ UNCHANGED cell

\* The call fails, or the power goes while it writes.
Fail ==
    /\ call # Idle
    /\ cell' \in Damaged \cup {cell, call}
    /\ result' \in {"failed", "lost"} /\ call' = Idle

Next == (\E m \in Messages : Begin(m)) \/ Change \/ Succeed \/ Fail

Spec == Init /\ [][Next]_<<cell, call, result>>
===============================================================================
