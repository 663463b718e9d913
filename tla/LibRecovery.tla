------------------------------ MODULE LibRecovery ------------------------------
(***************************************************************************)
(* librecovery/librecovery.c: a command is written to the command file of  *)
(* the recovery system and the device is restarted into it                 *)
(* (execRecoveryCommand, on behalf of installFotaUpdate and factoryReset), *)
(* and the result that recovery left is read (safeRead, on behalf of       *)
(* getFotaUpdateStatus).  The text of both files is in RecoveryText.       *)
(***************************************************************************)
EXTENDS Naturals

CONSTANTS
    Wipe,       \* the command line of factoryReset
    Updates,    \* those of installFotaUpdate, one for each package
    FileSize,   \* the length of last_install, in reads that the kernel serves
    MaxCalls,   \* bound: calls of the library
    Empty,      \* a command file with nothing in it
    Cut,        \* a command file that ends within the line
    None

Commands == Updates \cup {Wipe}

RecoveryAssumption ==
    /\ Commands \cap {Empty, Cut, None} = {}
    /\ FileSize \in Nat /\ MaxCalls \in Nat

VARIABLES
    file,      \* the command file
    pc,        \* what the call does next
    command,   \* the command at hand
    lost,      \* history: the flush in fclose failed
    ran,       \* history: what the recovery system found, since the last command
    left,      \* safeRead: how much of the file is still to be read
    errno,     \* whether errno is EINTR; a call that succeeds leaves it alone
    calls      \* how many calls were made

vars == <<file, pc, command, lost, ran, left, errno, calls>>
reading == <<left, errno>>

Init ==
    /\ file \in Commands \cup {None}
    /\ pc = "idle" /\ command = None /\ lost = FALSE /\ ran = None
    /\ left = 0 /\ errno \in BOOLEAN /\ calls = 0

Begin(c) ==
    /\ pc = "idle" /\ calls < MaxCalls /\ calls' = calls + 1
    /\ pc' = "open" /\ command' = c /\ lost' = FALSE /\ ran' = None
    /\ UNCHANGED <<file, reading>>

FactoryReset == Begin(Wipe)

\* installFotaUpdate, of a path that is that of a regular file; with any other
\* it returns -1 and has done nothing.
InstallFotaUpdate(c) == Begin(c)

\* Slip: the file is opened without truncating it.
EmptiedKept == file

\* fopen with "w"
Emptied == Empty

\* mkdir and fopen, or -1.
Open ==
    /\ pc = "open"
    /\ \/ pc' = "write" /\ file' = Emptied
       \/ pc' = "idle" /\ UNCHANGED file
    /\ UNCHANGED <<command, lost, ran, reading, calls>>

\* safeWrite, twice: stdio keeps the text, or a first part of it goes to the
\* file when it exceeds the buffer.  -1 leaves the file as far as it came.
Write ==
    /\ pc = "write"
    /\ file' \in {file, Cut}
    /\ pc' \in {"close", "idle"}
    /\ UNCHANGED <<command, lost, ran, reading, calls>>

\* fclose writes the text out; its result is not looked at.
Close ==
    /\ pc = "close" /\ pc' = "reboot"
    /\ \/ file' = command /\ UNCHANGED lost
       \/ file' \in {file, Cut} /\ lost' = TRUE
    /\ UNCHANGED <<command, ran, reading, calls>>

\* android_reboot; external: recovery runs what it finds and removes the file.
Reboot ==
    /\ pc = "reboot" /\ pc' = "idle"
    /\ \/ ran' = file /\ file' = None
       \/ UNCHANGED <<ran, file>>
    /\ UNCHANGED <<command, lost, reading, calls>>

\* The process is killed.
Kill ==
    /\ pc # "idle" /\ pc' = "idle"
    /\ UNCHANGED <<file, command, lost, ran, reading, calls>>

\* getFotaUpdateStatus has opened last_install.
Status ==
    /\ pc = "idle" /\ calls < MaxCalls /\ calls' = calls + 1
    /\ pc' = "read" /\ left' = FileSize
    /\ UNCHANGED <<file, command, lost, ran, errno>>

\* fread: up to the end of the file, or to where a signal interrupts it.  The
\* file is shorter than the buffer.
ReadTurn ==
    /\ pc = "read" /\ pc' = "test"
    /\ \/ left' = 0 /\ UNCHANGED errno
       \/ left' \in 1 .. left /\ errno' = TRUE
    /\ UNCHANGED <<file, command, lost, ran, calls>>

\* Slip: a read that is shorter than the buffer is repeated.
AgainShort == TRUE

\* The condition of the loop in safeRead.
Again == errno

ReadTest ==
    /\ pc = "test"
    /\ pc' = IF Again THEN "read" ELSE "idle"
    /\ UNCHANGED <<file, command, lost, ran, reading, calls>>

Next ==
    \/ FactoryReset
    \/ \E c \in Updates : InstallFotaUpdate(c)
    \/ Open \/ Write \/ Close \/ Reboot \/ Kill
    \/ Status \/ ReadTurn \/ ReadTest

Spec == Init /\ [][Next]_vars /\ WF_vars(ReadTurn) /\ WF_vars(ReadTest)

\* The device never restarts into a command of an earlier call, nor into a cut
\* one, unless the disk refused the text in fclose.
RunsTheLatest == ran # None => ran = command \/ (lost /\ ran \in {Empty, Cut})

\* While errno is not EINTR, by a signal or left over from before the call,
\* the status is read in one turn and the call returns.
StatusReturns == (pc = "read" /\ ~errno) ~> (pc = "idle" \/ errno)
================================================================================
