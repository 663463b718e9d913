------------------------------ MODULE OtaUpdate ------------------------------
(***************************************************************************)
(* The life of an update: the checker thread (check_thread and what it     *)
(* calls, daemon/src/main.cpp 306-521), the worker thread that downloads   *)
(* (daemon/src/download/Downloader.cpp), the files they keep, the boot     *)
(* message that arms the recovery system, and the start of the daemon      *)
(* after a crash, a power loss or a recovery run.                          *)
(*                                                                         *)
(* Content is what md5 can tell apart: the first len units of a version,   *)
(* or Junk.  A file carries the name it has in the fota directory.         *)
(***************************************************************************)
EXTENDS Naturals, FiniteSets

CONSTANTS
    Urls, Versions, Names,
    NameOf,     \* the name u_trimUrlGetName cuts from a URL
    Size,       \* the size of a version, in transfer units
    MaxRetry,   \* DOWNLOAD_RETRY_TIMES (10 in the code)
    MaxLength,  \* bound: a file that would grow beyond it stays at it
    Events,     \* what may happen in a run: a subset of AllEvents
    Junk,       \* content that is no prefix of a version
    Torn,       \* task_info.txt when it does not parse
    None        \* no file, no task, no offer, no boot message

AllEvents == {"kill", "reboot", "republish", "network", "misc", "thread"}

ASSUME OtaAssumption ==
    /\ NameOf \in [Urls -> Names]
    /\ Size \in [Versions -> Nat \ {0}]
    /\ MaxRetry \in Nat
    /\ MaxLength \in Nat
    /\ \A v \in Versions : Size[v] < MaxLength
    /\ Events \subseteq AllEvents
    /\ Junk \notin Versions
    /\ Torn # None
    /\ None \notin Names

VARIABLES
    web,      \* external: the version each URL serves
    system,   \* external: the version the device runs
    stable,   \* history: from now on none of the Events happens
    faults,   \* history: what has gone wrong and was not reported to anyone
    file,     \* the package in the fota directory
    info,     \* task_info.txt
    dirty,    \* whether file or info were written since the last sync
    misc,     \* the package the boot message names, or None
    marker,   \* external: /cache/update.suc ("success") or update.err ("failed")
    notice,   \* the last message queued for home
    ck,       \* the checker thread, and main before it: what it does next
    rr,       \* the RequireResult at hand
    task,     \* the DownloadTask at hand
    tid,      \* whether m_ThreadId is set
    result,   \* m_bResult
    wk,       \* the worker thread: what it does next
    retry,    \* its retryCounter
    xfer      \* its transfer: [ver, from, now, end]

env     == <<web, system, stable>>
disk    == <<file, info, dirty>>
boot    == <<misc, marker>>
checker == <<ck, rr, notice>>
shared  == <<task, tid, result>>
worker  == <<wk, retry, xfer>>
vars    == <<env, faults, disk, boot, checker, shared, worker>>

-----------------------------------------------------------------------------
(* Data *)

Lengths == 0 .. MaxLength
Contents == Versions \cup {Junk}
Files == [name : Names, ver : Contents, len : Lengths]
Tasks == [url : Urls, size : Lengths, md5 : Versions, progress : Lengths]
Offers == [url : Urls, size : Lengths, md5 : Versions]
Transfers == [ver : Contents, from : Lengths, now : Lengths, end : Lengths]

ASSUME NoTaskAssumption ==
    None \notin Tasks /\ Torn \notin Tasks /\ None \notin Offers

CheckerStates ==
    {"start", "startClean", "idle", "create", "newClear", "newClean", "run",
     "tellClear", "readTid", "join", "result", "arm", "tellReady",
     "failClear", "tellFail", "failClean", "delete"}

WorkerStates ==
    {"none", "head", "initClean", "get", "xfer", "backup", "sync", "clean",
     "cleanTid", "done"}

Notices == {"none", "upgraded", "upgradeFailed", "clear", "ready", "failed"}

TypeOK ==
    /\ web \in [Urls -> Versions]
    /\ system \in Versions
    /\ stable \in BOOLEAN
    /\ faults \subseteq {"misc", "thread", "cut"}
    /\ file \in Files \cup {None}
    /\ info \in Tasks \cup {None, Torn}
    /\ dirty \in BOOLEAN
    /\ misc \in Names \cup {None}
    /\ marker \in {"none", "success", "failed"}
    /\ notice \in Notices
    /\ ck \in CheckerStates
    /\ rr \in Offers \cup {None}
    /\ task \in Tasks \cup {None}
    /\ tid \in BOOLEAN
    /\ result \in BOOLEAN
    /\ wk \in WorkerStates
    /\ retry \in 0 .. MaxRetry
    /\ xfer \in Transfers \cup {None}

\* A file of that name is the whole of version v: what compareMd5 finds out.
Intact(f, name, v) == f = [name |-> name, ver |-> v, len |-> Size[v]]

Path(t) == NameOf[t.url]

\* fopen with "w".
Emptied(name) == [name |-> name, ver |-> Junk, len |-> 0]

Cap(n) == IF n > MaxLength THEN MaxLength ELSE n

\* saveToFile: unit number pos + 1 of version v is written at the end of f.
Extended(f, v, pos) ==
    [name |-> f.name,
     ver |-> IF f.len = pos /\ (pos = 0 \/ f.ver = v) THEN v ELSE Junk,
     len |-> Cap(f.len + 1)]

Init ==
    /\ web \in [Urls -> Versions]
    /\ system \in Versions
    /\ stable = FALSE
    /\ faults = {}
    /\ file = None /\ info = None /\ dirty = FALSE
    /\ misc = None /\ marker = "none"
    /\ ck = "start" /\ rr = None /\ notice = "none"
    /\ task = None /\ tid = FALSE /\ result = FALSE
    /\ wk = "none" /\ retry = 0 /\ xfer = None

Possible(event) == event \in Events /\ ~stable

-----------------------------------------------------------------------------
(* What several parts of the code do *)

\* set_bootloader_message_mtd.  When it fails the misc partition stays as it
\* is, and neither WriteRecoveryCommand nor ClearRecoveryCommand says so.
SetBootMessage(value) ==
    /\ \/ misc' = value /\ UNCHANGED faults
       \/ Possible("misc") /\ faults' = faults \cup {"misc"} /\ UNCHANGED misc
    /\ UNCHANGED marker

\* fs_CleanDir: rm -rf removes one file after the other.
RemoveOne ==
    /\ \/ file # None /\ file' = None /\ UNCHANGED info
       \/ info # None /\ info' = None /\ UNCHANGED file
    /\ UNCHANGED dirty

Emptydir == file = None /\ info = None

-----------------------------------------------------------------------------
(* The start of the daemon *)

\* IsRecoverySuccess and IsRecoveryFailed delete the marker; the result is
\* queued for home and the package is removed.
TellUpgrade ==
    /\ ck = "start"
    /\ marker # "none"
    /\ notice' = IF marker = "success" THEN "upgraded" ELSE "upgradeFailed"
    /\ marker' = "none"
    /\ ck' = "startClean"
    /\ UNCHANGED <<env, faults, disk, misc, rr, shared, worker>>

StartQuietly ==
    /\ ck = "start"
    /\ marker = "none"
    /\ ck' = "idle"
    /\ UNCHANGED <<env, faults, disk, boot, rr, notice, shared, worker>>

\* Slip: the old package stays.
StartCleanSkipped ==
    /\ ck = "startClean"
    /\ ck' = "idle"
    /\ UNCHANGED <<env, faults, disk, boot, rr, notice, shared, worker>>

StartClean ==
    /\ ck = "startClean"
    /\ \/ RemoveOne /\ UNCHANGED ck
       \/ Emptydir /\ ck' = "idle" /\ UNCHANGED disk
    /\ UNCHANGED <<env, faults, boot, rr, notice, shared, worker>>

-----------------------------------------------------------------------------
(* The checker thread: requireUpdatePackage and createDownloadTask *)

\* The server offers the package at u to a device that runs something else.
\* A check that yields no offer changes nothing.
Offer(u) ==
    /\ ck = "idle"
    /\ web[u] # system
    /\ rr' = [url |-> u, size |-> Size[web[u]], md5 |-> web[u]]
    /\ ck' = "create"
    /\ UNCHANGED <<env, faults, disk, boot, notice, shared, worker>>

\* task_info.txt loads, and the file it names is there.
Found == info \in Tasks /\ file # None /\ file.name = Path(info)
Complete == Found /\ file.len = info.size
Ready == Complete /\ Intact(file, Path(info), info.md5)

\* Progress matches: isNew is FALSE again, whatever was found before about
\* the URL and the size of the offer (425-437).
Resumable == Found /\ ~Complete /\ file.len = info.progress

CreateReady ==
    /\ ck = "create"
    /\ Ready
    /\ task' = info
    /\ ck' = "arm"
    /\ UNCHANGED <<env, faults, disk, boot, rr, notice, tid, result, worker>>

CreateResume ==
    /\ ck = "create"
    /\ Resumable
    /\ task' = info
    /\ ck' = "run"
    /\ UNCHANGED <<env, faults, disk, boot, rr, notice, tid, result, worker>>

CreateNew ==
    /\ ck = "create"
    /\ ~Ready /\ ~Resumable
    /\ ck' = "newClear"
    /\ UNCHANGED <<env, faults, disk, boot, rr, notice, shared, worker>>

\* Slip: the boot message is left as it is.
NewClearForgotten ==
    /\ ck = "newClear"
    /\ ck' = "newClean"
    /\ UNCHANGED <<env, faults, disk, boot, rr, notice, shared, worker>>

NewClear ==
    /\ ck = "newClear"
    /\ SetBootMessage(None)
    /\ ck' = "newClean"
    /\ UNCHANGED <<env, disk, rr, notice, shared, worker>>

NewClean ==
    /\ ck = "newClean"
    /\ \/ RemoveOne /\ UNCHANGED <<ck, task>>
       \/ /\ Emptydir
          /\ task' = [url |-> rr.url, size |-> rr.size, md5 |-> rr.md5,
                      progress |-> 0]
          /\ ck' = "run"
          /\ UNCHANGED disk
    /\ UNCHANGED <<env, faults, boot, rr, notice, tid, result, worker>>

-----------------------------------------------------------------------------
(* The checker thread: one download, from Run to the end of the round *)

Run ==
    /\ ck = "run"
    /\ result' = FALSE
    /\ \/ /\ ck' = "tellClear" /\ tid' = TRUE
          /\ wk' = "head" /\ retry' = 0
          /\ UNCHANGED faults
       \/ /\ Possible("thread") /\ faults' = faults \cup {"thread"}
          /\ ck' = "delete" /\ tid' = FALSE
          /\ UNCHANGED <<wk, retry>>
    /\ UNCHANGED <<env, disk, boot, rr, notice, task, xfer>>

TellClear ==
    /\ ck = "tellClear"
    /\ notice' = "clear"
    /\ ck' = "readTid"
    /\ UNCHANGED <<env, faults, disk, boot, rr, shared, worker>>

\* GetWorkerId may already read what Clean has reset: then nobody is joined.
ReadTid ==
    /\ ck = "readTid"
    /\ ck' = IF tid THEN "join" ELSE "result"
    /\ UNCHANGED <<env, faults, disk, boot, rr, notice, shared, worker>>

Join ==
    /\ ck = "join"
    /\ wk = "done"
    /\ ck' = "result"
    /\ UNCHANGED <<env, faults, disk, boot, rr, notice, shared, worker>>

\* Slip: IsSuccess alone decides.
JudgeByResult ==
    /\ ck = "result"
    /\ ck' = IF result THEN "arm" ELSE "failClear"
    /\ UNCHANGED <<env, faults, disk, boot, rr, notice, shared, worker>>

Judge ==
    /\ ck = "result"
    /\ ck' = IF result /\ Intact(file, Path(task), task.md5)
             THEN "arm" ELSE "failClear"
    /\ UNCHANGED <<env, faults, disk, boot, rr, notice, shared, worker>>

\* writeBootMessage, after a download (347) as well as for a package that is
\* found complete (477).
Arm ==
    /\ ck = "arm"
    /\ SetBootMessage(Path(task))
    /\ ck' = "tellReady"
    /\ UNCHANGED <<env, disk, rr, notice, shared, worker>>

TellReady ==
    /\ ck = "tellReady"
    /\ notice' = "ready"
    /\ ck' = "delete"
    /\ UNCHANGED <<env, faults, disk, boot, rr, shared, worker>>

FailClear ==
    /\ ck = "failClear"
    /\ SetBootMessage(None)
    /\ ck' = "tellFail"
    /\ UNCHANGED <<env, disk, rr, notice, shared, worker>>

TellFail ==
    /\ ck = "tellFail"
    /\ notice' = "failed"
    /\ ck' = "failClean"
    /\ UNCHANGED <<env, faults, disk, boot, rr, shared, worker>>

FailClean ==
    /\ ck = "failClean"
    /\ \/ RemoveOne /\ UNCHANGED ck
       \/ Emptydir /\ ck' = "delete" /\ UNCHANGED disk
    /\ UNCHANGED <<env, faults, boot, rr, notice, shared, worker>>

Delete ==
    /\ ck = "delete"
    /\ ck' = "idle"
    /\ rr' = None /\ task' = None /\ tid' = FALSE /\ result' = FALSE
    /\ UNCHANGED <<env, faults, disk, boot, notice, worker>>

-----------------------------------------------------------------------------
(* The worker thread: thread_worker and the callbacks *)

\* Slip: nobody looks at the number of retries.
RetryForever(again) == retry' = retry + 1 /\ wk' = again

\* Slip: the counter is not increased.
RetryUncounted(again) == wk' = again /\ UNCHANGED retry

\* A step that fails is tried again MaxRetry times; then onDownloadFailed.
RetryOrFail(again) ==
    IF retry < MaxRetry
    THEN retry' = retry + 1 /\ wk' = again
    ELSE wk' = "clean" /\ UNCHANGED retry

HeadFails ==
    /\ wk = "head"
    /\ Possible("network")
    /\ RetryOrFail("head")
    /\ UNCHANGED <<env, faults, disk, boot, checker, shared, xfer>>

\* RequireFileSize, and onDownloadInit: a size that is not the expected one
\* starts the download over.
HeadOk ==
    /\ wk = "head"
    /\ retry' = 0
    /\ LET size == Size[web[task.url]] IN
         \/ /\ size = task.size
            /\ wk' = "get"
            /\ UNCHANGED task
         \/ /\ size # task.size
            /\ wk' = "initClean"
            /\ task' = [task EXCEPT !.size = size, !.progress = 0]
    /\ UNCHANGED <<env, faults, disk, boot, checker, tid, result, xfer>>

InitClean ==
    /\ wk = "initClean"
    /\ \/ RemoveOne /\ UNCHANGED wk
       \/ Emptydir /\ wk' = "get" /\ UNCHANGED disk
    /\ UNCHANGED <<env, faults, boot, checker, shared, retry, xfer>>

\* "already download finished": success, without m_bResult being set.
GetFinished ==
    /\ wk = "get"
    /\ task.progress = task.size
    /\ wk' = "sync"
    /\ UNCHANGED <<env, faults, disk, boot, checker, shared, retry, xfer>>

\* fopen with "a" or "w", as there is something to resume or not.
Opened ==
    IF task.progress = 0 \/ file = None THEN Emptied(Path(task)) ELSE file

\* The request goes out.  The server answers with the rest of what it serves
\* by now, or, when there is no such rest or it has a bad day, with a page of
\* one unit that says so; the code appends that as well.
GetStart ==
    /\ wk = "get"
    /\ task.progress # task.size
    /\ file' = Opened
    /\ dirty' = TRUE
    /\ LET from == task.progress
           ver == web[task.url]
       IN \/ /\ from < Size[ver]
             /\ xfer' = [ver |-> ver, from |-> from, now |-> 0,
                         end |-> Size[ver]]
          \/ /\ from >= Size[ver] \/ Possible("network")
             /\ xfer' = [ver |-> Junk, from |-> from, now |-> 0,
                         end |-> Cap(from + 1)]
    /\ wk' = "xfer"
    /\ UNCHANGED <<env, faults, info, boot, checker, shared, retry>>

\* No curl handle, or the file cannot be opened.
GetFails ==
    /\ wk = "get"
    /\ task.progress # task.size
    /\ Possible("network")
    /\ result' = FALSE
    /\ RetryOrFail("get")
    /\ UNCHANGED <<env, faults, disk, boot, checker, task, tid, xfer>>

Receive ==
    /\ wk = "xfer"
    /\ xfer.from + xfer.now < xfer.end
    /\ file' = Extended(file, xfer.ver, xfer.from + xfer.now)
    /\ xfer' = [xfer EXCEPT !.now = @ + 1]
    /\ dirty' = TRUE
    /\ UNCHANGED <<env, faults, info, boot, checker, shared, wk, retry>>

\* onDownloadProgress, now and then, and its Backup: opening task_info.txt
\* truncates it.
Progress ==
    /\ wk = "xfer"
    /\ task' = [task EXCEPT !.progress = xfer.from + xfer.now]
    /\ info' = Torn
    /\ dirty' = TRUE
    /\ wk' = "backup"
    /\ UNCHANGED <<env, faults, file, boot, checker, tid, result, retry, xfer>>

Backup ==
    /\ wk = "backup"
    /\ info' = task
    /\ wk' = "xfer"
    /\ UNCHANGED <<env, faults, file, dirty, boot, checker, shared, retry, xfer>>

\* Slip: m_bResult is not set.
TransferEndsMute ==
    /\ wk = "xfer"
    /\ xfer.from + xfer.now = xfer.end
    /\ xfer.ver # Junk
    /\ xfer.end = task.size
    /\ wk' = "sync"
    /\ UNCHANGED <<env, faults, disk, boot, checker, shared, retry, xfer>>

\* Everything was received, the status is 200 or 206, and the size adds up.
TransferEnds ==
    /\ wk = "xfer"
    /\ xfer.from + xfer.now = xfer.end
    /\ xfer.ver # Junk
    /\ xfer.end = task.size
    /\ result' = TRUE
    /\ wk' = "sync"
    /\ xfer' = None
    /\ UNCHANGED <<env, faults, disk, boot, checker, task, tid, retry>>

\* The connection breaks, or one of the three conditions does not hold.
TransferFails ==
    /\ wk = "xfer"
    /\ \/ Possible("network")
       \/ /\ xfer.from + xfer.now = xfer.end
          /\ xfer.ver = Junk \/ xfer.end # task.size
    /\ result' = FALSE
    /\ xfer' = None
    /\ RetryOrFail("get")
    /\ UNCHANGED <<env, faults, disk, boot, checker, task, tid>>

\* Slip: the data is not brought to the disk.
SyncForgotten ==
    /\ wk = "sync"
    /\ wk' = "done"
    /\ UNCHANGED <<env, faults, disk, boot, checker, shared, retry, xfer>>

Sync ==
    /\ wk = "sync"
    /\ dirty' = FALSE
    /\ wk' = "done"
    /\ UNCHANGED <<env, faults, file, info, boot, checker, shared, retry, xfer>>

\* Slip: m_ThreadId is reset before the pointers.
CleanTidFirst ==
    /\ wk = "clean"
    /\ tid' = FALSE
    /\ wk' = "cleanTid"
    /\ UNCHANGED <<env, faults, disk, boot, checker, task, result, retry, xfer>>

\* Clean: m_TaskInfo and m_Callback, then m_ThreadId.  Past that the worker
\* touches nothing of the downloader.
Clean ==
    /\ wk = "clean"
    /\ wk' = "cleanTid"
    /\ UNCHANGED <<env, faults, disk, boot, checker, shared, retry, xfer>>

CleanTid ==
    /\ wk = "cleanTid"
    /\ tid' = FALSE
    /\ wk' = "done"
    /\ UNCHANGED <<env, faults, disk, boot, checker, task, result, retry, xfer>>

-----------------------------------------------------------------------------
(* The world *)

Republish(u, v) ==
    /\ Possible("republish")
    /\ web[u] # v
    /\ web' = [web EXCEPT ![u] = v]
    /\ UNCHANGED <<system, stable, faults, disk, boot, checker, shared, worker>>

\* The daemon is started anew.  Messages still queued die with the old one.
Restart ==
    /\ ck' = "start" /\ rr' = None /\ notice' = "none"
    /\ task' = None /\ tid' = FALSE /\ result' = FALSE
    /\ wk' = "none" /\ retry' = 0 /\ xfer' = None
    /\ faults' = IF ck = "startClean" THEN faults \cup {"cut"} ELSE faults

\* The process dies; what it has written is in the hands of the kernel.
Kill ==
    /\ Possible("kill")
    /\ Restart
    /\ UNCHANGED <<env, disk, boot>>

\* What a loss of power may leave of data that was not synced.
LeftOfFile ==
    IF file = None THEN {None}
    ELSE {None, [file EXCEPT !.ver = Junk]}
             \cup {[file EXCEPT !.len = n] : n \in 0 .. file.len}

LeftOfInfo == IF info = None THEN {None} ELSE {None, Torn, info}

\* The device boots: into the recovery system if the boot message says so,
\* which installs the package it finds, or fails, and clears the message.
Reboot ==
    /\ Possible("reboot")
    /\ Restart
    /\ file' \in IF dirty THEN LeftOfFile ELSE {file}
    /\ info' \in IF dirty THEN LeftOfInfo ELSE {info}
    /\ dirty' = FALSE
    /\ \/ misc = None /\ UNCHANGED <<system, marker>>
       \/ \E v \in Versions :
             misc # None /\ Intact(file', misc, v)
             /\ system' = v /\ marker' = "success"
       \/ /\ misc # None
          /\ \A v \in Versions : ~Intact(file', misc, v)
          /\ marker' = "failed"
          /\ UNCHANGED system
    /\ misc' = None
    /\ UNCHANGED <<web, stable>>

\* No more trouble from here on.
Settle ==
    /\ ~stable
    /\ stable' = TRUE
    /\ UNCHANGED <<web, system, faults, disk, boot, checker, shared, worker>>

-----------------------------------------------------------------------------
CheckerStep ==
    \/ TellUpgrade \/ StartQuietly \/ StartClean
    \/ CreateReady \/ CreateResume \/ CreateNew \/ NewClear \/ NewClean
    \/ Run \/ TellClear \/ ReadTid \/ Join \/ Judge
    \/ Arm \/ TellReady
    \/ FailClear \/ TellFail \/ FailClean
    \/ Delete

WorkerStep ==
    \/ HeadFails \/ HeadOk \/ InitClean
    \/ GetFinished \/ GetStart \/ GetFails
    \/ Receive \/ Progress \/ Backup \/ TransferEnds \/ TransferFails
    \/ Sync \/ Clean \/ CleanTid

World ==
    \/ \E u \in Urls, v \in Versions : Republish(u, v)
    \/ Kill \/ Reboot \/ Settle

Next ==
    \/ CheckerStep
    \/ \E u \in Urls : Offer(u)
    \/ WorkerStep
    \/ World

Spec == Init /\ [][Next]_vars
-----------------------------------------------------------------------------
(* Safety *)

\* The boot message names a whole package of a version for as long as it is
\* there: createDownloadTask clears it before it removes files (509-510), the
\* worker never opens a package it names, and a package found at the start is
\* named only after its md5 was compared (473-477).  The exception is a boot
\* message that could not be cleared.
ArmedIsIntact ==
    misc # None /\ "misc" \notin faults => \E v \in Versions : Intact(file, misc, v)

\* The checker looks at m_bResult and at the package, and deletes what the
\* worker uses, only when the worker is through with it: GetWorkerId may skip
\* the join (337-340), but only if Clean has already come to its end.
ResultIsFinal ==
    wk \notin {"none", "done"} => ck \in {"tellClear", "readTid", "join"}

\* What home was told last is true.  "Ready" may be outlived by the boot
\* message only while a new download is being set up, which ends in the
\* notice "clear" -- if the worker thread can be started.
SettingUp == {"newClean", "run", "tellClear"}

NoticeIsTrue ==
    /\ notice = "ready" /\ faults \cap {"misc", "thread"} = {} =>
          misc # None \/ ck \in SettingUp
    /\ notice \in {"clear", "failed"} /\ "misc" \notin faults =>
          misc = None \/ ck = "tellReady"

\* A package that was installed is not armed again.  The exception is a
\* daemon that went down between the removal of the marker and the end of the
\* clean-up (main.cpp:96-99).
NoReinstall ==
    misc # None /\ faults \cap {"cut", "misc"} = {} => ~Intact(file, misc, system)

\* With the sync before onDownloadSuccess (Downloader.cpp:110-114), recovery
\* finds what was announced even after a loss of power.
RecoveryFindsPackage == marker = "failed" => "misc" \in faults

\* main.cpp:323, "create download task by RequestResult": what is downloaded
\* or armed is the version that was offered in this round.
TaskMatchesOffer == ck \in {"run", "arm"} => task.md5 = rr.md5

\* Downloader.cpp:202, "already download finished", and 113, "callback
\* success": a download that is through counts as a success.
FinishedIsSuccess == wk = "sync" => result

-----------------------------------------------------------------------------
(* Liveness.  The threads that can run do run; a transfer under way goes on  *)
(* or breaks, though the code sets no limit to how long it may stand still;  *)
(* and the server keeps offering what the device does not run.               *)

Fairness ==
    /\ WF_vars(CheckerStep)
    /\ WF_vars(\E u \in Urls : Offer(u))
    /\ WF_vars(WorkerStep)
    /\ SF_vars(Receive \/ TransferEnds \/ TransferFails)

FairSpec == Spec /\ Fairness

\* Every round of the checker ends, whatever the network does.
RoundEnds == ck # "idle" ~> ck = "idle"

\* Whatever has happened, and whatever it has left on the disk: when it is
\* over, a device that is offered another version comes to be armed.
SomethingOffered == \E u \in Urls : web[u] # system
ArmedInTheEnd == stable ~> misc # None \/ ~SomethingOffered
=============================================================================
