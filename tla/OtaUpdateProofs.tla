--------------------------- MODULE OtaUpdateProofs ---------------------------
(***************************************************************************)
(* What a round of the checker leaves to the recovery system, for any URLs *)
(* and versions, any number of retries and whatever Events may happen.     *)
(***************************************************************************)
EXTENDS OtaUpdate, TLAPS

-----------------------------------------------------------------------------
(* The inductive invariant *)

Working == wk \notin {"none", "done"}

\* An offer, a task, a file and a transfer are there when they are used.
Present ==
    /\ ck \in {"create", "newClear", "newClean"} => rr \in Offers
    /\ ck \in {"run", "tellClear", "readTid", "join", "result", "arm"} =>
          task \in Tasks
    /\ wk \in {"xfer", "backup"} =>
          /\ file \in Files
          /\ xfer \in Transfers
          /\ xfer.from + xfer.now <= xfer.end

\* While the worker is at work the checker stays away, and Clean has not yet
\* reset m_ThreadId.
HandedOver ==
    Working => ck \in {"tellClear", "readTid", "join"} /\ tid

\* m_bResult is set by nothing but a transfer that came to its end.
EarlyResult == Working /\ wk # "sync" => ~result

\* From Run on, the task on disk is the task at hand but for the progress.
Judging ==
    ck \in {"run", "tellClear", "readTid", "join", "result"}

InfoIsTask ==
    Judging /\ wk # "initClean" /\ info \in Tasks =>
        info.size = task.size /\ info.url = task.url

\* What has come in since the request continues the file, or spoils it.
FileFollows ==
    /\ wk \in {"xfer", "backup"} /\ xfer.ver # Junk => xfer.from < xfer.end
    /\ wk \in {"xfer", "backup"} /\ xfer.now > 0 /\ file.ver # Junk =>
          file.len = xfer.from + xfer.now
    /\ Judging /\ ck # "run" /\ result =>
          file \in Files /\ (file.ver # Junk => file.len = task.size)

\* A package nothing will touch: were it resumed, it would be found complete.
Whole(name) ==
    /\ \E v \in Versions : Intact(file, name, v)
    /\ info \in Tasks /\ Path(info) = name => info.size = file.len

\* No boot message stands while files are removed or written.
Disarmed ==
    \/ marker # "none"
    \/ ck \in {"startClean", "newClean", "run", "tellClear", "readTid", "join",
               "result", "failClear", "tellFail", "failClean"}

ArmedIsWhole ==
    /\ marker # "none" => ck = "start"
    /\ ck = "arm" => Whole(Path(task))
    /\ misc # None /\ "misc" \notin faults => Whole(misc) /\ ~Disarmed

IInv ==
    /\ TypeOK
    /\ Present
    /\ HandedOver
    /\ EarlyResult
    /\ InfoIsTask
    /\ FileFollows
    /\ ArmedIsWhole
-----------------------------------------------------------------------------
(* Type correctness *)

LEMMA Numbers ==
    /\ Lengths \subseteq Nat
    /\ 0 \in Lengths
    /\ \A v \in Versions : Size[v] \in Lengths /\ Size[v] > 0
    /\ \A n \in Nat : Cap(n) \in Lengths
    /\ \A n \in Lengths : Cap(n) = n
BY OtaAssumption DEF Lengths, Cap

LEMMA FileFacts ==
    /\ \A name \in Names : Emptied(name) \in Files
    /\ \A f \in Files, v \in Contents, n \in Nat : Extended(f, v, n) \in Files
<1>1. ASSUME NEW name \in Names PROVE Emptied(name) \in Files
  BY Numbers DEF Files, Contents, Emptied
<1>2. ASSUME NEW f \in Files, NEW v \in Contents, NEW n \in Nat
      PROVE  Extended(f, v, n) \in Files
  <2>1. f.name \in Names /\ f.len \in Lengths
    BY DEF Files
  <2>2. f.len + 1 \in Nat
    BY <2>1, OtaAssumption DEF Lengths
  <2>3. Junk \in Contents
    BY DEF Contents
  <2>. QED BY <2>1, <2>2, <2>3, Numbers DEF Files, Extended
<1>. QED BY <1>1, <1>2

LEMMA TaskFacts ==
    \A t \in Tasks :
        /\ Path(t) \in Names
        /\ t.url \in Urls /\ t.size \in Lengths
        /\ t.md5 \in Versions /\ t.progress \in Lengths
        /\ \A n \in Lengths : [t EXCEPT !.progress = n] \in Tasks
        /\ \A n, m \in Lengths :
              [t EXCEPT !.size = n, !.progress = m] \in Tasks
BY OtaAssumption DEF Tasks, Path

LEMMA TransferFacts ==
    /\ \A v \in Contents, m, n \in Lengths :
          [ver |-> v, from |-> m, now |-> 0, end |-> n] \in Transfers
    /\ \A x \in Transfers :
          /\ x.ver \in Contents
          /\ x.from \in Nat /\ x.now \in Nat /\ x.end \in Lengths
          /\ x.from + x.now \in Nat
          /\ x.from + x.now <= x.end => x.from + x.now \in Lengths
          /\ x.from + x.now < x.end =>
                /\ [x EXCEPT !.now = @ + 1] \in Transfers
                /\ x.from + (x.now + 1) <= x.end
<1>1. \A v \in Contents, m, n \in Lengths :
          [ver |-> v, from |-> m, now |-> 0, end |-> n] \in Transfers
  BY Numbers DEF Transfers
<1>2. ASSUME NEW x \in Transfers
      PROVE  /\ x.ver \in Contents
             /\ x.from \in Nat /\ x.now \in Nat /\ x.end \in Lengths
             /\ x.from + x.now \in Nat
             /\ x.from + x.now <= x.end => x.from + x.now \in Lengths
  BY OtaAssumption DEF Transfers, Lengths
<1>3. ASSUME NEW x \in Transfers, x.from + x.now < x.end
      PROVE  /\ [x EXCEPT !.now = @ + 1] \in Transfers
             /\ x.from + (x.now + 1) <= x.end
  <2>1. x.now + 1 \in Lengths
    BY <1>3, OtaAssumption DEF Transfers, Lengths
  <2>. QED BY <1>3, <2>1, Numbers DEF Transfers
<1>. QED BY <1>1, <1>2, <1>3

\* What the SMT solver leaves to Zenon: truth values, and the history.
Flags ==
    /\ stable \in BOOLEAN /\ dirty \in BOOLEAN
    /\ tid \in BOOLEAN /\ result \in BOOLEAN
    /\ faults \subseteq {"misc", "thread", "cut"}
    /\ Working => tid

Typed == TypeOK /\ Present /\ HandedOver

LEMMA TypeInit == Init => Typed
<1> SUFFICES ASSUME Init PROVE Typed
  OBVIOUS
<1>1. Flags
  BY Zenon DEF Init, Flags, Working
<1>2. web \in [Urls -> Versions] /\ retry \in 0 .. MaxRetry
  BY OtaAssumption DEF Init
<1>. QED
  BY <1>1, <1>2
  DEF Init, Flags, Typed, TypeOK, Present, HandedOver, Working, CheckerStates,
      WorkerStates, Notices

LEMMA TypeChecker == Typed /\ CheckerStep => Typed'
<1> SUFFICES ASSUME Typed, CheckerStep PROVE Typed'
  OBVIOUS
<1> USE OtaAssumption
    DEF Typed, TypeOK, Present, HandedOver, Working, CheckerStates,
        WorkerStates, Notices, env, disk, boot, shared, worker
<1>0. Flags
  BY DEF Flags
<1>1. CASE TellUpgrade
  BY <1>1 DEF TellUpgrade
<1>2. CASE StartQuietly
  BY <1>2 DEF StartQuietly
<1>3. CASE StartClean
  BY <1>3 DEF StartClean, RemoveOne, Emptydir
<1>4. CASE CreateReady
  BY <1>4 DEF CreateReady, Ready, Complete, Found
<1>5. CASE CreateResume
  BY <1>5 DEF CreateResume, Resumable, Complete, Found
<1>6. CASE CreateNew
  BY <1>6 DEF CreateNew
<1>7. CASE NewClear
  <2>1. Flags'
    BY <1>0, <1>7, Zenon DEF Flags, NewClear, SetBootMessage
  <2>. QED BY <1>7, <2>1 DEF NewClear, SetBootMessage, Flags
<1>8. CASE NewClean
  <2>1. task' \in Tasks \/ (task' = task /\ ck' # "run")
    <3>1. /\ rr.url \in Urls /\ rr.size \in Lengths /\ rr.md5 \in Versions
          /\ 0 \in Lengths
      BY <1>8, Numbers DEF NewClean, Offers
    <3>2. [url |-> rr.url, size |-> rr.size, md5 |-> rr.md5, progress |-> 0]
             \in Tasks
      BY <3>1 DEF Tasks
    <3>. QED BY <1>8, <3>2 DEF NewClean
  <2>. QED BY <1>8, <2>1 DEF NewClean, RemoveOne, Emptydir
<1>9. CASE Run
  <2>1. Flags'
    BY <1>0, <1>9, Zenon DEF Flags, Run
  <2>. QED BY <1>9, <2>1 DEF Run, Flags
<1>10. CASE TellClear
  BY <1>10 DEF TellClear
<1>11. CASE ReadTid
  BY <1>11 DEF ReadTid
<1>12. CASE Join
  BY <1>12 DEF Join
<1>13. CASE Judge
  BY <1>13 DEF Judge
<1>14. CASE Arm
  <2>1. Flags'
    BY <1>0, <1>14, Zenon DEF Flags, Arm, SetBootMessage
  <2>2. Path(task) \in Names
    BY <1>14, TaskFacts DEF Arm
  <2>. QED BY <1>14, <2>1, <2>2 DEF Arm, SetBootMessage, Flags
<1>15. CASE TellReady
  BY <1>15 DEF TellReady
<1>16. CASE FailClear
  <2>1. Flags'
    BY <1>0, <1>16, Zenon DEF Flags, FailClear, SetBootMessage
  <2>. QED BY <1>16, <2>1 DEF FailClear, SetBootMessage, Flags
<1>17. CASE TellFail
  BY <1>17 DEF TellFail
<1>18. CASE FailClean
  BY <1>18 DEF FailClean, RemoveOne, Emptydir
<1>19. CASE Delete
  <2>1. Flags'
    BY <1>0, <1>19, Zenon DEF Flags, Delete
  <2>. QED BY <1>19, <2>1 DEF Delete, Flags
<1>. QED BY <1>1, <1>2, <1>3, <1>4, <1>5, <1>6, <1>7, <1>8, <1>9, <1>10, <1>11, <1>12, <1>13, <1>14, <1>15, <1>16, <1>17, <1>18, <1>19 DEF CheckerStep

LEMMA TypeWorker == Typed /\ WorkerStep => Typed'
<1> SUFFICES ASSUME Typed, WorkerStep PROVE Typed'
  OBVIOUS
<1> USE OtaAssumption
    DEF Typed, TypeOK, Present, HandedOver, Working, CheckerStates,
        WorkerStates, Notices, env, disk, boot, shared, checker
<1>0. Flags
  BY DEF Flags
<1>1. CASE HeadFails
  BY <1>1 DEF HeadFails, RetryOrFail
<1>2. CASE HeadOk
  <2>1. Flags'
    BY <1>0, <1>2, Zenon DEF Flags, HeadOk
  <2>2. task \in Tasks /\ task' \in Tasks
    <3>1. task \in Tasks
      BY <1>2 DEF HeadOk
    <3>2. Size[web[task.url]] \in Lengths
      BY <3>1, TaskFacts, Numbers
    <3>3. [task EXCEPT !.size = Size[web[task.url]], !.progress = 0] \in Tasks
      BY <3>1, <3>2, Numbers DEF Tasks
    <3>. QED BY <1>2, <3>1, <3>3 DEF HeadOk
  <2>. QED BY <1>2, <2>1, <2>2 DEF HeadOk, Flags
<1>3. CASE InitClean
  BY <1>3 DEF InitClean, RemoveOne, Emptydir
<1>4. CASE GetFinished
  BY <1>4 DEF GetFinished
<1>5. CASE GetStart
  <2>1. Flags'
    BY <1>0, <1>5, Zenon DEF Flags, GetStart, Opened
  <2>2. task \in Tasks /\ task.progress \in Lengths
    BY <1>5, TaskFacts DEF GetStart
  <2>3. file' \in Files
    BY <1>5, <2>2, FileFacts, TaskFacts DEF GetStart, Opened
  <2>4. xfer' \in Transfers /\ xfer'.from + xfer'.now <= xfer'.end
    <3>1. web[task.url] \in Versions
      BY <2>2, TaskFacts
    <3>2. CASE /\ task.progress < Size[web[task.url]]
               /\ xfer' = [ver |-> web[task.url], from |-> task.progress,
                           now |-> 0, end |-> Size[web[task.url]]]
      BY <2>2, <3>1, <3>2, Numbers, TransferFacts DEF Contents
    <3>3. CASE xfer' = [ver |-> Junk, from |-> task.progress, now |-> 0,
                        end |-> Cap(task.progress + 1)]
      <4>1. /\ Cap(task.progress + 1) \in Lengths
            /\ task.progress <= Cap(task.progress + 1)
        BY <2>2 DEF Cap, Lengths
      <4>. QED BY <2>2, <3>3, <4>1, Numbers, TransferFacts DEF Contents
    <3>. QED BY <1>5, <3>2, <3>3 DEF GetStart
  <2>. QED BY <1>5, <2>1, <2>3, <2>4 DEF GetStart, Flags
<1>6. CASE GetFails
  <2>1. Flags'
    BY <1>0, <1>6, Zenon DEF Flags, GetFails, RetryOrFail
  <2>. QED BY <1>6, <2>1 DEF GetFails, RetryOrFail, Flags
<1>7. CASE Receive
  <2>1. Flags'
    BY <1>0, <1>7, Zenon DEF Flags, Receive
  <2>2. xfer \in Transfers /\ file \in Files /\ xfer.from + xfer.now < xfer.end
    BY <1>7 DEF Receive
  <2>3. xfer' \in Transfers /\ xfer'.from + xfer'.now <= xfer'.end
    <3>1. xfer' = [xfer EXCEPT !.now = @ + 1]
      BY <1>7 DEF Receive
    <3>2. xfer'.from = xfer.from /\ xfer'.now = xfer.now + 1
          /\ xfer'.end = xfer.end
      BY <2>2, <3>1 DEF Transfers
    <3>. QED BY <2>2, <3>1, <3>2, TransferFacts
  <2>4. file' \in Files
    BY <1>7, <2>2, FileFacts, TransferFacts DEF Receive
  <2>. QED BY <1>7, <2>1, <2>3, <2>4 DEF Receive, Flags
<1>8. CASE Progress
  <2>1. Flags'
    BY <1>0, <1>8, Zenon DEF Flags, Progress
  <2>2. task \in Tasks /\ xfer \in Transfers /\ xfer.from + xfer.now <= xfer.end
    BY <1>8 DEF Progress
  <2>3. task' \in Tasks
    <3>1. xfer.from + xfer.now \in Lengths
      BY <2>2, TransferFacts
    <3>2. task' = [task EXCEPT !.progress = xfer.from + xfer.now]
      BY <1>8 DEF Progress
    <3>. QED BY <2>2, <3>1, <3>2, TaskFacts
  <2>. QED BY <1>8, <2>1, <2>3 DEF Progress, Flags
<1>9. CASE Backup
  BY <1>9 DEF Backup
<1>10. CASE TransferEnds
  <2>1. Flags'
    BY <1>0, <1>10, Zenon DEF Flags, TransferEnds
  <2>. QED BY <1>10, <2>1 DEF TransferEnds, Flags
<1>11. CASE TransferFails
  <2>1. Flags'
    BY <1>0, <1>11, Zenon DEF Flags, TransferFails, RetryOrFail
  <2>. QED BY <1>11, <2>1 DEF TransferFails, RetryOrFail, Flags
<1>12. CASE Sync
  <2>1. Flags'
    BY <1>0, <1>12, Zenon DEF Flags, Sync
  <2>. QED BY <1>12, <2>1 DEF Sync, Flags
<1>13. CASE Clean
  BY <1>13 DEF Clean
<1>14. CASE CleanTid
  <2>1. Flags'
    BY <1>0, <1>14, Zenon DEF Flags, CleanTid
  <2>. QED BY <1>14, <2>1 DEF CleanTid, Flags
<1>. QED BY <1>1, <1>2, <1>3, <1>4, <1>5, <1>6, <1>7, <1>8, <1>9, <1>10, <1>11, <1>12, <1>13, <1>14 DEF WorkerStep

LEMMA TypeOffer == Typed /\ (\E u \in Urls : Offer(u)) => Typed'
<1> SUFFICES ASSUME Typed, NEW u \in Urls, Offer(u) PROVE Typed'
  OBVIOUS
<1>1. web[u] \in Versions
  BY DEF Typed, TypeOK
<1>2. rr' \in Offers
  BY <1>1, Numbers DEF Offer, Offers
<1>. QED
  BY <1>2
  DEF Typed, TypeOK, Present, HandedOver, Working, CheckerStates, Offer, env,
      disk, boot, shared, worker

LEMMA TypeWorld == Typed /\ World => Typed'
<1> SUFFICES ASSUME Typed, World PROVE Typed'
  OBVIOUS
<1> USE DEF Typed, TypeOK, Present, HandedOver, Working, CheckerStates,
            WorkerStates, Notices, env, disk, boot, checker, shared, worker
<1>1. ASSUME NEW u \in Urls, NEW v \in Versions, Republish(u, v)
      PROVE  Typed'
  BY <1>1 DEF Republish
<1>2. Restart =>
         /\ tid' \in BOOLEAN /\ result' \in BOOLEAN
         /\ faults' \subseteq {"misc", "thread", "cut"}
         /\ ck' = "start" /\ rr' = None /\ notice' = "none" /\ task' = None
         /\ wk' = "none" /\ retry' = 0 /\ xfer' = None
  BY Zenon DEF Restart
<1>3. 0 \in 0 .. MaxRetry
  BY OtaAssumption
<1>4. CASE Kill
  <2>1. Restart /\ UNCHANGED <<env, disk, boot>>
    BY <1>4 DEF Kill
  <2>. QED BY <1>2, <1>3, <2>1
<1>5. CASE Reboot
  <2>1. Restart /\ web' \in [Urls -> Versions] /\ stable' \in BOOLEAN
    BY <1>5 DEF Reboot
  <2>2. dirty' \in BOOLEAN
    BY <1>5, Zenon DEF Reboot
  <2>3. file' \in Files \cup {None}
    <3>1. LeftOfFile \subseteq Files \cup {None}
      <4>1. ASSUME file \in Files, NEW n \in 0 .. file.len
            PROVE  [file EXCEPT !.len = n] \in Files
        BY <4>1, OtaAssumption DEF Files, Lengths
      <4>2. ASSUME file \in Files PROVE [file EXCEPT !.ver = Junk] \in Files
        BY <4>2 DEF Files, Contents
      <4>. QED BY <4>1, <4>2 DEF LeftOfFile
    <3>. QED BY <1>5, <3>1 DEF Reboot
  <2>4. info' \in Tasks \cup {None, Torn}
    BY <1>5 DEF Reboot, LeftOfInfo
  <2>5. system' \in Versions /\ marker' \in {"none", "success", "failed"}
        /\ misc' = None
    BY <1>5 DEF Reboot
  <2>. QED BY <1>2, <1>3, <2>1, <2>2, <2>3, <2>4, <2>5
<1>6. CASE Settle
  <2>1. stable' \in BOOLEAN
    BY <1>6, Zenon DEF Settle
  <2>. QED BY <1>6, <2>1 DEF Settle
<1>. QED BY <1>1, <1>4, <1>5, <1>6 DEF World

LEMMA TypeNext == Typed /\ [Next]_vars => Typed'
<1> SUFFICES ASSUME Typed, [Next]_vars PROVE Typed'
  OBVIOUS
<1>1. CASE UNCHANGED vars
  BY <1>1
  DEF Typed, TypeOK, Present, HandedOver, Working, vars, env, disk, boot,
      checker, shared, worker
<1>. QED
  BY <1>1, TypeChecker, TypeOffer, TypeWorker, TypeWorld DEF Next

\* Every variable has its type in every reachable state, and what a step
\* reads of an offer, a task, a file or a transfer is there.
THEOREM TypeCorrect == Spec => []TypeOK
<1>1. Typed => TypeOK
  BY DEF Typed
<1>. QED BY TypeInit, TypeNext, <1>1, PTL DEF Spec

\* The checker judges and deletes only what the worker is through with.
THEOREM ResultFinal == Spec => []ResultIsFinal
<1>1. Typed => ResultIsFinal
  BY DEF Typed, HandedOver, Working, ResultIsFinal
<1>. QED BY TypeInit, TypeNext, <1>1, PTL DEF Spec

-----------------------------------------------------------------------------
(* The boot message names a whole package *)

LEMMA EarlyResultNext == Typed /\ EarlyResult /\ [Next]_vars => EarlyResult'
<1> SUFFICES ASSUME Typed, EarlyResult, [Next]_vars PROVE EarlyResult'
  OBVIOUS
<1> USE DEF EarlyResult, Working
<1>1. Working /\ wk # "sync" => ~result
  BY Zenon
<1>2. Working => ck \notin {"run", "delete"}
  BY Zenon DEF Typed, HandedOver
<1>3. CASE UNCHANGED <<wk, result>>
  BY <1>1, <1>3, Zenon
<1>4. CASE Run
  BY <1>2, <1>4, Zenon DEF Run
<1>5. CASE Delete
  BY <1>5, Zenon DEF Delete
<1>6. CASE HeadFails \/ HeadOk \/ InitClean
  BY <1>1, <1>6, Zenon DEF HeadFails, HeadOk, InitClean, RetryOrFail, shared
<1>7. CASE GetFinished \/ GetStart \/ GetFails
  BY <1>1, <1>7, Zenon DEF GetFinished, GetStart, GetFails, RetryOrFail, shared
<1>8. CASE Progress \/ Backup \/ TransferEnds \/ TransferFails
  BY <1>1, <1>8, Zenon
  DEF Progress, Backup, TransferEnds, TransferFails, RetryOrFail, shared
<1>9. CASE Sync \/ Clean \/ CleanTid
  BY <1>1, <1>9, Zenon DEF Sync, Clean, CleanTid, shared
<1>10. CASE Kill \/ Reboot
  BY <1>10, Zenon DEF Kill, Reboot, Restart
<1>11. CASE \/ CheckerStep /\ ~Run /\ ~Delete
            \/ \E u \in Urls : Offer(u)
            \/ Receive
  <2>1. UNCHANGED <<wk, result>>
    BY <1>11
    DEF CheckerStep, TellUpgrade, StartQuietly, StartClean, CreateReady,
        CreateResume, CreateNew, NewClear, NewClean, TellClear, ReadTid, Join,
        Judge, Arm, TellReady, FailClear, TellFail, FailClean, Offer, Receive,
        shared, worker
  <2>. QED BY <1>3, <2>1
<1>12. CASE Settle \/ \E u \in Urls, v \in Versions : Republish(u, v)
  <2>1. UNCHANGED <<wk, result>>
    BY <1>12 DEF Settle, Republish, shared, worker
  <2>. QED BY <1>3, <2>1
<1>13. CASE UNCHANGED vars
  BY <1>3, <1>13 DEF vars, shared, worker
<1>. QED
  BY <1>4, <1>5, <1>6, <1>7, <1>8, <1>9, <1>10, <1>11, <1>12, <1>13
  DEF Next, WorkerStep, World

LEMMA InfoIsTaskNext == Typed /\ InfoIsTask /\ [Next]_vars => InfoIsTask'
<1> SUFFICES ASSUME Typed, InfoIsTask, [Next]_vars PROVE InfoIsTask'
  OBVIOUS
<1> USE NoTaskAssumption
    DEF InfoIsTask, Judging, disk, checker, shared, worker
<1>1. Working => ck \in {"tellClear", "readTid", "join"}
  BY DEF Typed, HandedOver
<1>2. CASE \/ TellUpgrade \/ StartQuietly \/ StartClean
           \/ CreateReady \/ CreateNew \/ NewClear
           \/ TellClear \/ ReadTid \/ Join \/ Judge \/ Arm \/ TellReady
           \/ FailClear \/ TellFail \/ FailClean \/ Delete
           \/ \E u \in Urls : Offer(u)
  BY <1>2
  DEF TellUpgrade, StartQuietly, StartClean, CreateReady, CreateNew, NewClear,
      TellClear, ReadTid, Join, Judge, Arm, TellReady, FailClear, TellFail,
      FailClean, Delete, Offer
<1>3. CASE CreateResume
  BY <1>3 DEF CreateResume
<1>4. CASE NewClean
  BY <1>4 DEF NewClean, Emptydir
<1>5. CASE Run
  BY <1>1, <1>5 DEF Run, Working
<1>6. CASE HeadOk
  BY <1>6 DEF HeadOk
<1>7. CASE InitClean
  BY <1>7 DEF InitClean, Emptydir
<1>8. CASE Progress \/ Backup
  BY <1>8 DEF Progress, Backup
<1>9. CASE \/ HeadFails \/ GetFinished \/ GetStart \/ GetFails \/ Receive
            \/ TransferEnds \/ TransferFails \/ Sync \/ Clean \/ CleanTid
  BY <1>9
  DEF HeadFails, GetFinished, GetStart, GetFails, Receive, TransferEnds,
      TransferFails, Sync, Clean, CleanTid, RetryOrFail
<1>10. CASE Kill \/ Reboot
  BY <1>10 DEF Kill, Reboot, Restart
<1>11. CASE Settle \/ \E u \in Urls, v \in Versions : Republish(u, v)
  BY <1>11 DEF Settle, Republish
<1>12. CASE UNCHANGED vars
  BY <1>12 DEF vars
<1>. QED
  BY <1>2, <1>3, <1>4, <1>5, <1>6, <1>7, <1>8, <1>9, <1>10, <1>11, <1>12
  DEF Next, CheckerStep, WorkerStep, World

LEMMA FileFollowsNext ==
    Typed /\ EarlyResult /\ FileFollows /\ [Next]_vars => FileFollows'
<1> SUFFICES ASSUME Typed, EarlyResult, FileFollows, [Next]_vars
             PROVE  FileFollows'
  OBVIOUS
<1> USE DEF FileFollows, Judging, disk, checker, shared, worker
<1>1. Working => ck \in {"tellClear", "readTid", "join"}
  BY DEF Typed, HandedOver
<1>2. \/ TellUpgrade \/ StartQuietly \/ StartClean
      \/ CreateReady \/ CreateResume \/ CreateNew \/ NewClear \/ NewClean
      \/ TellClear \/ ReadTid \/ Join \/ Judge \/ Arm \/ TellReady
      \/ FailClear \/ TellFail \/ FailClean
      \/ \E u \in Urls : Offer(u)
      => FileFollows'
  BY <1>1
  DEF TellUpgrade, StartQuietly, StartClean, CreateReady, CreateResume,
      CreateNew, NewClear, NewClean, TellClear, ReadTid, Join, Judge, Arm,
      TellReady, FailClear, TellFail, FailClean, Offer, Working
<1>3. CASE Run
  BY <1>1, <1>3 DEF Run, Working
<1>4. CASE Delete
  BY <1>1, <1>4 DEF Delete, Working
<1>5. CASE HeadFails \/ HeadOk \/ InitClean \/ GetFinished \/ GetFails
  BY <1>5
  DEF HeadFails, HeadOk, InitClean, GetFinished, GetFails, RetryOrFail,
      EarlyResult, Working
<1>6. CASE GetStart
  BY <1>6 DEF GetStart, EarlyResult, Working
<1>7. CASE Receive
  <2> DEFINE pos == xfer.from + xfer.now
  <2>1. /\ xfer \in Transfers /\ file \in Files /\ pos < xfer.end
        /\ pos \in Nat /\ xfer.end \in Lengths /\ xfer.ver \in Contents
    BY <1>7, TransferFacts DEF Receive, Typed, Present
  <2>2. /\ xfer'.ver = xfer.ver /\ xfer'.end = xfer.end
        /\ xfer'.from = xfer.from /\ xfer'.from + xfer'.now = pos + 1
    BY <1>7, <2>1 DEF Receive, Transfers, Lengths
  <2>3. Cap(pos + 1) = pos + 1
    BY <2>1, OtaAssumption DEF Cap, Lengths
  <2>4. file'.ver # Junk => file'.len = pos + 1
    BY <1>7, <2>3 DEF Receive, Extended
  <2>5. ~result' /\ wk' = "xfer"
    BY <1>7 DEF Receive, EarlyResult, Working
  <2>. QED BY <1>7, <2>2, <2>4, <2>5 DEF Receive
<1>8. CASE Progress \/ Backup
  BY <1>8 DEF Progress, Backup, EarlyResult, Working
<1>9. CASE TransferEnds
  <2>1. /\ file \in Files /\ xfer.from \in Nat /\ xfer.now \in Nat
        /\ xfer.from < xfer.end /\ xfer.from + xfer.now = xfer.end
    BY <1>9, TransferFacts DEF TransferEnds, Typed, Present
  <2>2. file.ver # Junk => file.len = task.size
    BY <1>9, <2>1 DEF TransferEnds
  <2>3. UNCHANGED <<file, task>> /\ wk' = "sync"
    BY <1>9 DEF TransferEnds
  <2>. QED BY <2>1, <2>2, <2>3
<1>10. CASE TransferFails
  BY <1>10 DEF TransferFails, RetryOrFail
<1>11. CASE Sync \/ Clean \/ CleanTid
  BY <1>11 DEF Sync, Clean, CleanTid, EarlyResult, Working
<1>12. CASE Kill \/ Reboot
  BY <1>12 DEF Kill, Reboot, Restart
<1>13. CASE Settle \/ \E u \in Urls, v \in Versions : Republish(u, v)
  BY <1>13 DEF Settle, Republish
<1>14. CASE UNCHANGED vars
  BY <1>14 DEF vars
<1>. QED
  BY <1>2, <1>3, <1>4, <1>5, <1>6, <1>7, <1>8, <1>9, <1>10, <1>11, <1>12,
     <1>13, <1>14
  DEF Next, CheckerStep, WorkerStep, World

LEMMA ArmedIsWholeNext == IInv /\ [Next]_vars => ArmedIsWhole'
<1> SUFFICES ASSUME IInv, [Next]_vars PROVE ArmedIsWhole'
  OBVIOUS
<1> USE DEF ArmedIsWhole, Disarmed, disk, boot, checker
<1>1. /\ Working => ck \in {"tellClear", "readTid", "join"}
      /\ ArmedIsWhole
  BY DEF IInv, HandedOver
<1>2. UNCHANGED <<file, info>> => \A name : Whole(name) = Whole(name)'
  BY DEF Whole
<1>3. CASE \/ TellUpgrade \/ StartQuietly \/ CreateNew \/ Run \/ TellClear
           \/ ReadTid \/ Join \/ TellReady \/ TellFail \/ Delete
           \/ \E u \in Urls : Offer(u)
  BY <1>1, <1>2, <1>3
  DEF TellUpgrade, StartQuietly, CreateNew, Run, TellClear, ReadTid, Join,
      TellReady, TellFail, Delete, Offer
<1>4. CASE StartClean \/ NewClean \/ FailClean
  BY <1>1, <1>2, <1>4 DEF StartClean, NewClean, FailClean
<1>5. CASE CreateReady
  <2>1. /\ info \in Tasks /\ info.md5 \in Versions /\ file.len = info.size
        /\ Intact(file, Path(info), info.md5)
    BY <1>5, TaskFacts DEF CreateReady, Ready, Complete, Found
  <2>2. Whole(Path(info))
    BY <2>1 DEF Whole
  <2>3. Path(task)' = Path(info)
    BY <1>5 DEF CreateReady, Path
  <2>. QED BY <1>1, <1>2, <1>5, <2>2, <2>3 DEF CreateReady
<1>6. CASE CreateResume
  BY <1>1, <1>2, <1>6
  DEF CreateResume, Resumable, Complete, Found, Whole, Intact
<1>7. CASE NewClear \/ FailClear
  BY <1>1, <1>2, <1>7 DEF NewClear, FailClear, SetBootMessage
<1>8. CASE Judge
  <2>1. CASE result /\ Intact(file, Path(task), task.md5)
    <3>1. task.md5 \in Versions
      BY <1>8, TaskFacts DEF Judge, IInv, Present
    <3>2. file.len = task.size
      BY <1>8, <2>1, <3>1, OtaAssumption
      DEF Judge, IInv, FileFollows, Judging, Intact
    <3>3. info \in Tasks => info.size = task.size
      BY <1>8, <1>1 DEF Judge, IInv, InfoIsTask, Judging, Working
    <3>4. Whole(Path(task))
      BY <2>1, <3>1, <3>2, <3>3 DEF Whole
    <3>. QED BY <1>1, <1>2, <1>8, <3>4 DEF Judge, shared, Path
  <2>2. CASE ~(result /\ Intact(file, Path(task), task.md5))
    BY <1>1, <1>2, <1>8, <2>2 DEF Judge
  <2>. QED BY <2>1, <2>2
<1>9. CASE Arm
  BY <1>1, <1>2, <1>9 DEF Arm, SetBootMessage, shared
<1>10. CASE WorkerStep
  <2>1. Working /\ UNCHANGED <<ck, misc, marker, faults>>
    BY <1>10
    DEF WorkerStep, Working, HeadFails, HeadOk, InitClean, GetFinished,
        GetStart, GetFails, Receive, Progress, Backup, TransferEnds,
        TransferFails, Sync, Clean, CleanTid
  <2>. QED BY <1>1, <2>1
<1>11. CASE Kill
  BY <1>1, <1>2, <1>11 DEF Kill, Restart
<1>12. CASE Reboot
  BY <1>12 DEF Reboot, Restart
<1>13. CASE Settle \/ \E u \in Urls, v \in Versions : Republish(u, v)
  BY <1>1, <1>2, <1>13 DEF Settle, Republish, shared
<1>14. CASE UNCHANGED vars
  BY <1>1, <1>2, <1>14 DEF vars, shared
<1>. QED
  BY <1>3, <1>4, <1>5, <1>6, <1>7, <1>8, <1>9, <1>10, <1>11, <1>12, <1>13,
     <1>14
  DEF Next, CheckerStep, World

LEMMA IInvInit == Init => IInv
<1> SUFFICES ASSUME Init PROVE IInv
  OBVIOUS
<1>1. ~Working
  BY DEF Init, Working
<1>2. EarlyResult /\ InfoIsTask /\ FileFollows /\ ArmedIsWhole
  BY <1>1, Zenon
  DEF Init, EarlyResult, InfoIsTask, FileFollows, ArmedIsWhole, Judging
<1>. QED BY <1>2, TypeInit DEF IInv, Typed

THEOREM Invariance == Spec => []IInv
<1>1. IInv /\ [Next]_vars => IInv'
  <2>1. IInv => Typed
    BY DEF IInv, Typed
  <2>. QED
    BY <2>1, TypeNext, EarlyResultNext, InfoIsTaskNext, FileFollowsNext,
       ArmedIsWholeNext
    DEF IInv, Typed
<1>. QED BY IInvInit, <1>1, PTL DEF Spec

\* A boot message names a whole package for as long as it stands, whatever
\* is republished, killed or cut off from power; only a misc partition that
\* could not be written is excepted.
THEOREM ArmedIntact == Spec => []ArmedIsIntact
<1>1. IInv => ArmedIsIntact
  BY DEF IInv, ArmedIsWhole, ArmedIsIntact, Whole
<1>. QED BY Invariance, <1>1, PTL

-----------------------------------------------------------------------------
(* What home was told last is true *)

\* Once home was told that a download is under way, it is told how it ended
\* before anything becomes of the boot message; and "ready" is said of a
\* package that was armed.
NoticeOfRound ==
    /\ ck \in {"readTid", "join", "result", "failClear", "tellFail"} =>
          notice = "clear"
    /\ ck = "tellReady" /\ "misc" \notin faults => misc # None

LEMMA NoticeNext ==
    IInv /\ NoticeOfRound /\ NoticeIsTrue /\ [Next]_vars =>
        NoticeOfRound' /\ NoticeIsTrue'
<1> SUFFICES ASSUME IInv, NoticeOfRound, NoticeIsTrue, [Next]_vars
             PROVE  NoticeOfRound' /\ NoticeIsTrue'
  OBVIOUS
<1> USE DEF NoticeOfRound, NoticeIsTrue, SettingUp, disk, boot, checker
<1>1. /\ misc # None /\ "misc" \notin faults => ~Disarmed
      /\ misc \in Names \cup {None} /\ misc' \in Names \cup {None}
  <2>1. TypeOK /\ TypeOK'
    BY TypeNext DEF IInv, Typed
  <2>. QED BY <2>1 DEF IInv, ArmedIsWhole, TypeOK
<1>2. CASE \/ TellUpgrade \/ StartQuietly \/ StartClean \/ CreateReady
           \/ CreateResume \/ CreateNew \/ NewClean \/ ReadTid \/ Join
           \/ Judge \/ TellReady \/ FailClean \/ Delete
           \/ \E u \in Urls : Offer(u)
  <2>1. CASE TellUpgrade
    BY <2>1 DEF TellUpgrade
  <2>2. CASE StartQuietly \/ StartClean \/ CreateReady \/ CreateResume
    BY <2>2 DEF StartQuietly, StartClean, CreateReady, CreateResume
  <2>3. CASE CreateNew \/ NewClean
    BY <2>3 DEF CreateNew, NewClean
  <2>4. CASE ReadTid \/ Join \/ Judge
    BY <2>4 DEF ReadTid, Join, Judge
  <2>5. CASE TellReady
    BY <2>5 DEF TellReady
  <2>6. CASE FailClean \/ Delete \/ \E u \in Urls : Offer(u)
    BY <2>6 DEF FailClean, Delete, Offer
  <2>. QED BY <1>2, <2>1, <2>2, <2>3, <2>4, <2>5, <2>6
<1>3. CASE NewClear \/ FailClear
  BY <1>3 DEF NewClear, FailClear, SetBootMessage
<1>4. CASE Run
  BY <1>4 DEF Run
<1>5. CASE TellClear \/ TellFail
  BY <1>1, <1>5 DEF TellClear, TellFail, Disarmed
<1>6. CASE Arm
  <2>1. Path(task) # None
    BY <1>6, TaskFacts, OtaAssumption DEF Arm, IInv, Present
  <2>. QED BY <1>6, <2>1 DEF Arm, SetBootMessage
<1>7. CASE WorkerStep
  BY <1>7
  DEF WorkerStep, HeadFails, HeadOk, InitClean, GetFinished, GetStart, GetFails,
      Receive, Progress, Backup, TransferEnds, TransferFails, Sync, Clean,
      CleanTid
<1>8. CASE Kill \/ Reboot
  BY <1>8 DEF Kill, Reboot, Restart
<1>9. CASE Settle \/ \E u \in Urls, v \in Versions : Republish(u, v)
  BY <1>9 DEF Settle, Republish
<1>10. CASE UNCHANGED vars
  BY <1>10 DEF vars
<1>. QED
  BY <1>2, <1>3, <1>4, <1>5, <1>6, <1>7, <1>8, <1>9, <1>10
  DEF Next, CheckerStep, World

\* Home is never left with "ready" while no package is armed and none is
\* being set up, nor with "clear" or "failed" while one is armed.
THEOREM NoticeTrue == Spec => []NoticeIsTrue
<1>1. Init => NoticeOfRound /\ NoticeIsTrue
  BY DEF Init, NoticeOfRound, NoticeIsTrue
<1>. QED BY Invariance, NoticeNext, <1>1, PTL DEF Spec

-----------------------------------------------------------------------------
(* A package that was installed is not armed again *)

\* What the checker is about to arm is the package of the task at hand.
ArmsTask == ck = "arm" => Intact(file, Path(task), task.md5)

\* The offer, the task and what the disk says of a task are of versions the
\* device does not run: an installed package is removed before anybody looks.
Unlike ==
    /\ rr \in Offers => rr.md5 # system
    /\ faults \cap {"cut", "misc"} = {} =>
          /\ task \in Tasks => task.md5 # system
          /\ info \in Tasks /\ marker # "success" /\ ck # "startClean" =>
                info.md5 # system

LEMMA ArmsTaskNext == IInv /\ ArmsTask /\ [Next]_vars => ArmsTask'
<1> SUFFICES ASSUME IInv, ArmsTask, [Next]_vars, ck' = "arm"
             PROVE  Intact(file', Path(task'), task'.md5)
  BY DEF ArmsTask, Intact, Path
<1> USE DEF ArmsTask, Intact, Path, disk, checker, shared
<1>1. Working => ck # "arm"
  BY DEF IInv, HandedOver
<1>2. CASE CreateReady
  BY <1>2 DEF CreateReady, Ready
<1>3. CASE Judge
  BY <1>3 DEF Judge
<1>4. CASE CheckerStep /\ ~CreateReady /\ ~Judge
  BY <1>4
  DEF CheckerStep, TellUpgrade, StartQuietly, StartClean, CreateResume,
      CreateNew, NewClear, NewClean, Run, TellClear, ReadTid, Join, Arm,
      TellReady, FailClear, TellFail, FailClean, Delete
<1>5. CASE \E u \in Urls : Offer(u)
  BY <1>5 DEF Offer
<1>6. CASE WorkerStep
  <2>1. Working /\ ck' = ck
    BY <1>6
    DEF WorkerStep, Working, HeadFails, HeadOk, InitClean, GetFinished,
        GetStart, GetFails, Receive, Progress, Backup, TransferEnds,
        TransferFails, Sync, Clean, CleanTid
  <2>. QED BY <1>1, <2>1
<1>7. CASE Kill \/ Reboot
  BY <1>7 DEF Kill, Reboot, Restart
<1>8. CASE Settle \/ \E u \in Urls, v \in Versions : Republish(u, v)
  BY <1>8 DEF Settle, Republish
<1>9. CASE UNCHANGED vars
  BY <1>9 DEF vars
<1>. QED
  BY <1>2, <1>3, <1>4, <1>5, <1>6, <1>7, <1>8, <1>9 DEF Next, World

LEMMA UnlikeNext == IInv /\ Unlike /\ [Next]_vars => Unlike'
<1> SUFFICES ASSUME IInv, Unlike, [Next]_vars PROVE Unlike'
  OBVIOUS
<1> USE NoTaskAssumption, OtaAssumption
    DEF Unlike, env, disk, boot, checker, shared, worker
<1>1. /\ marker # "none" => ck = "start"
      /\ marker # "none" /\ "misc" \notin faults => misc = None
  BY DEF IInv, ArmedIsWhole, Disarmed
<1>2. CASE TellUpgrade
  BY <1>2 DEF TellUpgrade
<1>3. CASE StartQuietly
  BY <1>3 DEF StartQuietly
<1>4. CASE StartClean \/ FailClean
  BY <1>4 DEF StartClean, FailClean, RemoveOne, Emptydir
<1>5. CASE CreateReady \/ CreateResume
  <2>1. info \in Tasks /\ ck = "create" /\ marker = "none"
    BY <1>1, <1>5
    DEF CreateReady, CreateResume, Ready, Resumable, Complete, Found
  <2>. QED BY <1>5, <2>1 DEF CreateReady, CreateResume
<1>6. CASE NewClean
  <2>1. rr \in Offers
    BY <1>6 DEF NewClean, IInv, Present
  <2>. QED BY <1>6, <2>1 DEF NewClean, RemoveOne, Emptydir
<1>7. CASE NewClear \/ FailClear \/ Arm
  BY <1>7 DEF NewClear, FailClear, Arm, SetBootMessage
<1>8. CASE Run
  BY <1>8 DEF Run
<1>9. CASE \/ CreateNew \/ TellClear \/ ReadTid \/ Join \/ Judge
           \/ TellReady \/ TellFail
  BY <1>9 DEF CreateNew, TellClear, ReadTid, Join, Judge, TellReady, TellFail
<1>10. CASE Delete
  BY <1>10 DEF Delete
<1>11. CASE \E u \in Urls : Offer(u)
  BY <1>11 DEF Offer
<1>12. CASE HeadOk \/ Progress \/ Backup
  <2>1. task \in Tasks /\ marker = "none" /\ ck # "startClean"
    BY <1>1, <1>12
    DEF HeadOk, Progress, Backup, IInv, HandedOver, Present, Working
  <2>2. task'.md5 = task.md5
    BY <1>12, <2>1 DEF HeadOk, Progress, Backup, Tasks
  <2>. QED BY <1>12, <2>1, <2>2 DEF HeadOk, Progress, Backup
<1>13. CASE InitClean
  BY <1>13 DEF InitClean, RemoveOne, Emptydir
<1>14. CASE \/ HeadFails \/ GetFinished \/ GetStart \/ GetFails \/ Receive
            \/ TransferEnds \/ TransferFails \/ Sync \/ Clean \/ CleanTid
  BY <1>14
  DEF HeadFails, GetFinished, GetStart, GetFails, Receive, TransferEnds,
      TransferFails, Sync, Clean, CleanTid
<1>15. CASE Kill
  BY <1>15 DEF Kill, Restart
<1>16. CASE Reboot
  <2>1. rr' = None /\ task' = None /\ ck' = "start"
        /\ faults' = IF ck = "startClean" THEN faults \cup {"cut"} ELSE faults
    BY <1>16 DEF Reboot, Restart
  <2>2. info' \in Tasks => info' = info
    BY <1>16 DEF Reboot, LeftOfInfo
  <2>3. \/ marker' = "success"
        \/ system' = system /\ (marker = "success" /\ misc = None => marker' = marker)
    BY <1>16 DEF Reboot
  <2>. QED BY <1>1, <2>1, <2>2, <2>3
<1>17. CASE Settle \/ \E u \in Urls, v \in Versions : Republish(u, v)
  BY <1>17 DEF Settle, Republish
<1>18. CASE UNCHANGED vars
  BY <1>18 DEF vars
<1>. QED
  BY <1>2, <1>3, <1>4, <1>5, <1>6, <1>7, <1>8, <1>9, <1>10, <1>11, <1>12,
     <1>13, <1>14, <1>15, <1>16, <1>17, <1>18
  DEF Next, CheckerStep, WorkerStep, World

LEMMA NoReinstallNext ==
    IInv /\ ArmsTask /\ Unlike /\ NoReinstall /\ [Next]_vars => NoReinstall'
<1> SUFFICES ASSUME IInv, ArmsTask, Unlike, NoReinstall, [Next]_vars,
                    misc' # None, faults' \cap {"cut", "misc"} = {}
             PROVE  ~Intact(file', misc', system')
  BY DEF NoReinstall, Intact
<1> USE DEF NoReinstall, Intact, env, disk, boot, checker
<1>1. misc # None /\ "misc" \notin faults => ~Disarmed
  BY DEF IInv, ArmedIsWhole
<1>2. CASE Arm
  <2>1. task \in Tasks
    BY <1>2 DEF Arm, IInv, Present
  <2>2. faults' = faults /\ UNCHANGED <<file, system>>
    BY <1>2 DEF Arm, SetBootMessage
  <2>3. Intact(file, Path(task), task.md5) /\ task.md5 # system
    BY <1>2, <2>1, <2>2 DEF Arm, ArmsTask, Unlike
  <2>. QED BY <2>2, <2>3
<1>3. CASE \/ TellUpgrade \/ StartQuietly \/ CreateReady \/ CreateResume
           \/ CreateNew \/ Run \/ TellClear \/ ReadTid \/ Join \/ Judge
           \/ TellReady \/ TellFail \/ Delete
           \/ \E u \in Urls : Offer(u)
  BY <1>3
  DEF TellUpgrade, StartQuietly, CreateReady, CreateResume, CreateNew, Run,
      TellClear, ReadTid, Join, Judge, TellReady, TellFail, Delete, Offer
<1>4. CASE StartClean \/ NewClean \/ FailClean
  BY <1>1, <1>4 DEF StartClean, NewClean, FailClean, Disarmed
<1>5. CASE NewClear \/ FailClear
  BY <1>5 DEF NewClear, FailClear, SetBootMessage
<1>6. CASE WorkerStep
  <2>1. Working /\ UNCHANGED <<misc, faults>>
    BY <1>6
    DEF WorkerStep, Working, HeadFails, HeadOk, InitClean, GetFinished,
        GetStart, GetFails, Receive, Progress, Backup, TransferEnds,
        TransferFails, Sync, Clean, CleanTid
  <2>. QED BY <1>1, <2>1 DEF IInv, HandedOver, Disarmed
<1>7. CASE Kill \/ Reboot
  BY <1>7 DEF Kill, Reboot, Restart
<1>8. CASE Settle \/ \E u \in Urls, v \in Versions : Republish(u, v)
  BY <1>8 DEF Settle, Republish
<1>9. CASE UNCHANGED vars
  BY <1>9 DEF vars
<1>. QED
  BY <1>2, <1>3, <1>4, <1>5, <1>6, <1>7, <1>8, <1>9
  DEF Next, CheckerStep, World

\* What is armed is never the version the device already runs; excepted are
\* a daemon cut off amid its clean-up and a misc partition that could not be
\* written.
THEOREM NeverReinstalled == Spec => []NoReinstall
<1>1. Init => ArmsTask /\ Unlike /\ NoReinstall
  BY NoTaskAssumption DEF Init, ArmsTask, Unlike, NoReinstall
<1>. QED
  BY Invariance, ArmsTaskNext, UnlikeNext, NoReinstallNext, <1>1, PTL DEF Spec

-----------------------------------------------------------------------------
(* Recovery finds what was announced *)

\* While no process is killed: data that was not synced is left behind only
\* by a round that is still under way, or is gone.
Unsettled ==
    {"tellClear", "readTid", "join", "result", "failClear", "tellFail",
     "failClean"}

Synced ==
    "kill" \notin Events =>
        /\ dirty => Emptydir \/ ck \in Unsettled
        /\ result => wk = "sync" \/ ~dirty
        /\ ck = "arm" => ~dirty
        /\ misc # None /\ "misc" \notin faults => ~dirty

LEMMA SyncedNext == IInv /\ Synced /\ [Next]_vars => Synced'
<1> SUFFICES ASSUME IInv, Synced, [Next]_vars, "kill" \notin Events
             PROVE  Synced'
  BY DEF Synced
<1> USE DEF Synced, Unsettled, disk, boot, checker, shared
<1>1. /\ Working => ck \in {"tellClear", "readTid", "join"}
      /\ Working /\ wk # "sync" => ~result
      /\ misc # None /\ "misc" \notin faults => ~Disarmed
  BY DEF IInv, HandedOver, EarlyResult, ArmedIsWhole
<1>2. CASE \/ TellUpgrade \/ StartQuietly \/ CreateNew \/ TellClear \/ ReadTid
           \/ Join \/ TellReady \/ TellFail
           \/ \E u \in Urls : Offer(u)
  BY <1>2, Zenon
  DEF TellUpgrade, StartQuietly, CreateNew, TellClear, ReadTid, Join,
      TellReady, TellFail, Offer, worker, Emptydir
<1>3. CASE StartClean \/ NewClean \/ FailClean
  BY <1>3, Zenon
  DEF StartClean, NewClean, FailClean, RemoveOne, Emptydir, worker
<1>4. CASE CreateReady
  BY <1>4, Zenon
  DEF CreateReady, Ready, Complete, Found, Emptydir, worker
<1>5. CASE CreateResume
  BY <1>5, Zenon DEF CreateResume, Emptydir, worker
<1>6. CASE NewClear \/ FailClear
  BY <1>6, Zenon DEF NewClear, FailClear, SetBootMessage, Emptydir, worker
<1>7. CASE Run
  BY <1>1, <1>7, Zenon DEF Run, Emptydir
<1>8. CASE Judge
  BY <1>1, <1>8, Zenon DEF Judge, Working, Emptydir, worker
<1>9. CASE Arm
  BY <1>9, Zenon DEF Arm, SetBootMessage, Emptydir, worker
<1>10. CASE Delete
  BY <1>1, <1>10, Zenon DEF Delete, Emptydir, worker
<1>11. CASE WorkerStep
  <2>1. Working /\ UNCHANGED <<ck, misc, marker, faults>>
    BY <1>11
    DEF WorkerStep, Working, HeadFails, HeadOk, InitClean, GetFinished,
        GetStart, GetFails, Receive, Progress, Backup, TransferEnds,
        TransferFails, Sync, Clean, CleanTid
  <2>2. ck' \in Unsettled /\ ck' # "arm"
    BY <1>1, <2>1
  <2>3. misc' # None /\ "misc" \notin faults' => ~dirty'
    BY <1>1, <2>1 DEF Disarmed
  <2>4. result' => wk' = "sync" \/ ~dirty'
    <3>1. CASE HeadFails \/ HeadOk \/ InitClean \/ GetFinished
      BY <1>1, <3>1, Zenon
      DEF HeadFails, HeadOk, InitClean, RemoveOne, GetFinished, RetryOrFail,
          Working
    <3>2. CASE GetStart \/ GetFails \/ Receive \/ Progress \/ Backup
      BY <1>1, <3>2, Zenon
      DEF GetStart, GetFails, Receive, Progress, Backup, RetryOrFail, Working
    <3>3. CASE TransferEnds \/ TransferFails
      BY <3>3, Zenon DEF TransferEnds, TransferFails
    <3>4. CASE Sync \/ Clean \/ CleanTid
      BY <1>1, <3>4, Zenon DEF Sync, Clean, CleanTid, Working
    <3>. QED BY <1>11, <3>1, <3>2, <3>3, <3>4 DEF WorkerStep
  <2>. QED BY <2>2, <2>3, <2>4, Zenon
<1>12. CASE Kill
  BY <1>12 DEF Kill, Possible
<1>13. CASE Reboot
  BY <1>13, Zenon DEF Reboot, Restart
<1>14. CASE Settle \/ \E u \in Urls, v \in Versions : Republish(u, v)
  BY <1>14, Zenon DEF Settle, Republish, Emptydir, worker
<1>15. CASE UNCHANGED vars
  BY <1>15, Zenon DEF vars, Emptydir, worker
<1>. QED
  BY <1>2, <1>3, <1>4, <1>5, <1>6, <1>7, <1>8, <1>9, <1>10, <1>11, <1>12,
     <1>13, <1>14, <1>15
  DEF Next, CheckerStep, World

LEMMA RecoveryNext ==
    IInv /\ Synced /\ [Next]_vars =>
        (("kill" \notin Events => RecoveryFindsPackage) =>
            ("kill" \notin Events => RecoveryFindsPackage'))
<1> SUFFICES ASSUME IInv, Synced, [Next]_vars, "kill" \notin Events,
                    RecoveryFindsPackage, marker' = "failed"
             PROVE  "misc" \in faults'
  BY DEF RecoveryFindsPackage
<1> USE DEF RecoveryFindsPackage, disk, boot, checker
<1>1. CASE Reboot
  <2>1. faults \subseteq faults'
    BY <1>1 DEF Reboot, Restart
  <2>2. CASE misc = None
    BY <1>1, <2>1, <2>2 DEF Reboot
  <2>3. CASE misc # None /\ "misc" \notin faults
    <3>1. \E v \in Versions : Intact(file, misc, v)
      BY <2>3 DEF IInv, ArmedIsWhole, Whole
    <3>2. ~dirty
      BY <2>3, Zenon DEF Synced
    <3>3. file' = file
      BY <1>1, <3>2, Zenon DEF Reboot
    <3>4. marker' # "failed"
      BY <1>1, <2>3, <3>1, <3>3 DEF Reboot, Intact
    <3>. QED BY <3>4
  <2>. QED BY <2>1, <2>2, <2>3
<1>2. CASE ~Reboot /\ Next
  <2>1. faults \subseteq faults' /\ (marker' = marker \/ marker' = "none")
    <3>1. CASE CheckerStep
      BY <3>1
      DEF CheckerStep, TellUpgrade, StartQuietly, StartClean, CreateReady,
          CreateResume, CreateNew, NewClear, NewClean, Run, TellClear, ReadTid,
          Join, Judge, Arm, TellReady, FailClear, TellFail, FailClean, Delete,
          SetBootMessage
    <3>2. CASE WorkerStep
      BY <3>2
      DEF WorkerStep, HeadFails, HeadOk, InitClean, GetFinished, GetStart,
          GetFails, Receive, Progress, Backup, TransferEnds, TransferFails,
          Sync, Clean, CleanTid
    <3>3. CASE \E u \in Urls : Offer(u)
      BY <3>3 DEF Offer
    <3>4. CASE Kill
      BY <3>4 DEF Kill, Possible
    <3>5. CASE Settle \/ \E u \in Urls, v \in Versions : Republish(u, v)
      BY <3>5 DEF Settle, Republish
    <3>. QED BY <1>2, <3>1, <3>2, <3>3, <3>4, <3>5 DEF Next, World
  <2>. QED BY <2>1
<1>3. CASE UNCHANGED vars
  BY <1>3 DEF vars
<1>. QED BY <1>1, <1>2, <1>3

\* While no process is killed, a recovery run that finds no package it can
\* install means that the misc partition could not be written: the worker
\* syncs before it reports success, whatever else fails and however often
\* the power goes.
THEOREM RecoveryFinds ==
    Spec => []("kill" \notin Events => RecoveryFindsPackage)
<1> DEFINE Finds == "kill" \notin Events => RecoveryFindsPackage
<1>1. Init => Synced /\ Finds
  BY Zenon DEF Init, Synced, RecoveryFindsPackage
<1>2. IInv /\ Synced /\ [Next]_vars => (Finds => Finds')
  BY RecoveryNext
<1>. QED BY Invariance, SyncedNext, <1>1, <1>2, PTL DEF Spec

=============================================================================
