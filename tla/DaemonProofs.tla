------------------------------ MODULE DaemonProofs ------------------------------
(***************************************************************************)
(* What Daemon promises of its parts, for any number of messages, rounds,  *)
(* processes and calls: librecovery restarts into the latest command, the  *)
(* pause is for a cast application, an offer is a whole answer, and home   *)
(* cuts the stream into the messages that were sent.                       *)
(***************************************************************************)
EXTENDS Daemon, TLAPS

-----------------------------------------------------------------------------
(* librecovery *)

\* What the command file holds at each step of execRecoveryCommand: fopen has
\* emptied it before a line can be cut, and when the device is restarted it
\* holds the command, or fclose has failed.  Nothing has run before.
CommandOnItsWay ==
    /\ pc \in {"open", "write", "close", "reboot"} => ran = NoFile
    /\ pc \in {"write", "close"} => file \in {Empty, Torn}
    /\ pc = "reboot" => file = command \/ (lost /\ file \in {Empty, Torn})

RecoveryInv == part = "recovery" => CommandOnItsWay /\ Recovery!RunsTheLatest

LEMMA RecoveryInit == Init => RecoveryInv
  BY DEF Init, RecoveryInv, CommandOnItsWay, Recovery!Init, Recovery!RunsTheLatest

\* Every step of librecovery keeps it.
LEMMA RecoveryNext ==
  ASSUME RecoveryInv, [Next]_vars
  PROVE  RecoveryInv'
  <1> DEFINE I == CommandOnItsWay /\ Recovery!RunsTheLatest
  <1> USE DEF CommandOnItsWay, Recovery!RunsTheLatest, Recovery!reading
  <1>1. SUFFICES ASSUME part' = "recovery" PROVE I'
    BY DEF RecoveryInv
  <1>2. CASE UNCHANGED vars
    BY <1>1, <1>2 DEF vars, recovery, RecoveryInv
  <1>3. CASE NextStream \/ NextCheck \/ NextMonitor
    BY <1>1, <1>3 DEF NextStream, NextCheck, NextMonitor, Streams, Checks
  <1>4. CASE NextRecovery
    <2>1. I /\ Recovery!Next
      BY <1>4 DEF NextRecovery, Recovers, RecoveryInv
    <2>2. ASSUME NEW c, Recovery!Begin(c) PROVE I'
      BY <2>1, <2>2 DEF Recovery!Begin
    <2>3. CASE Recovery!FactoryReset
      BY <2>2, <2>3 DEF Recovery!FactoryReset
    <2>4. CASE \E c \in Updates : Recovery!InstallFotaUpdate(c)
      BY <2>2, <2>4 DEF Recovery!InstallFotaUpdate
    <2>5. CASE Recovery!Open
      BY <2>1, <2>5 DEF Recovery!Open, Recovery!Emptied
    <2>6. CASE Recovery!Write
      BY <2>1, <2>6 DEF Recovery!Write
    <2>7. CASE Recovery!Close
      BY <2>1, <2>7 DEF Recovery!Close
    <2>8. CASE Recovery!Reboot
      BY <2>1, <2>8 DEF Recovery!Reboot
    <2>9. CASE Recovery!Kill
      BY <2>1, <2>9 DEF Recovery!Kill
    <2>10. CASE Recovery!Status \/ Recovery!ReadTurn \/ Recovery!ReadTest
      BY <2>1, <2>10 DEF Recovery!Status, Recovery!ReadTurn, Recovery!ReadTest
    <2> QED
      BY <2>1, <2>3, <2>4, <2>5, <2>6, <2>7, <2>8, <2>9, <2>10 DEF Recovery!Next
  <1> QED
    BY <1>2, <1>3, <1>4 DEF Next

\* Whatever the disk refuses and wherever the process is killed, the device
\* restarts into no command but that of the latest call (execRecoveryCommand).
THEOREM LatestRuns == Spec => []RunsTheLatest
  <1>1. RecoveryInv => RunsTheLatest
    BY DEF RecoveryInv, RunsTheLatest
  <1> QED
    BY RecoveryInit, RecoveryNext, <1>1, PTL DEF Spec

-----------------------------------------------------------------------------
(* The pause for a cast application *)

\* What the callback knows of the processes at each of its steps: who has had
\* the name ever since is among those that have it now, who has it now among
\* those that were seen with it, and a line that was printed names one of them.
AskedRightly ==
    /\ procs \in [Pids -> Monitor!Names]
    /\ asks = "popen" =>
         since \subseteq Monitor!Matching(procs) /\ Monitor!Matching(procs) \subseteq seen
    /\ asks = "kill" =>
         /\ seen # {} /\ \E pid \in Pids, n \in Monitor!Names : line = <<n, 0, 0, pid>>

MonitorInv == part = "monitor" => AskedRightly /\ Monitor!SlowsForCast

LEMMA MonitorInit == Init => MonitorInv
  BY DEF Init, MonitorInv, AskedRightly, Monitor!Init, Monitor!SlowsForCast, Monitor!Names

\* Every step of the callback and of the processes keeps it.
LEMMA MonitorNext ==
  ASSUME MonitorInv, [Next]_vars
  PROVE  MonitorInv'
  <1> DEFINE I == AskedRightly /\ Monitor!SlowsForCast
  <1> USE DEF AskedRightly, Monitor!SlowsForCast
  <1>1. SUFFICES ASSUME part' = "monitor" PROVE I'
    BY DEF MonitorInv
  <1>2. CASE UNCHANGED vars
    BY <1>1, <1>2 DEF vars, monitor, MonitorInv, Monitor!Matching
  <1>3. CASE NextStream \/ NextCheck \/ NextRecovery
    BY <1>1, <1>3 DEF NextStream, NextCheck, NextRecovery, Streams, Checks, Recovers
  <1>4. CASE NextMonitor
    <2>1. I /\ Monitor!Next
      BY <1>4 DEF NextMonitor, MonitorInv
    <2>2. CASE Monitor!Environment
      <3>1. procs' \in [Pids -> Monitor!Names]
        BY <2>1, <2>2 DEF Monitor!Environment
      <3> QED
        BY <2>1, <2>2, <3>1 DEF Monitor!Environment
    <2>3. CASE Monitor!Progress
      BY <2>1, <2>3 DEF Monitor!Progress, Monitor!Matching
    <2>4. CASE Monitor!Popen
      <3>1. asks = "popen" /\ since \subseteq Monitor!Matching(procs) /\ result' = FALSE
        BY <2>1, <2>4 DEF Monitor!Popen
      <3>2. CASE \E pid \in Monitor!Matching(procs) :
                    line' = Monitor!LineOf(procs, pid) /\ asks' = "kill" /\ UNCHANGED since
        BY <2>1, <2>4, <3>1, <3>2 DEF Monitor!Popen, Monitor!Matching, Monitor!LineOf
      <3>3. CASE asks' = "done" /\ ((Monitor!Matching(procs) = {} /\ UNCHANGED since) \/ since' = {})
        BY <2>1, <2>4, <3>1, <3>3 DEF Monitor!Popen
      <3> QED
        BY <2>4, <3>2, <3>3 DEF Monitor!Popen
    <2>5. CASE Monitor!Kill
      <3>1. PICK pid \in Pids, n \in Monitor!Names : line = <<n, 0, 0, pid>>
        BY <2>1, <2>5 DEF Monitor!Kill
      <3>2. Monitor!PidColumn(line) = pid /\ pid # 0
        BY <3>1, DaemonAssumption DEF Monitor!PidColumn, Monitor!MonitorAssumption
      <3> QED
        BY <2>1, <2>5, <3>2 DEF Monitor!Kill
    <2>6. CASE Monitor!Return
      BY <2>1, <2>6 DEF Monitor!Return
    <2> QED
      BY <2>1, <2>2, <2>3, <2>4, <2>5, <2>6 DEF Monitor!Next
  <1> QED
    BY <1>2, <1>3, <1>4 DEF Next

\* For any processes that come, go and are renamed while it asks, the callback
\* slows the transfer for a cast application that runs, and only for one
\* (CheckCertainProcessAlive).
THEOREM CastSlows == Spec => []SlowsForCast
  <1>1. MonitorInv => SlowsForCast
    BY DEF MonitorInv, SlowsForCast
  <1> QED
    BY MonitorInit, MonitorNext, <1>1, PTL DEF Spec

-----------------------------------------------------------------------------
(* The request for an update *)

\* Two sequences one behind the other.
LEMMA Concatenated ==
  ASSUME NEW S, NEW a \in Seq(S), NEW b \in Seq(S)
  PROVE  /\ a \o b \in Seq(S) /\ Len(a \o b) = Len(a) + Len(b)
         /\ \A i \in 1 .. Len(a) + Len(b) :
               (a \o b)[i] = IF i <= Len(a) THEN a[i] ELSE b[i - Len(a)]
  OBVIOUS

\* A sequence with three elements in front of it and two behind.
LEMMA Framed ==
  ASSUME NEW S, NEW a \in S, NEW b \in S, NEW c \in S, NEW d \in S, NEW e \in S,
         NEW m \in Seq(S)
  PROVE  LET T == <<a, b, c>> \o m \o <<d, e>> IN
         /\ T \in Seq(S) /\ Len(T) = Len(m) + 5
         /\ T[1] = a /\ T[2] = b /\ T[3] = c
         /\ T[Len(m) + 4] = d /\ T[Len(m) + 5] = e
         /\ \A i \in 4 .. Len(m) + 3 : T[i] = m[i - 3]
  <1> DEFINE h == <<a, b, c>>
             t == <<d, e>>
             u == h \o m
             T == u \o t
  <1>1. h \in Seq(S) /\ Len(h) = 3 /\ h[1] = a /\ h[2] = b /\ h[3] = c
    OBVIOUS
  <1>2. t \in Seq(S) /\ Len(t) = 2 /\ t[1] = d /\ t[2] = e
    OBVIOUS
  <1> HIDE DEF h, t
  <1>3. Len(m) \in Nat
    OBVIOUS
  <1>4. /\ u \in Seq(S) /\ Len(u) = Len(h) + Len(m)
        /\ \A i \in 1 .. Len(h) + Len(m) : u[i] = IF i <= Len(h) THEN h[i] ELSE m[i - Len(h)]
    BY <1>1, Concatenated
  <1> HIDE DEF u
  <1>5. /\ T \in Seq(S) /\ Len(T) = Len(u) + Len(t)
        /\ \A i \in 1 .. Len(u) + Len(t) : T[i] = IF i <= Len(u) THEN u[i] ELSE t[i - Len(u)]
    <2>1. u \in Seq(S) /\ t \in Seq(S)
      BY <1>2, <1>4
    <2> QED
      BY <2>1, Concatenated
  <1> HIDE DEF T
  <1>6. T[1] = a /\ T[2] = b /\ T[3] = c
    BY <1>1, <1>3, <1>4, <1>5
  <1>7. T[Len(m) + 4] = d /\ T[Len(m) + 5] = e
    <2>1. Len(u) \in Nat /\ Len(t) = 2
      BY <1>2, <1>4
    <2>2. /\ T[Len(u) + 1] = t[(Len(u) + 1) - Len(u)]
          /\ T[Len(u) + 2] = t[(Len(u) + 2) - Len(u)]
      BY <1>5, <2>1
    <2>3. T[Len(u) + 1] = t[1] /\ T[Len(u) + 2] = t[2]
      BY <2>1, <2>2
    <2> QED
      BY <1>1, <1>2, <1>3, <1>4, <2>3
  <1>8. \A i \in 4 .. Len(m) + 3 : T[i] = m[i - 3]
    <2> SUFFICES ASSUME NEW i \in 4 .. Len(m) + 3 PROVE T[i] = m[i - 3]
      OBVIOUS
    <2>0. Len(u) = Len(m) + 3 /\ Len(h) = 3 /\ Len(t) = 2
      BY <1>1, <1>2, <1>4
    <2>1. T[i] = u[i]
      BY <1>3, <1>5, <2>0
    <2>2. u[i] = m[i - 3]
      BY <1>3, <1>4, <2>0
    <2> QED
      BY <2>1, <2>2
  <1> QED
    BY <1>1, <1>2, <1>3, <1>4, <1>5, <1>6, <1>7, <1>8 DEF h, t, u, T

\* The first n elements of a sequence.
LEMMA FirstOf ==
  ASSUME NEW S, NEW T \in Seq(S), NEW n \in 0 .. Len(T)
  PROVE  /\ SubSeq(T, 1, n) \in Seq(S) /\ Len(SubSeq(T, 1, n)) = n
         /\ \A i \in 1 .. n : SubSeq(T, 1, n)[i] = T[i]
  OBVIOUS

\* What a text of an answer is made of.
Tokens == Check!HexDigits \cup Check!Statuses \cup {"open", "md5", "quote", "close", "array", "html"}

\* An answer of a server, token by token.
LEMMA TextFacts ==
  ASSUME NEW st \in Check!Statuses, NEW m \in Md5s
  PROVE  LET T == Check!Text(st, m) e == 4 + Len(m) IN
         /\ Len(m) \in Nat /\ T \in Seq(Tokens) /\ Len(T) = e + 1
         /\ T[1] = "open" /\ T[2] = st /\ T[3] = "md5" /\ T[e] = "quote" /\ T[e + 1] = "close"
         /\ \A i \in 4 .. e - 1 : T[i] = m[i - 3] /\ T[i] # "quote"
  <1>1. m \in Seq(Check!HexDigits)
    BY DaemonAssumption DEF Check!CheckAssumption
  <1>2. /\ Check!HexDigits \subseteq Tokens /\ st \in Tokens
        /\ "open" \in Tokens /\ "md5" \in Tokens /\ "quote" \in Tokens /\ "close" \in Tokens
    BY DEF Tokens
  <1>3. m \in Seq(Tokens) /\ Len(m) \in Nat
    BY <1>1, <1>2
  <1>4. \A i \in 1 .. Len(m) : m[i] # "quote"
    <2>1. \A i \in 1 .. Len(m) : m[i] \in Check!HexDigits
      BY <1>1
    <2>2. "quote" \notin Check!HexDigits
      BY DEF Check!HexDigits
    <2> QED
      BY <2>1, <2>2
  <1> DEFINE T == <<"open", st, "md5">> \o m \o <<"quote", "close">>
  <1>5. /\ T \in Seq(Tokens) /\ Len(T) = Len(m) + 5
        /\ T[1] = "open" /\ T[2] = st /\ T[3] = "md5"
        /\ T[Len(m) + 4] = "quote" /\ T[Len(m) + 5] = "close"
        /\ \A i \in 4 .. Len(m) + 3 : T[i] = m[i - 3]
    BY <1>2, <1>3, Framed
  <1>6. T = Check!Text(st, m)
    BY DEF Check!Text
  <1> HIDE DEF T
  <1>7. \A i \in 4 .. Len(m) + 3 : T[i] = m[i - 3] /\ T[i] # "quote"
    BY <1>3, <1>4, <1>5
  <1>8. /\ Len(T) = (4 + Len(m)) + 1 /\ (4 + Len(m)) - 1 = Len(m) + 3
        /\ T[4 + Len(m)] = "quote" /\ T[(4 + Len(m)) + 1] = "close"
    BY <1>3, <1>5
  <1> QED
    BY <1>3, <1>5, <1>6, <1>7, <1>8

\* Reader::parse reads a text that is whole as what it says; a part of it, cut
\* at any place, is refused: the end of the object is looked for behind the
\* quote that ends the md5.
LEMMA WholeOrRefused ==
  ASSUME NEW st \in Check!Statuses, NEW m \in Md5s,
         NEW n \in 0 .. Len(Check!Text(st, m))
  PROVE  LET p == Check!Parsed(SubSeq(Check!Text(st, m), 1, n)) IN
         IF n < Len(Check!Text(st, m)) THEN p.kind = "fails"
         ELSE p = [kind |-> "object", status |-> st, md5 |-> m]
  <1> DEFINE T == Check!Text(st, m)
             s == SubSeq(T, 1, n)
             ends == {i \in 4 .. Len(s) : s[i] = "quote"}
             e == 4 + Len(m)
  <1>1. Len(m) \in Nat /\ e \in Nat /\ T \in Seq(Tokens) /\ Len(T) = e + 1
    BY TextFacts
  <1>2. T[1] = "open" /\ T[2] = st /\ T[3] = "md5" /\ T[e] = "quote" /\ T[e + 1] = "close"
    BY TextFacts
  <1>3. \A i \in 4 .. e - 1 : T[i] = m[i - 3] /\ T[i] # "quote"
    BY TextFacts
  <1>4. s \in Seq(Tokens) /\ Len(s) = n /\ \A i \in 1 .. n : s[i] = T[i]
    BY <1>1, FirstOf
  <1>5. n \in 0 .. e + 1
    BY <1>1
  <1> HIDE DEF T, s
  <1>6. ends = IF n >= e THEN {e} ELSE {}
    <2>1. ASSUME NEW i \in 4 .. n PROVE s[i] = "quote" <=> i = e
      <3>1. s[i] = T[i] /\ i \in 4 .. e + 1
        BY <1>1, <1>4, <1>5
      <3>2. T[i] = "quote" <=> i = e
        BY <1>1, <1>2, <1>3, <3>1
      <3> QED
        BY <3>1, <3>2
    <2> QED
      BY <1>1, <1>4, <1>5, <2>1
  <1> HIDE DEF ends
  <1>7. n >= e => ends # {} /\ Check!Min(ends) = e
    BY <1>1, <1>6 DEF Check!Min
  <1>8. n >= 1 => s[1] = "open"
    BY <1>2, <1>4, <1>5
  <1>9. ~(Len(s) >= 2 /\ s[1] = "array" /\ s[2] = "close")
    BY <1>4, <1>5, <1>8
  <1>10. CASE n < e + 1
    <2>1. ~(ends # {} /\ Check!Min(ends) < Len(s))
      BY <1>1, <1>4, <1>5, <1>6, <1>7, <1>10
    <2>2. Check!Parsed(s).kind = "fails"
      BY <1>9, <2>1 DEF Check!Parsed, ends
    <2> QED
      BY <1>1, <1>10, <2>2 DEF T, s
  <1>11. CASE n = e + 1
    <2>1. s = T
      BY <1>1, <1>4, <1>11
    <2>2. SubSeq(T, 4, e - 1) = m
      <3>1. m \in Seq(Tokens) /\ Len(m) = (e - 1) - 4 + 1
        BY <1>1, DaemonAssumption DEF Check!CheckAssumption, Tokens
      <3>2. /\ SubSeq(T, 4, e - 1) \in Seq(Tokens) /\ Len(SubSeq(T, 4, e - 1)) = Len(m)
            /\ \A i \in 1 .. Len(m) : SubSeq(T, 4, e - 1)[i] = T[i + 3]
        BY <1>1
      <3>3. \A i \in 1 .. Len(m) : T[i + 3] = m[i]
        BY <1>1, <1>3
      <3> QED
        BY <3>1, <3>2, <3>3
    <2>3. /\ Len(s) > 4 /\ s[1] = "open" /\ s[2] \in Check!Statuses /\ s[3] = "md5"
          /\ ends # {} /\ Check!Min(ends) < Len(s) /\ s[Check!Min(ends) + 1] = "close"
      BY <1>1, <1>2, <1>4, <1>7, <1>11, <2>1
    <2>4. SubSeq(s, 4, Check!Min(ends) - 1) = m
      BY <1>1, <1>7, <1>11, <2>1, <2>2
    <2>5. Check!Parsed(s) = [kind |-> "object", status |-> s[2], md5 |-> m]
      BY <1>9, <2>3, <2>4 DEF Check!Parsed, ends
    <2> QED
      BY <1>1, <1>2, <1>11, <2>1, <2>5 DEF T, s
  <1> QED
    BY <1>1, <1>5, <1>10, <1>11

\* What a part of an answer is read as.  A whole answer is an offer of the md5
\* that is in it, or none.
LEMMA AnswerRead ==
  ASSUME NEW a \in Check!Answers, NEW n \in 0 .. Len(a)
  PROVE  LET p == Check!Parsed(SubSeq(a, 1, n)) IN
         /\ a \in Seq(Tokens)
         /\ n < Len(a) => p.kind = "fails"
         /\ Check!Offers(p) => n = Len(a) /\ a = Check!Text("1", p.md5)
  <1> DEFINE p == Check!Parsed(SubSeq(a, 1, n))
  <1>1. CASE a = <<"html">>
    <2>1. a \in Seq(Tokens) /\ Len(a) = 1
      BY <1>1 DEF Tokens
    <2>2. Len(SubSeq(a, 1, n)) <= 1
      BY <2>1, FirstOf
    <2>3. p.kind = "fails"
      BY <2>1, <2>2 DEF Check!Parsed
    <2> QED
      BY <2>1, <2>3 DEF Check!Offers
  <1>2. CASE a = <<"array", "close">>
    <2>1. a \in Seq(Tokens) /\ Len(a) = 2
      BY <1>2 DEF Tokens
    <2>2. Len(SubSeq(a, 1, n)) = n /\ n <= 2
      BY <2>1, FirstOf
    <2>3. p.kind \in {"array", "fails"} /\ (n < 2 => p.kind = "fails")
      BY <2>1, <2>2 DEF Check!Parsed
    <2> QED
      BY <2>1, <2>3 DEF Check!Offers
  <1>3. ASSUME NEW st \in Check!Statuses, NEW m \in Md5s, a = Check!Text(st, m)
        PROVE  /\ a \in Seq(Tokens)
               /\ n < Len(a) => p.kind = "fails"
               /\ Check!Offers(p) => n = Len(a) /\ a = Check!Text("1", p.md5)
    <2>1. a \in Seq(Tokens) /\ Len(a) \in Nat
      BY <1>3, TextFacts
    <2>2. IF n < Len(a) THEN p.kind = "fails"
          ELSE p = [kind |-> "object", status |-> st, md5 |-> m]
      BY <1>3, WholeOrRefused
    <2>3. ASSUME Check!Offers(p) PROVE n = Len(a) /\ a = Check!Text("1", p.md5)
      <3>1. p.kind = "object" /\ Check!Positive(p.status)
        BY <2>3 DEF Check!Offers
      <3>2. p = [kind |-> "object", status |-> st, md5 |-> m] /\ n = Len(a)
        BY <2>1, <2>2, <3>1
      <3> QED
        BY <1>3, <3>1, <3>2 DEF Check!Positive
    <2> QED
      BY <2>1, <2>2, <2>3
  <1> QED
    BY <1>1, <1>2, <1>3 DEF Check!Answers

\* The answer while it comes: without an append that went on behind a piece,
\* the buffer holds what was handed over, and a transfer is cut when that is
\* not the whole.
AnswerInHand ==
    /\ at = "transfer" => ~cut /\ answer \in Check!Answers /\ pos \in 0 .. Len(answer)
    /\ at = "answer" =>
         answer \in Check!Answers /\ pos \in 0 .. Len(answer) /\ (cut => pos < Len(answer))
    /\ at \in {"transfer", "answer"} /\ ~overrun => buffer = SubSeq(answer, 1, pos)
    /\ at \notin {"task", "run"} => rr = Check!None

\* What is live at each place of a round, besides what earlier rounds left.
LiveAt(place) ==
    CASE place \in {"transfer", "answer"} -> Check!Frees
      [] place = "task" -> {"RequireResult"}
      [] place = "run" -> Check!RoundFrees
      [] OTHER -> {}

ObjectsOfRound ==
    /\ at \in {"sleep", "transfer", "answer", "task", "run", "down"}
    /\ round \in Nat /\ quiet \subseteq 1 .. round
    /\ at \in {"transfer", "answer", "task", "run"} => round # 0 /\ round \notin quiet
    /\ heap = {[class |-> "RequireResult", round |-> r] : r \in quiet}
              \cup {Check!Object(c) : c \in LiveAt(at)}

CheckInv ==
    part = "check" =>
        AnswerInHand /\ ObjectsOfRound /\ Check!OfferIsAnswer /\ Check!CutIsHarmless

LEMMA CheckInit == Init => CheckInv
  BY DEF Init, CheckInv, AnswerInHand, ObjectsOfRound, LiveAt, Check!Init, Check!OfferIsAnswer,
         Check!CutIsHarmless

\* What a step of the checker leaves in the hands of requireUpdatePackage.
LEMMA AnswerNext ==
  ASSUME AnswerInHand, ObjectsOfRound, Check!OfferIsAnswer, Check!CutIsHarmless, Check!Next
  PROVE  AnswerInHand' /\ Check!OfferIsAnswer' /\ Check!CutIsHarmless'
  <1> USE DEF AnswerInHand, Check!OfferIsAnswer, Check!CutIsHarmless, Check!transfer
  <1>1. CASE Check!Request
    <2>1. rr = Check!None /\ rr' = Check!None /\ answer' \in Check!Answers /\ pos' = 0
          /\ buffer' = << >> /\ overrun' = FALSE
      BY <1>1 DEF Check!Request
    <2>2. answer' \in Seq(Tokens) /\ Len(answer') > 0
      <3>1. Len(answer') \in Nat /\ Len(answer') > 0
        <4>1. CASE answer' = <<"html">> \/ answer' = <<"array", "close">>
          BY <4>1
        <4>2. ASSUME NEW st \in Check!Statuses, NEW m \in Md5s, answer' = Check!Text(st, m)
              PROVE  Len(answer') \in Nat /\ Len(answer') > 0
          BY <4>2, TextFacts
        <4> QED
          BY <2>1, <4>1, <4>2 DEF Check!Answers
      <3>2. 0 \in 0 .. Len(answer')
        BY <3>1
      <3> QED
        BY <2>1, <3>1, <3>2, AnswerRead
    <2>3. SubSeq(answer', 1, pos') = << >>
      BY <2>1, <2>2
    <2>4. \/ at' = "transfer" /\ cut' = FALSE
          \/ at' = "answer" /\ cut' = TRUE
      BY <1>1 DEF Check!Request
    <2> QED
      BY <2>1, <2>2, <2>3, <2>4
  <1>2. CASE Check!HandOver
    <2>1. at = "transfer" /\ UNCHANGED <<at, answer, cut, rr>>
      BY <1>2 DEF Check!HandOver
    <2>2. PICK n \in pos + 1 .. Len(answer) : \E behind \in Check!BehindPiece(n) :
             /\ pos' = n
             /\ buffer' = (buffer \o SubSeq(answer, pos + 1, n)) \o behind
             /\ overrun' = (overrun \/ behind # << >>)
      BY <1>2 DEF Check!HandOver, Check!Appended
    <2>3. answer \in Seq(Tokens) /\ pos \in 0 .. Len(answer)
      BY <2>1, AnswerRead
    <2>4. ASSUME ~overrun' PROVE buffer' = SubSeq(answer, 1, n)
      <3>1. buffer = SubSeq(answer, 1, pos)
            /\ buffer' = (buffer \o SubSeq(answer, pos + 1, n)) \o << >>
        BY <2>1, <2>2, <2>4
      <3>2. SubSeq(answer, 1, pos) \o SubSeq(answer, pos + 1, n) = SubSeq(answer, 1, n)
        BY <2>2, <2>3
      <3>3. SubSeq(answer, 1, n) \o << >> = SubSeq(answer, 1, n)
        BY <2>2, <2>3
      <3> QED
        BY <3>1, <3>2, <3>3
    <2> QED
      BY <2>1, <2>2, <2>3, <2>4, SMTT(60)
  <1>3. CASE Check!TransferEnds
    BY <1>3 DEF Check!TransferEnds
  <1>4. CASE Check!Answered
    <2> DEFINE p == Check!Parsed(buffer)
               Stops == (p.kind = "object" /\ Check!Throws(p.status)) \/ p.kind = "array"
    <2>1. at = "answer" /\ rr = Check!None /\ UNCHANGED <<answer, cut, overrun>>
      BY <1>4 DEF Check!Answered
    <2>2. ASSUME ~overrun
          PROVE  /\ cut => p.kind = "fails"
                 /\ Check!Offers(p) => ~cut /\ answer = Check!Text("1", p.md5)
      <3>1. buffer = SubSeq(answer, 1, pos) /\ pos \in 0 .. Len(answer)
            /\ (cut => pos < Len(answer)) /\ answer \in Check!Answers
        BY <2>1, <2>2
      <3>2. answer \in Seq(Tokens) /\ (pos < Len(answer) => p.kind = "fails")
        BY <3>1, AnswerRead
      <3>3. Check!Offers(p) => pos = Len(answer) /\ answer = Check!Text("1", p.md5)
        BY <3>1, AnswerRead
      <3> QED
        BY <3>1, <3>2, <3>3
    <2>3. \/ Stops /\ at' = "down" /\ UNCHANGED rr
          \/ at' = "sleep" /\ UNCHANGED rr
          \/ Check!Offers(p) /\ at' = "task" /\ rr' = [md5 |-> p.md5, status |-> p.status]
      BY <1>4 DEF Check!Answered, Check!WithoutOffer
    <2>4. ASSUME cut, ~overrun PROVE at' = "sleep" /\ UNCHANGED rr
      <3>1. p.kind = "fails"
        BY <2>2, <2>4
      <3> QED
        BY <2>3, <3>1 DEF Check!Offers
    <2> QED
      BY <2>1, <2>2, <2>3, <2>4
  <1>5. CASE Check!NoTask
    BY <1>5 DEF Check!NoTask
  <1>6. CASE Check!Task
    BY <1>6 DEF Check!Task
  <1>7. CASE Check!RoundEnds
    BY <1>7 DEF Check!RoundEnds
  <1>8. CASE Check!Restart
    BY <1>8 DEF Check!Restart
  <1> QED
    BY <1>1, <1>2, <1>3, <1>4, <1>5, <1>6, <1>7, <1>8 DEF Check!Next, Check!CheckerStep

\* What it leaves on the heap.
LEMMA ObjectsNext ==
  ASSUME ObjectsOfRound, Check!Next
  PROVE  ObjectsOfRound'
  <1> DEFINE Left == {[class |-> "RequireResult", round |-> r] : r \in quiet}
  <1> USE DEF ObjectsOfRound, LiveAt, Check!transfer, Check!Object, Check!Deleted,
              Check!Frees, Check!RoundFrees
  <1>1. CASE Check!Request
    <2>1. at = "sleep" /\ heap = Left
      BY <1>1 DEF Check!Request
    <2> QED
      BY <1>1, <2>1 DEF Check!Request
  <1>2. CASE Check!HandOver
    BY <1>2 DEF Check!HandOver
  <1>3. CASE Check!TransferEnds
    BY <1>3 DEF Check!TransferEnds
  <1>4. CASE Check!Answered
    <2>1. at = "answer" /\ UNCHANGED round /\ round \notin quiet
      BY <1>4 DEF Check!Answered
    <2>2. Check!Deleted(Check!Frees) = Left
      BY <2>1
    <2>3. \/ at' = "down" /\ heap' = {} /\ quiet' = {}
          \/ at' = "sleep" /\ heap' = Left /\ UNCHANGED quiet
          \/ at' = "task" /\ heap' = Left \cup {Check!Object("RequireResult")} /\ UNCHANGED quiet
      BY <1>4, <2>2 DEF Check!Answered, Check!WithoutOffer
    <2> QED
      BY <2>1, <2>3
  <1>5. CASE Check!NoTask
    BY <1>5 DEF Check!NoTask
  <1>6. CASE Check!Task
    BY <1>6 DEF Check!Task
  <1>7. CASE Check!RoundEnds
    BY <1>7 DEF Check!RoundEnds
  <1>8. CASE Check!Restart
    BY <1>8 DEF Check!Restart
  <1> QED
    BY <1>1, <1>2, <1>3, <1>4, <1>5, <1>6, <1>7, <1>8 DEF Check!Next, Check!CheckerStep

LEMMA CheckNext ==
  ASSUME CheckInv, [Next]_vars
  PROVE  CheckInv'
  <1>1. CASE UNCHANGED vars
    BY <1>1 DEF vars, check, CheckInv, AnswerInHand, ObjectsOfRound, Check!OfferIsAnswer,
                Check!CutIsHarmless, Check!Object
  <1>2. CASE NextStream \/ NextMonitor \/ NextRecovery
    BY <1>2 DEF NextStream, NextMonitor, NextRecovery, Streams, Recovers, CheckInv
  <1>3. CASE NextCheck
    BY <1>3, AnswerNext, ObjectsNext DEF NextCheck, Checks, CheckInv
  <1> QED
    BY <1>1, <1>2, <1>3 DEF Next

\* For any md5s and any number of rounds, with an answer in any pieces, cut at
\* any place: an offer is made only of a whole answer, a cut one does nothing,
\* and what a round leaks is the RequireResult of an offer without a task, and
\* nothing else (requireUpdatePackage, check_thread).
THEOREM RequestRight == Spec => []CheckIsRight
  <1>1. CheckInv => CheckIsRight
    <2>1. ASSUME ObjectsOfRound PROVE Check!OnlyResultsLeak
      BY <2>1 DEF ObjectsOfRound, LiveAt, Check!OnlyResultsLeak
    <2> QED
      BY <2>1 DEF CheckInv, CheckIsRight
  <1> QED
    BY CheckInit, CheckNext, <1>1, PTL DEF Spec

-----------------------------------------------------------------------------
(* The messages to home *)

\* What the text of a message and of its length is made of.
Characters ==
    {"0", "1", "2", "3", "4", "5", "6", "7", "8", "9", "{", "}", "'", ":", ", ",
     "type", "SYSTEM_STATUS", "OTA_UPDATE", "data", "version", "2.1", "platform", "rk",
     "event", "EVENT_UPGRADE", "EVENT_DOWNLOAD", "result", "SUCCESS", "FAIL", ""}

\* A text of at most k characters, and one that begins with a brace.
Short(s, k) == s \in Seq(Characters) /\ k \in Nat /\ Len(s) <= k
Opens(s, k) == Short(s, k) /\ 1 <= Len(s) /\ s[1] = "{"

\* Lengths are numbers.
LEMMA LenNat ==
  ASSUME NEW S, NEW s \in Seq(S)
  PROVE  Len(s) \in Nat
  OBVIOUS

LEMMA SumBound ==
  ASSUME NEW x \in Nat, NEW y \in Nat, NEW k \in Nat, NEW l \in Nat, x <= k, y <= l
  PROVE  x + y <= k + l /\ k + l \in Nat
  OBVIOUS

\* Texts one behind the other: their lengths add up, and the first still begins.
LEMMA ShortJoined ==
  ASSUME NEW a, NEW b, NEW k, NEW l, Short(a, k), Short(b, l)
  PROVE  Short(a \o b, k + l)
  <1>1. /\ a \in Seq(Characters) /\ b \in Seq(Characters)
        /\ Len(a) <= k /\ Len(b) <= l /\ k \in Nat /\ l \in Nat
    BY DEF Short
  <1>2. a \o b \in Seq(Characters) /\ Len(a \o b) = Len(a) + Len(b)
    BY <1>1, Concatenated, Zenon
  <1>3. Len(a) \in Nat /\ Len(b) \in Nat
    BY <1>1, LenNat, Zenon
  <1>4. Len(a) + Len(b) <= k + l /\ k + l \in Nat
    BY <1>1, <1>3, SumBound, Zenon
  <1> QED
    BY <1>2, <1>4, Zenon DEF Short

LEMMA LongerJoined ==
  ASSUME NEW a, NEW b, NEW k, NEW l, Short(a, k), Short(b, l), 1 <= Len(a)
  PROVE  1 <= Len(a \o b)
  <1>1. Len(a \o b) = Len(a) + Len(b) /\ Len(a) \in Nat /\ Len(b) \in Nat
    BY Concatenated, LenNat, Zenon DEF Short
  <1> QED
    BY <1>1

LEMMA OpensJoined ==
  ASSUME NEW a, NEW b, NEW k, NEW l, Opens(a, k), Short(b, l)
  PROVE  Opens(a \o b, k + l)
  <1>1. a \in Seq(Characters) /\ b \in Seq(Characters) /\ 1 <= Len(a) /\ a[1] = "{"
    BY DEF Short, Opens
  <1>2. /\ Len(a \o b) = Len(a) + Len(b)
        /\ \A i \in 1 .. Len(a) + Len(b) : (a \o b)[i] = IF i <= Len(a) THEN a[i] ELSE b[i - Len(a)]
    BY <1>1, Concatenated, Zenon
  <1>3. Len(a) \in Nat /\ Len(b) \in Nat
    BY <1>1, LenNat, Zenon
  <1>4. ASSUME NEW x \in Nat, NEW y \in Nat, 1 <= x
        PROVE  1 <= x + y /\ 1 \in 1 .. x + y
    BY <1>4
  <1>5. 1 <= Len(a) + Len(b) /\ 1 \in 1 .. Len(a) + Len(b)
    BY <1>1, <1>3, <1>4, Zenon
  <1>6. 1 <= Len(a \o b) /\ (a \o b)[1] = "{"
    BY <1>1, <1>2, <1>5, Zenon
  <1>7. Short(a \o b, k + l)
    BY ShortJoined, Zenon DEF Opens
  <1> QED
    BY <1>6, <1>7, Zenon DEF Opens

\* One character, and one in quotes.
LEMMA OneShort ==
  ASSUME NEW c \in Characters
  PROVE  Short(<<c>>, 1)
  BY DEF Short

LEMMA QuoteShort ==
  ASSUME NEW c \in Characters
  PROVE  Short(Stream!Quote(c), 3)
  <1>1. "'" \in Characters
    BY Zenon DEF Characters
  <1>2. ASSUME NEW q \in Characters PROVE Short(<<q, c, q>>, 3)
    BY DEF Short
  <1> QED
    BY <1>1, <1>2, Zenon DEF Stream!Quote

\* A field adds four characters to its value.
LEMMA FieldShort ==
  ASSUME NEW name \in Characters, NEW v, NEW k, Short(v, k)
  PROVE  Short(Stream!Field(name, v), 3 + 1 + k)
  <1>1. ":" \in Characters
    BY Zenon DEF Characters
  <1>2. Short(Stream!Quote(name), 3) /\ Short(<<":">>, 1)
    BY <1>1, QuoteShort, OneShort, Zenon
  <1>3. Short(Stream!Quote(name) \o <<":">>, 3 + 1)
    BY <1>2, ShortJoined, Zenon
  <1>4. Short((Stream!Quote(name) \o <<":">>) \o v, 3 + 1 + k)
    BY <1>3, ShortJoined, Zenon
  <1> QED
    BY <1>4, Zenon DEF Stream!Field

\* A larger bound.
LEMMA ShortIn ==
  ASSUME NEW s, NEW k, NEW n \in Nat, Short(s, k), k <= n
  PROVE  Short(s, n)
  <1>1. s \in Seq(Characters) /\ k \in Nat /\ Len(s) <= k /\ Len(s) \in Nat
    BY DEF Short
  <1>2. Len(s) <= n
    BY <1>1
  <1> QED
    BY <1>1, <1>2, Zenon DEF Short

\* Without its first character.
LEMMA TailShort ==
  ASSUME NEW s, NEW k, Short(s, k), 1 <= Len(s)
  PROVE  Short(Tail(s), k)
  BY DEF Short

\* The versions, with the comma in front and without it.
LEMMA VersionsShort == Short(Stream!Versions, 16) /\ Short(Tail(Stream!Versions), 16)
  <1> DEFINE a == Stream!Field("version", Stream!Quote("2.1"))
             b == Stream!Field("platform", Stream!Quote("rk"))
             v == ((<<", ">> \o a) \o <<", ">>) \o b
  <1>1. /\ "version" \in Characters /\ "2.1" \in Characters /\ "platform" \in Characters
        /\ "rk" \in Characters /\ ", " \in Characters
    BY Zenon DEF Characters
  <1>2. Short(a, 3 + 1 + 3) /\ Short(b, 3 + 1 + 3)
    <2>1. Short(Stream!Quote("2.1"), 3) /\ Short(Stream!Quote("rk"), 3)
      BY <1>1, QuoteShort, Zenon
    <2> QED
      BY <1>1, <2>1, FieldShort, Zenon
  <1> HIDE DEF a, b
  <1>3. Short(<<", ">>, 1)
    BY <1>1, OneShort, Zenon
  <1>4. Short(<<", ">> \o a, 1 + (3 + 1 + 3))
    BY <1>2, <1>3, ShortJoined, Zenon
  <1>5. Short((<<", ">> \o a) \o <<", ">>, 1 + (3 + 1 + 3) + 1)
    BY <1>3, <1>4, ShortJoined, Zenon
  <1>6. Short(v, 1 + (3 + 1 + 3) + 1 + (3 + 1 + 3))
    BY <1>2, <1>5, ShortJoined, Zenon
  <1>7. 1 <= Len(v)
    <2>1. 1 <= Len(<<", ">>)
      OBVIOUS
    <2>2. 1 <= Len((<<", ">> \o a) \o <<", ">>)
      BY <1>2, <1>3, <1>4, <2>1, LongerJoined, Zenon
    <2> QED
      BY <1>2, <1>5, <2>2, LongerJoined, Zenon
  <1>8. v = Stream!Versions
    BY Zenon DEF v, a, b, Stream!Versions
  <1> HIDE DEF v
  <1>9. Short(v, 16)
    BY <1>6
  <1>10. Short(Tail(v), 16)
    BY <1>7, <1>9, TailShort, Zenon
  <1> QED
    BY <1>8, <1>9, <1>10, Zenon

\* The body of a message is short enough for a length of two digits.
LEMMA BodyShort ==
  ASSUME NEW m \in Stream!Messages
  PROVE  Opens(Stream!Body(m), 99)
  <1> DEFINE D == Stream!Data(m)
             T == Stream!Field("type", Stream!Quote(m.type))
             F == Stream!Field("data", D)
  <1>1. m.type \in Characters /\ m.event \in Characters /\ m.result \in Characters
    <2>1. PICK t \in {"SYSTEM_STATUS", "OTA_UPDATE"}, e \in {"", "EVENT_UPGRADE", "EVENT_DOWNLOAD"},
               r \in {"", "SUCCESS", "FAIL"} : m = [type |-> t, event |-> e, result |-> r]
      BY Zenon DEF Stream!Messages
    <2>2. m.type = t /\ m.event = e /\ m.result = r
      BY <2>1
    <2>3. t \in Characters /\ e \in Characters /\ r \in Characters
      BY <2>1, Zenon DEF Characters
    <2> QED
      BY <2>2, <2>3, Zenon
  <1>2. /\ "{" \in Characters /\ "}" \in Characters /\ ", " \in Characters
        /\ "type" \in Characters /\ "data" \in Characters
        /\ "event" \in Characters /\ "result" \in Characters
    BY Zenon DEF Characters
  <1>3. Short(<<"{">>, 1) /\ Short(<<"}">>, 1) /\ Short(<<", ">>, 1)
    BY <1>2, OneShort, Zenon
  <1>4. Short(D, 40)
    <2>1. CASE m.type = "SYSTEM_STATUS"
      <3>1. Short(<<"{">> \o Tail(Stream!Versions), 1 + 16)
        BY <1>3, VersionsShort, ShortJoined, Zenon
      <3>2. Short((<<"{">> \o Tail(Stream!Versions)) \o <<"}">>, 1 + 16 + 1)
        BY <1>3, <3>1, ShortJoined, Zenon
      <3>3. D = (<<"{">> \o Tail(Stream!Versions)) \o <<"}">>
        BY <2>1, Zenon DEF Stream!Data
      <3> HIDE DEF D
      <3>4. Short(D, 1 + 16 + 1)
        BY <3>2, <3>3, Zenon
      <3> QED
        BY <3>4, ShortIn
    <2>2. CASE m.type # "SYSTEM_STATUS"
      <3> DEFINE e == Stream!Field("event", Stream!Quote(m.event))
                 r == Stream!Field("result", Stream!Quote(m.result))
                 v == IF m.result = "SUCCESS" THEN Stream!Versions ELSE << >>
                 e3 == (<<"{">> \o e) \o <<", ">>
                 all == ((e3 \o r) \o v) \o <<"}">>
      <3>1. Short(Stream!Quote(m.event), 3) /\ Short(Stream!Quote(m.result), 3)
        BY <1>1, QuoteShort, Zenon
      <3>2. Short(e, 3 + 1 + 3) /\ Short(r, 3 + 1 + 3)
        BY <1>2, <3>1, FieldShort, Zenon
      <3>3. Short(v, 16)
        <4>1. Short(<< >>, 16)
          BY DEF Short
        <4> QED
          BY <4>1, VersionsShort, Zenon
      <3>4. D = all
        BY <2>2, Zenon DEF Stream!Data
      <3> HIDE DEF e, r, v, D
      <3>5. Short(<<"{">> \o e, 1 + (3 + 1 + 3))
        BY <1>3, <3>2, ShortJoined, Zenon
      <3>6. Short(e3, 1 + (3 + 1 + 3) + 1)
        BY <1>3, <3>5, ShortJoined, Zenon
      <3>7. Short(e3 \o r, 1 + (3 + 1 + 3) + 1 + (3 + 1 + 3))
        BY <3>2, <3>6, ShortJoined, Zenon
      <3>8. Short((e3 \o r) \o v, 1 + (3 + 1 + 3) + 1 + (3 + 1 + 3) + 16)
        BY <3>3, <3>7, ShortJoined, Zenon
      <3>9. Short(all, 1 + (3 + 1 + 3) + 1 + (3 + 1 + 3) + 16 + 1)
        BY <1>3, <3>8, ShortJoined, Zenon
      <3> HIDE DEF all
      <3>10. Short(D, 1 + (3 + 1 + 3) + 1 + (3 + 1 + 3) + 16 + 1)
        BY <3>4, <3>9, Zenon
      <3> QED
        BY <3>10, ShortIn
    <2> QED
      BY <2>1, <2>2
  <1>5. Short(T, 3 + 1 + 3)
    BY <1>1, <1>2, QuoteShort, FieldShort, Zenon
  <1>6. Short(F, 3 + 1 + 40)
    BY <1>2, <1>4, FieldShort, Zenon
  <1>7. Stream!Body(m) = (((<<"{">> \o T) \o <<", ">>) \o F) \o <<"}">>
    BY Zenon DEF Stream!Body
  <1> HIDE DEF T, F
  <1>8. Opens(<<"{">>, 1)
    <2>1. 1 <= Len(<<"{">>) /\ <<"{">>[1] = "{"
      OBVIOUS
    <2> QED
      BY <1>3, <2>1, Zenon DEF Opens
  <1>9. Opens(<<"{">> \o T, 1 + (3 + 1 + 3))
    BY <1>5, <1>8, OpensJoined, Zenon
  <1>10. Opens((<<"{">> \o T) \o <<", ">>, 1 + (3 + 1 + 3) + 1)
    BY <1>3, <1>9, OpensJoined, Zenon
  <1>11. Opens(((<<"{">> \o T) \o <<", ">>) \o F, 1 + (3 + 1 + 3) + 1 + (3 + 1 + 40))
    BY <1>6, <1>10, OpensJoined, Zenon
  <1>12. Opens(Stream!Body(m), 1 + (3 + 1 + 3) + 1 + (3 + 1 + 40) + 1)
    BY <1>3, <1>7, <1>11, OpensJoined, Zenon
  <1>13. Short(Stream!Body(m), 99)
    <2>1. Short(Stream!Body(m), 1 + (3 + 1 + 3) + 1 + (3 + 1 + 40) + 1)
      BY <1>12, Zenon DEF Opens
    <2> QED
      BY <2>1, ShortIn
  <1> QED
    BY <1>12, <1>13, Zenon DEF Opens

\* A character that is a digit, and its value.
IsDigit(c) == c \in Stream!ToSet(Stream!DigitChars)
Digit(c) == (CHOOSE d \in 1 .. 10 : Stream!DigitChars[d] = c) - 1

\* Each digit is found again among the ten, and is no colon.
LEMMA DigitFacts ==
  ASSUME NEW k \in 0 .. 9
  PROVE  LET c == Stream!DigitChars[k + 1] IN
         c \in Characters /\ IsDigit(c) /\ c # ":" /\ Digit(c) = k
  <1> DEFINE t == Stream!DigitChars
  <1>1. \A i, j \in 1 .. 10 : t[i] = t[j] => i = j
    BY DEF Stream!DigitChars
  <1>2. \A i \in 1 .. 10 : t[i] # ":" /\ t[i] \in Characters
    <2> DEFINE D == {"0", "1", "2", "3", "4", "5", "6", "7", "8", "9"}
    <2>1. \A i \in 1 .. 10 : t[i] \in D
      BY DEF Stream!DigitChars
    <2>2. ":" \notin D /\ D \subseteq Characters
      BY DEF Characters
    <2> QED
      BY <2>1, <2>2, Zenon
  <1>3. \A i \in 1 .. 10 : t[i] \in Stream!ToSet(t)
    BY DEF Stream!DigitChars, Stream!ToSet
  <1> HIDE DEF t
  <1>4. k + 1 \in 1 .. 10
    OBVIOUS
  <1>5. (CHOOSE d \in 1 .. 10 : t[d] = t[k + 1]) = k + 1
    BY <1>1, <1>4
  <1>6. Digit(t[k + 1]) = k
    <2>1. Digit(t[k + 1]) = (k + 1) - 1
      BY <1>5, Zenon DEF Digit, t
    <2>2. (k + 1) - 1 = k
      OBVIOUS
    <2> QED
      BY <2>1, <2>2, Zenon
  <1>7. t[k + 1] \in Characters /\ IsDigit(t[k + 1]) /\ t[k + 1] # ":"
    BY <1>2, <1>3, <1>4 DEF IsDigit, t
  <1> QED
    BY <1>6, <1>7 DEF t

\* A number of at most two digits is written with one or two of them.
LEMMA NumberFacts ==
  ASSUME NEW n \in 0 .. 99
  PROVE  LET t == Stream!Number(n) IN
         /\ t \in Seq(Characters) /\ Len(t) \in {1, 2}
         /\ \A i \in 1 .. Len(t) : IsDigit(t[i]) /\ t[i] # ":"
         /\ n = IF Len(t) = 1 THEN Digit(t[1]) ELSE 10 * Digit(t[1]) + Digit(t[2])
  <1> DEFINE c(k) == Stream!DigitChars[k + 1]
  <1>1. ASSUME NEW x \in Characters, IsDigit(x), x # ":"
        PROVE  /\ <<x>> \in Seq(Characters) /\ Len(<<x>>) = 1 /\ <<x>>[1] = x
               /\ \A i \in 1 .. 1 : IsDigit(<<x>>[i]) /\ <<x>>[i] # ":"
    BY <1>1
  <1>2. ASSUME NEW x \in Characters, NEW y \in Characters, IsDigit(x), x # ":", IsDigit(y), y # ":"
        PROVE  /\ <<x, y>> \in Seq(Characters) /\ Len(<<x, y>>) = 2 /\ <<x, y>>[1] = x /\ <<x, y>>[2] = y
               /\ \A i \in 1 .. 2 : IsDigit(<<x, y>>[i]) /\ <<x, y>>[i] # ":"
    BY <1>2
  <1>3. CASE n < 10
    <2>1. n \in 0 .. 9 /\ Stream!Number(n) = <<c(n)>>
      BY <1>3 DEF Stream!Number
    <2>2. c(n) \in Characters /\ IsDigit(c(n)) /\ c(n) # ":" /\ Digit(c(n)) = n
      BY <2>1, DigitFacts, Zenon
    <2> HIDE DEF c
    <2> QED
      BY <1>1, <2>1, <2>2
  <1>4. CASE n >= 10
    <2> DEFINE q == n \div 10
               p == n % 10
    <2>1. q \in 0 .. 9
      OBVIOUS
    <2>2. p \in 0 .. 9
      OBVIOUS
    <2>3. n = 10 * q + p
      OBVIOUS
    <2>4. Stream!Number(n) = <<c(q), c(p)>>
      BY <1>4 DEF Stream!Number
    <2> HIDE DEF q, p
    <2>5. /\ c(q) \in Characters /\ IsDigit(c(q)) /\ c(q) # ":" /\ Digit(c(q)) = q
          /\ c(p) \in Characters /\ IsDigit(c(p)) /\ c(p) # ":" /\ Digit(c(p)) = p
      BY <2>1, <2>2, DigitFacts, Zenon
    <2> HIDE DEF c
    <2>6. /\ <<c(q), c(p)>> \in Seq(Characters) /\ Len(<<c(q), c(p)>>) = 2
          /\ <<c(q), c(p)>>[1] = c(q) /\ <<c(q), c(p)>>[2] = c(p)
          /\ \A i \in 1 .. 2 : IsDigit(<<c(q), c(p)>>[i]) /\ <<c(q), c(p)>>[i] # ":"
      BY <1>2, <2>5, Zenon
    <2>7. n = 10 * Digit(c(q)) + Digit(c(p))
      BY <2>3, <2>5, Zenon
    <2>8. 2 # 1 /\ 2 \in {1, 2}
      OBVIOUS
    <2> QED
      BY <2>4, <2>6, <2>7, <2>8, Zenon
  <1> QED
    BY <1>3, <1>4

\* r is what home has of t so far.
Begins(r, t) ==
    /\ r \in Seq(Characters) /\ Len(r) <= Len(t)
    /\ \A i \in 1 .. Len(r) : r[i] = t[i]

\* Wherever home is in a text with d digits, a colon and n characters, it has a
\* message exactly when it has all of it, and finds it behind the colon.
LEMMA ReadsToTheEnd ==
  ASSUME NEW d \in {1, 2}, NEW n \in Nat, NEW t \in Seq(Characters), Len(t) = d + 1 + n,
         \A i \in 1 .. d : IsDigit(t[i]) /\ t[i] # ":",
         t[d + 1] = ":", n >= 1, t[d + 2] # ":",
         n = IF d = 1 THEN Digit(t[1]) ELSE 10 * Digit(t[1]) + Digit(t[2]),
         NEW r, Begins(r, t), Len(r) >= 1
  PROVE  /\ Stream!IsFrame(r) <=> Len(r) = Len(t)
         /\ Stream!IsFrame(r) => Stream!LengthAt(r).from = d + 2
  <1>1. /\ r \in Seq(Characters) /\ Len(r) \in Nat /\ Len(r) <= d + 1 + n
        /\ \A i \in 1 .. Len(r) : r[i] = t[i]
    BY DEF Begins
  <1>2. CASE Len(r) <= d
    <2>1. ~Stream!HasLength(r)
      BY <1>1, <1>2 DEF Stream!HasLength
    <2> QED
      BY <1>1, <1>2, <2>1 DEF Stream!IsFrame
  <1>3. CASE Len(r) > d
    <2>1. /\ r[d + 1] = ":" /\ d + 1 <= Len(r) /\ d + 1 \in 2 .. 3
          /\ \A i \in 1 .. d : IsDigit(r[i]) /\ r[i] # ":" /\ r[i] = t[i]
          /\ d + 2 <= Len(r) => r[d + 2] # ":"
      BY <1>1, <1>3, SMTT(60)
    <2>2. Stream!HasLength(r)
      BY <2>1 DEF Stream!HasLength, IsDigit
    <2> DEFINE colon == CHOOSE i \in 1 .. 3 : i <= Len(r) /\ r[i] = ":"
    <2>3. colon = d + 1
      <3>1. \A i \in 1 .. 3 : i <= Len(r) /\ r[i] = ":" => i = d + 1
        BY <2>1
      <3>2. d + 1 \in 1 .. 3 /\ d + 1 <= Len(r) /\ r[d + 1] = ":"
        BY <2>1
      <3> QED
        BY <3>1, <3>2
    <2>4. Stream!LengthAt(r) = [n |-> IF colon = 2 THEN Digit(r[1]) ELSE 10 * Digit(r[1]) + Digit(r[2]),
                                from |-> colon + 1]
      BY Zenon DEF Stream!LengthAt, Digit
    <2> HIDE DEF colon
    <2>5. Stream!LengthAt(r).from = d + 2
      BY <2>3, <2>4
    <2>6. Stream!LengthAt(r).n = n
      <3>1. CASE d = 1
        <4>1. r[1] = t[1] /\ colon = 2
          BY <2>1, <2>3, <3>1
        <4> QED
          BY <2>4, <3>1, <4>1
      <3>2. CASE d = 2
        <4>1. r[1] = t[1] /\ r[2] = t[2] /\ colon # 2
          BY <2>1, <2>3, <3>2
        <4> QED
          BY <2>4, <3>2, <4>1
      <3> QED
        BY <3>1, <3>2
    <2> QED
      BY <1>1, <2>2, <2>5, <2>6 DEF Stream!IsFrame
  <1> QED
    BY <1>1, <1>2, <1>3

\* Where the colon and the b characters behind it are in a text of t characters,
\* when d digits and the colon are h.
Fits(d, b, h, t) ==
    /\ t = d + 1 + b /\ b >= 1 /\ t >= 1
    /\ \A i \in 1 .. d : i \in 1 .. h + b /\ i <= h
    /\ d + 1 \in 1 .. h + b /\ d + 2 \in 1 .. h + b
    /\ d + 1 <= h /\ ~(d + 2 <= h) /\ (d + 2) - h = 1
    /\ \A i \in 1 .. b : d + 1 + i \in 1 .. h + b /\ ~(d + 1 + i <= h) /\ (d + 1 + i) - h = i

LEMMA Places == \A d \in {1, 2} : \A b \in 1 .. 99 : Fits(d, b, d + 1, d + 1 + b)
  BY DEF Fits

\* Sequences with the same elements are the same.
LEMMA SameSequence ==
  ASSUME NEW S, NEW a \in Seq(S), NEW b \in Seq(S), Len(a) = Len(b),
         \A i \in 1 .. Len(b) : a[i] = b[i]
  PROVE  a = b
  OBVIOUS

\* The text of a message is read as that message, and no part of it is.
LEMMA FrameFacts ==
  ASSUME NEW m \in Stream!Messages
  PROVE  LET t == Stream!JoinElements(m) IN
         /\ t \in Seq(Characters) /\ Len(t) >= 1 /\ Stream!Body(m) \in Seq(Characters)
         /\ \A r : Begins(r, t) /\ Len(r) >= 1 => (Stream!IsFrame(r) <=> Len(r) = Len(t))
         /\ Stream!IsFrame(t) => SubSeq(t, Stream!LengthAt(t).from, Len(t)) = Stream!Body(m)
  <1> DEFINE B == Stream!Body(m)
             N == Stream!Number(Len(B))
             d == Len(N)
             h == N \o <<":">>
             t == h \o B
  <1>1. B \in Seq(Characters) /\ Len(B) <= 99 /\ 1 <= Len(B) /\ B[1] = "{"
    BY BodyShort, Zenon DEF Opens, Short
  <1> HIDE DEF B
  <1>2. Len(B) \in 1 .. 99 /\ Len(B) \in 0 .. 99 /\ Len(B) \in Nat
    <2>1. Len(B) \in Nat
      BY <1>1, LenNat, Zenon
    <2>2. Len(B) <= 99 /\ 1 <= Len(B)
      BY <1>1, Zenon
    <2>3. \A x \in Nat : x <= 99 /\ 1 <= x => x \in 1 .. 99 /\ x \in 0 .. 99
      OBVIOUS
    <2> QED
      BY <2>1, <2>2, <2>3, Zenon
  <1>3. /\ N \in Seq(Characters) /\ d \in {1, 2}
        /\ \A i \in 1 .. d : IsDigit(N[i]) /\ N[i] # ":"
        /\ Len(B) = IF d = 1 THEN Digit(N[1]) ELSE 10 * Digit(N[1]) + Digit(N[2])
    BY <1>2, NumberFacts, Zenon
  <1> HIDE DEF N
  <1>4. <<":">> \in Seq(Characters) /\ Len(<<":">>) = 1 /\ <<":">>[1] = ":"
    <2>1. ":" \in Characters
      BY Zenon DEF Characters
    <2> QED
      BY <2>1
  <1>5. /\ h \in Seq(Characters) /\ Len(h) = d + 1
        /\ \A i \in 1 .. d + 1 : h[i] = IF i <= d THEN N[i] ELSE <<":">>[i - d]
    BY <1>3, <1>4, Concatenated, ZenonT(60)
  <1>6. h[d + 1] = ":" /\ \A i \in 1 .. d : h[i] = N[i]
    <2>1. /\ d + 1 \in 1 .. d + 1 /\ ~(d + 1 <= d) /\ (d + 1) - d = 1
          /\ \A i \in 1 .. d : i \in 1 .. d + 1 /\ i <= d
      BY <1>3
    <2> QED
      BY <1>4, <1>5, <2>1, Zenon
  <1> HIDE DEF h
  <1>7. /\ t \in Seq(Characters) /\ Len(t) = Len(h) + Len(B)
        /\ \A i \in 1 .. Len(h) + Len(B) : t[i] = IF i <= Len(h) THEN h[i] ELSE B[i - Len(h)]
    BY <1>1, <1>5, Concatenated, Zenon
  <1>8. t = Stream!JoinElements(m)
    BY Zenon DEF t, h, N, B, Stream!JoinElements
  <1> HIDE DEF t
  <1>8a. d \in {1, 2} /\ Len(B) \in 1 .. 99 /\ d + 1 = Len(h) /\ d + 1 + Len(B) = Len(t)
    BY <1>2, <1>3, <1>5, <1>7, Zenon
  <1>8b. Fits(d, Len(B), Len(h), Len(t))
    <2>1. Fits(d, Len(B), d + 1, d + 1 + Len(B))
      BY <1>8a, Places, Zenon
    <2> QED
      BY <1>8a, <2>1, Zenon
  <1>9. \A i \in 1 .. d : IsDigit(t[i]) /\ t[i] # ":" /\ t[i] = N[i]
    <2>1. \A i \in 1 .. d : i \in 1 .. Len(h) + Len(B) /\ i <= Len(h)
      BY <1>8b, Zenon DEF Fits
    <2> QED
      BY <1>3, <1>6, <1>7, <2>1, Zenon
  <1>10. t[d + 1] = ":" /\ t[d + 2] = "{"
    <2>1. /\ d + 1 \in 1 .. Len(h) + Len(B) /\ d + 2 \in 1 .. Len(h) + Len(B)
          /\ d + 1 <= Len(h) /\ ~(d + 2 <= Len(h)) /\ (d + 2) - Len(h) = 1
      BY <1>8b, Zenon DEF Fits
    <2> QED
      BY <1>1, <1>6, <1>7, <2>1, Zenon
  <1>11. /\ Len(t) = d + 1 + Len(B) /\ Len(B) >= 1 /\ Len(t) >= 1
    BY <1>8b, Zenon DEF Fits
  <1>12. Len(B) = IF d = 1 THEN Digit(t[1]) ELSE 10 * Digit(t[1]) + Digit(t[2])
    <2>1. 1 \in 1 .. d /\ (d # 1 => 2 \in 1 .. d)
      BY <1>3
    <2> QED
      BY <1>3, <1>9, <2>1, Zenon
  <1>13. ASSUME NEW r, Begins(r, t), Len(r) >= 1
         PROVE  /\ Stream!IsFrame(r) <=> Len(r) = Len(t)
                /\ Stream!IsFrame(r) => Stream!LengthAt(r).from = d + 2
    <2>1. "{" # ":"
      OBVIOUS
    <2>2. /\ t[d + 1] = ":" /\ t[d + 2] # ":"
          /\ \A i \in 1 .. d : IsDigit(t[i]) /\ t[i] # ":"
      BY <1>9, <1>10, <2>1, Zenon
    <2>3. Len(B) \in Nat /\ t \in Seq(Characters) /\ d \in {1, 2}
      BY <1>2, <1>3, <1>7, Zenon
    <2> HIDE DEF d
    <2> QED
      BY <1>11, <1>12, <1>13, <2>2, <2>3, ReadsToTheEnd, ZenonT(60)
  <1>14. Begins(t, t)
    BY <1>7 DEF Begins
  <1>15. SubSeq(t, d + 2, Len(t)) = B
    <2>1. /\ Len(t) = d + 1 + Len(B) /\ \A i \in 1 .. Len(B) : t[d + 1 + i] = B[i]
      <3>1. /\ \A i \in 1 .. Len(B) : d + 1 + i \in 1 .. Len(h) + Len(B) /\ ~(d + 1 + i <= Len(h))
                                      /\ (d + 1 + i) - Len(h) = i
        BY <1>8b, Zenon DEF Fits
      <3> QED
        BY <1>7, <1>11, <3>1, Zenon
    <2>2. ASSUME NEW x \in Seq(Characters), NEW y \in Seq(Characters), NEW e \in 1 .. 2,
                 Len(x) = e + 1 + Len(y), \A i \in 1 .. Len(y) : x[e + 1 + i] = y[i]
          PROVE  SubSeq(x, e + 2, Len(x)) = y
      <3> DEFINE z == SubSeq(x, e + 2, Len(x))
      <3>1. z \in Seq(Characters) /\ Len(z) = Len(y) /\ Len(y) \in Nat
        BY <2>2
      <3>2. \A i \in 1 .. Len(y) : z[i] = x[e + 1 + i]
        BY <2>2
      <3> HIDE DEF z
      <3>3. \A i \in 1 .. Len(y) : z[i] = y[i]
        BY <2>2, <3>2
      <3>4. z = y
        BY <2>2, <3>1, <3>3, SameSequence, Zenon
      <3> QED
        BY <3>4 DEF z
    <2>3. d \in 1 .. 2
      BY <1>3
    <2> QED
      BY <1>1, <1>7, <2>1, <2>2, <2>3, Zenon
  <1>16. Stream!IsFrame(t) => SubSeq(t, Stream!LengthAt(t).from, Len(t)) = B
    BY <1>11, <1>13, <1>14, <1>15, Zenon
  <1> QED
    BY <1>1, <1>7, <1>8, <1>11, <1>13, <1>16, Zenon DEF B

\* w continues t behind its first n characters.
Continues(w, n, t) ==
    /\ w \in Seq(Characters) /\ n + Len(w) <= Len(t)
    /\ \A j \in 1 .. Len(w) : w[j] = t[n + j]

\* The i-th text on the wire is one of the i-th message that home has not cut,
\* or what is left of one; only the last may lack its end, and only when the
\* connection has broken.  Home has a part of the first.  Everything that send
\* took has been cut or is under way while the connection holds.
TextsOnTheWay(q, f, w, r, n, g) ==
    /\ n + Len(w) <= g
    /\ r \in Seq(Characters) /\ w \in Seq(Seq(Characters))
    /\ (r # << >> \/ w # << >>) =>
         /\ n + 1 <= g /\ Begins(r, Stream!JoinElements(q[n + 1]))
         /\ Len(r) < Len(Stream!JoinElements(q[n + 1]))
    /\ \A i \in 1 .. Len(w) :
         LET t == Stream!JoinElements(q[n + i])
             k == IF i = 1 THEN Len(r) ELSE 0
         IN  /\ w[i] # << >> /\ Continues(w[i], k, t)
             /\ (i < Len(w) \/ f \in {"hello", "open"}) => k + Len(w[i]) = Len(t)
    /\ f \in {"hello", "open"} => n + Len(w) = g /\ (w = << >> => r = << >>)

\* What home has cut from this connection.
CutSoFar(q, h, b) ==
    /\ h \in Seq(Seq(Characters))
    /\ \A i \in 1 .. Len(h) : h[i] = Stream!Body(q[b + i])

\* What it has cut from earlier ones is among the messages before this one's.
CutBefore(q, s, b) ==
    /\ s \in Seq(Seq(Characters))
    /\ \E place \in [1 .. Len(s) -> 1 .. b] :
         /\ \A i \in 1 .. Len(s) : s[i] = Stream!Body(q[place[i]])
         /\ \A i \in 1 .. Len(s) : \A j \in 1 .. i - 1 : place[j] < place[i]

\* What send took is what was popped.
Counted ==
    /\ queued \in Seq(Stream!Messages)
    /\ popped = given /\ given \in 0 .. Len(queued) /\ base \in 0 .. given

StreamState ==
    /\ Counted
    /\ CutSoFar(queued, whole, base) /\ CutBefore(queued, before, base)
    /\ TextsOnTheWay(queued, fd, wire, rest, base + Len(whole), given)

StreamInv == part = "stream" => StreamState

\* A sequence with one element more, with one less in front, and with another
\* one there.
LEMMA Appended ==
  ASSUME NEW S, NEW s \in Seq(S), NEW e \in S
  PROVE  LET z == Append(s, e) IN
         /\ z \in Seq(S) /\ Len(z) = Len(s) + 1 /\ z # << >> /\ z[Len(s) + 1] = e
         /\ \A i \in 1 .. Len(s) : z[i] = s[i]
  OBVIOUS

LEMMA WithoutFirst ==
  ASSUME NEW S, NEW s \in Seq(S), s # << >>
  PROVE  /\ Head(s) = s[1] /\ s[1] \in S /\ Len(s) >= 1
         /\ Tail(s) \in Seq(S) /\ Len(Tail(s)) = Len(s) - 1
         /\ \A i \in 1 .. Len(s) - 1 : Tail(s)[i] = s[i + 1]
  OBVIOUS

LEMMA OtherFirst ==
  ASSUME NEW S, NEW s \in Seq(S), s # << >>, NEW e \in S
  PROVE  LET z == <<e>> \o Tail(s) IN
         /\ z \in Seq(S) /\ Len(z) = Len(s) /\ z # << >> /\ z[1] = e
         /\ \A i \in 2 .. Len(s) : z[i] = s[i]
  <1> DEFINE h == <<e>>
             y == Tail(s)
             z == h \o y
  <1>1. h \in Seq(S) /\ Len(h) = 1 /\ h[1] = e
    OBVIOUS
  <1>2. /\ Len(s) \in Nat /\ Len(s) >= 1 /\ y \in Seq(S) /\ Len(y) = Len(s) - 1
        /\ \A i \in 1 .. Len(s) - 1 : y[i] = s[i + 1]
    BY WithoutFirst
  <1> HIDE DEF h, y
  <1>3. /\ z \in Seq(S) /\ Len(z) = Len(h) + Len(y)
        /\ \A i \in 1 .. Len(h) + Len(y) : z[i] = IF i <= Len(h) THEN h[i] ELSE y[i - Len(h)]
    <2>1. h \in Seq(S) /\ y \in Seq(S)
      BY <1>1, <1>2, Zenon
    <2> QED
      BY ONLY <2>1, Concatenated, Zenon
  <1> HIDE DEF z
  <1>4. Len(z) = Len(s) /\ z[1] = e
    BY <1>1, <1>2, <1>3
  <1>5. \A i \in 2 .. Len(s) : z[i] = s[i]
    <2> SUFFICES ASSUME NEW i \in 2 .. Len(s) PROVE z[i] = s[i]
      OBVIOUS
    <2>1. i \in 1 .. Len(h) + Len(y) /\ ~(i <= Len(h)) /\ i - Len(h) = i - 1
          /\ i - 1 \in 1 .. Len(s) - 1 /\ (i - 1) + 1 = i
      BY <1>1, <1>2
    <2> QED
      BY <1>2, <1>3, <2>1, Zenon
  <1>6. z # << >>
    BY <1>2, <1>3, <1>4
  <1> QED
    BY <1>3, <1>4, <1>5, <1>6 DEF z, h, y

LEMMA EmptyLen ==
  ASSUME NEW S, NEW s \in Seq(S)
  PROVE  s = << >> <=> Len(s) = 0
  OBVIOUS

\* The texts of the messages are texts.
LEMMA FrameLen ==
  ASSUME NEW q \in Seq(Stream!Messages), NEW i \in 1 .. Len(q)
  PROVE  Stream!JoinElements(q[i]) \in Seq(Characters) /\ Len(Stream!JoinElements(q[i])) \in Nat \ {0}
  <1>1. q[i] \in Stream!Messages
    OBVIOUS
  <1>2. Stream!JoinElements(q[i]) \in Seq(Characters) /\ Len(Stream!JoinElements(q[i])) >= 1
    BY <1>1, FrameFacts, Zenon
  <1>3. Len(Stream!JoinElements(q[i])) \in Nat
    BY <1>2, LenNat, Zenon
  <1>4. \A x \in Nat : x >= 1 => x \in Nat \ {0}
    OBVIOUS
  <1> QED
    BY <1>2, <1>3, <1>4, Zenon

\* A message that is queued behind changes nothing of the texts.
LEMMA TextsPush ==
  ASSUME NEW q \in Seq(Stream!Messages), NEW m \in Stream!Messages, NEW f, NEW w, NEW r, NEW n \in Nat,
         NEW g \in 0 .. Len(q), TextsOnTheWay(q, f, w, r, n, g)
  PROVE  TextsOnTheWay(Append(q, m), f, w, r, n, g)
  <1>1. \A i \in 1 .. g : Append(q, m)[i] = q[i]
    OBVIOUS
  <1>2. Len(w) \in Nat
    BY LenNat, Zenon DEF TextsOnTheWay
  <1>3. n + Len(w) <= g /\ (r # << >> \/ w # << >> => n + 1 <= g)
    BY Zenon DEF TextsOnTheWay
  <1>4. \A i \in 1 .. Len(w) : n + i \in 1 .. g
    BY <1>2, <1>3
  <1>5. (r # << >> \/ w # << >>) => n + 1 \in 1 .. g
    BY <1>3
  <1> QED
    BY <1>1, <1>4, <1>5, Zenon DEF TextsOnTheWay

\* Nothing of what was under way is left when the connection breaks.
LEMMA TextsBreak ==
  ASSUME NEW q, NEW f, NEW w, NEW r, NEW n \in Nat, NEW g \in Nat, TextsOnTheWay(q, f, w, r, n, g),
         NEW e \in {"reset", "none"}
  PROVE  TextsOnTheWay(q, e, << >>, r, n, g)
  <1>1. Len(w) \in Nat /\ n + Len(w) <= g
    BY LenNat, Zenon DEF TextsOnTheWay
  <1>2. << >> \in Seq(Seq(Characters)) /\ Len(<< >>) = 0 /\ n + 0 <= g /\ e \notin {"hello", "open"}
    BY <1>1
  <1>3. 1 .. 0 = {}
    OBVIOUS
  <1> QED
    BY <1>2, <1>3, Zenon DEF TextsOnTheWay

\* The handshake leaves the texts as they are, as none is under way.
LEMMA TextsShake ==
  ASSUME NEW q, NEW w, NEW r, NEW n, NEW g, TextsOnTheWay(q, "hello", w, r, n, g),
         NEW e \in {"open", "none"}
  PROVE  TextsOnTheWay(q, e, w, r, n, g)
  <1>1. "hello" \in {"hello", "open"}
    OBVIOUS
  <1> QED
    BY <1>1, Zenon DEF TextsOnTheWay

\* A new connection carries nothing yet.
LEMMA TextsConnect ==
  ASSUME NEW q, NEW g \in Nat
  PROVE  TextsOnTheWay(q, "hello", << >>, << >>, g, g)
  <1>1. /\ << >> \in Seq(Seq(Characters)) /\ << >> \in Seq(Characters) /\ Len(<< >>) = 0
        /\ g + 0 = g /\ g <= g
    OBVIOUS
  <1>2. 1 .. 0 = {}
    OBVIOUS
  <1> QED
    BY <1>1, <1>2, Zenon DEF TextsOnTheWay

\* send puts the text of the next message on the wire, or a part of it when the
\* connection breaks.
LEMMA TextsSend ==
  ASSUME NEW q \in Seq(Stream!Messages), NEW w, NEW r, NEW n \in Nat, NEW g \in Nat, g + 1 <= Len(q),
         TextsOnTheWay(q, "open", w, r, n, g),
         NEW p, p # << >>, Continues(p, 0, Stream!JoinElements(q[g + 1])),
         NEW f \in {"open", "reset"}, f = "open" => Len(p) = Len(Stream!JoinElements(q[g + 1]))
  PROVE  TextsOnTheWay(q, f, Append(w, p), r, n, g + 1)
  <1> DEFINE F(i) == Stream!JoinElements(q[i])
             k(i) == IF i = 1 THEN Len(r) ELSE 0
             z == Append(w, p)
  <1>1. "open" \in {"hello", "open"} /\ f \notin {"hello"}
    OBVIOUS
  <1>2. /\ n + Len(w) = g /\ (w = << >> => r = << >>)
        /\ r \in Seq(Characters) /\ w \in Seq(Seq(Characters)) /\ p \in Seq(Characters)
        /\ \A i \in 1 .. Len(w) : w[i] # << >> /\ Continues(w[i], k(i), F(n + i)) /\ k(i) + Len(w[i]) = Len(F(n + i))
    BY <1>1, Zenon DEF TextsOnTheWay, Continues
  <1>3. Len(w) \in Nat /\ Len(r) \in Nat /\ (w = << >> <=> Len(w) = 0) /\ (r = << >> <=> Len(r) = 0)
    BY <1>2, LenNat, EmptyLen, Zenon
  <1>4. /\ z \in Seq(Seq(Characters)) /\ Len(z) = Len(w) + 1 /\ z # << >> /\ z[Len(w) + 1] = p
        /\ \A i \in 1 .. Len(w) : z[i] = w[i]
    <2>1. w \in Seq(Seq(Characters)) /\ p \in Seq(Characters)
      BY <1>2, Zenon
    <2>2. /\ Append(w, p) \in Seq(Seq(Characters)) /\ Len(Append(w, p)) = Len(w) + 1
          /\ Append(w, p) # << >> /\ Append(w, p)[Len(w) + 1] = p
          /\ \A i \in 1 .. Len(w) : Append(w, p)[i] = w[i]
      BY ONLY <2>1, Appended
    <2> QED
      BY <2>2, Zenon
  <1>5. g + 1 \in 1 .. Len(q) /\ Len(q) \in Nat
    <2>1. Len(q) \in Nat
      BY LenNat, Zenon
    <2> QED
      BY <2>1
  <1>6. F(g + 1) \in Seq(Characters) /\ Len(F(g + 1)) \in Nat \ {0}
    BY <1>5, FrameLen, Zenon
  <1> HIDE DEF z, F
  <1>7. n + Len(z) <= g + 1 /\ n + Len(z) = g + 1
    <2>1. n + Len(w) = g /\ Len(w) \in Nat /\ Len(z) = Len(w) + 1
      BY <1>2, <1>3, <1>4, Zenon
    <2> QED
      BY <2>1
  <1>8. n + 1 <= g + 1 /\ Begins(r, F(n + 1)) /\ Len(r) < Len(F(n + 1))
    <2>1. n + 1 <= g + 1
      BY <1>2, <1>3
    <2>2. CASE r # << >> \/ w # << >>
      BY <2>1, <2>2, Zenon DEF TextsOnTheWay, F
    <2>3. CASE r = << >> /\ w = << >>
      <3>1. n = g /\ Len(r) = 0
        BY <1>2, <1>3, <2>3
      <3>2. 0 <= Len(F(g + 1)) /\ 0 < Len(F(g + 1)) /\ 1 .. 0 = {}
        BY <1>6
      <3> QED
        BY <1>2, <2>1, <3>1, <3>2, Zenon DEF Begins
    <2> QED
      BY <2>2, <2>3, Zenon
  <1>9. ASSUME NEW i \in 1 .. Len(z)
        PROVE  /\ z[i] # << >> /\ Continues(z[i], k(i), F(n + i))
               /\ i < Len(z) \/ f = "open" => k(i) + Len(z[i]) = Len(F(n + i))
    <2>1. CASE i \in 1 .. Len(w)
      BY <1>2, <1>4, <2>1, Zenon
    <2>2. CASE i = Len(w) + 1
      <3>1. n + i = g + 1 /\ ~(i < Len(z)) /\ k(i) = 0
        <4>1. n + Len(w) = g /\ Len(w) \in Nat /\ Len(z) = Len(w) + 1 /\ i = Len(w) + 1
          BY <1>2, <1>3, <1>4, <2>2, Zenon
        <4>2. n + i = g + 1 /\ ~(i < Len(z))
          BY <4>1
        <4>3. Len(w) = 0 => Len(r) = 0
          BY <1>2, <1>3, Zenon
        <4>4. i # 1 \/ Len(r) = 0
          BY <4>1, <4>3
        <4> QED
          BY <4>2, <4>4, Zenon
      <3>2. z[i] = p /\ Len(p) \in Nat
        BY <1>2, <1>4, <2>2, LenNat, Zenon
      <3>3. 0 + Len(p) = Len(p)
        BY <3>2
      <3> HIDE DEF k
      <3>4. f = "open" => Len(p) = Len(F(n + i))
        BY <3>1, Zenon DEF F
      <3>5. Continues(p, 0, F(n + i))
        BY <3>1, Zenon DEF F
      <3>6. f = "open" => k(i) + Len(z[i]) = Len(F(n + i))
        BY <3>1, <3>2, <3>3, <3>4, Zenon
      <3>7. Continues(z[i], k(i), F(n + i))
        BY <3>1, <3>2, <3>5, Zenon
      <3> QED
        BY <3>1, <3>2, <3>6, <3>7, Zenon
    <2>3. i \in 1 .. Len(w) \/ i = Len(w) + 1
      BY <1>3, <1>4
    <2> QED
      BY <2>1, <2>2, <2>3, Zenon
  <1>10. f \in {"hello", "open"} <=> f = "open"
    OBVIOUS
  <1> QED
    BY <1>2, <1>4, <1>7, <1>8, <1>9, <1>10, Zenon DEF TextsOnTheWay, z, F

\* With the next character home has one more of the message at the front; what
\* is left of the text is no longer than what is left of the message.
NextCharacter(q, f, w, r, n, g) ==
    LET t == Stream!JoinElements(q[n + 1])
        x == Head(w)
        read == Append(r, Head(x))
    IN  /\ x = w[1] /\ x \in Seq(Characters) /\ x # << >> /\ n + 1 \in 1 .. g
        /\ Begins(read, t) /\ Len(read) = Len(r) + 1 /\ read # << >> /\ Len(read) >= 1
        /\ Len(r) + Len(x) <= Len(t) /\ Continues(x, Len(r), t)
        /\ 1 < Len(w) \/ f \in {"hello", "open"} => Len(r) + Len(x) = Len(t)
        /\ Len(r) \in Nat /\ Len(x) \in Nat \ {0} /\ Len(w) \in Nat \ {0} /\ Len(t) \in Nat

LEMMA ReadFacts ==
  ASSUME NEW q, NEW f, NEW w, NEW r, NEW n \in Nat, NEW g \in Nat,
         TextsOnTheWay(q, f, w, r, n, g), w # << >>,
         Stream!JoinElements(q[n + 1]) \in Seq(Characters)
  PROVE  NextCharacter(q, f, w, r, n, g)
  <1> DEFINE t == Stream!JoinElements(q[n + 1])
             x == Head(w)
             read == Append(r, Head(x))
  <1>1. /\ r \in Seq(Characters) /\ w \in Seq(Seq(Characters)) /\ n + 1 <= g /\ Begins(r, t)
        /\ \A i \in 1 .. Len(w) :
             /\ w[i] # << >> /\ Continues(w[i], IF i = 1 THEN Len(r) ELSE 0, Stream!JoinElements(q[n + i]))
             /\ i < Len(w) \/ f \in {"hello", "open"} =>
                  (IF i = 1 THEN Len(r) ELSE 0) + Len(w[i]) = Len(Stream!JoinElements(q[n + i]))
    BY Zenon DEF TextsOnTheWay
  <1>2. x = w[1] /\ w[1] \in Seq(Characters) /\ Len(w) >= 1 /\ Len(w) \in Nat
    BY <1>1, WithoutFirst, LenNat, Zenon
  <1>3. 1 \in 1 .. Len(w) /\ Len(w) \in Nat \ {0} /\ n + 1 \in 1 .. g
    <2>1. n + 1 <= g
      BY <1>1, Zenon
    <2> QED
      BY <1>2, <2>1
  <1> HIDE DEF x, t
  <1>4. x # << >> /\ Continues(x, Len(r), t) /\ x \in Seq(Characters)
        /\ (1 < Len(w) \/ f \in {"hello", "open"} => Len(r) + Len(x) = Len(t))
    BY <1>1, <1>2, <1>3, Zenon DEF t
  <1>5. Len(r) \in Nat /\ Len(x) \in Nat /\ Len(x) >= 1 /\ Head(x) = x[1] /\ x[1] \in Characters /\ Len(t) \in Nat
    BY <1>1, <1>4, LenNat, WithoutFirst, Zenon DEF t
  <1>6. Len(x) \in Nat \ {0}
    BY <1>5
  <1>7. /\ read \in Seq(Characters) /\ Len(read) = Len(r) + 1 /\ read # << >>
        /\ read[Len(r) + 1] = x[1] /\ \A i \in 1 .. Len(r) : read[i] = r[i]
    <2>1. r \in Seq(Characters) /\ x[1] \in Characters /\ Head(x) = x[1]
      BY <1>1, <1>5, Zenon
    <2>2. LET z == Append(r, x[1]) IN
          /\ z \in Seq(Characters) /\ Len(z) = Len(r) + 1 /\ z # << >> /\ z[Len(r) + 1] = x[1]
          /\ \A i \in 1 .. Len(r) : z[i] = r[i]
      BY ONLY <2>1, Appended, ZenonT(60)
    <2> QED
      BY <2>1, <2>2, Zenon
  <1> HIDE DEF read
  <1>8. Len(r) + Len(x) <= Len(t) /\ x[1] = t[Len(r) + 1]
    <2>1. 1 \in 1 .. Len(x)
      BY <1>5
    <2> QED
      BY <1>4, <2>1, Zenon DEF Continues
  <1>9. Len(read) <= Len(t) /\ Len(read) >= 1
    <2>1. Len(r) + Len(x) <= Len(t) /\ Len(read) = Len(r) + 1
      BY <1>7, <1>8, Zenon
    <2> QED
      BY <1>5, <2>1
  <1>10. \A i \in 1 .. Len(read) : read[i] = t[i]
    <2>1. \A i \in 1 .. Len(r) : r[i] = t[i]
      BY <1>1, Zenon DEF Begins
    <2>2. \A i \in 1 .. Len(read) : i \in 1 .. Len(r) \/ i = Len(r) + 1
      <3>1. Len(read) = Len(r) + 1
        BY <1>7, Zenon
      <3> QED
        BY <1>5, <3>1
    <2> QED
      BY <1>7, <1>8, <2>1, <2>2, Zenon
  <1> QED
    BY <1>2, <1>3, <1>4, <1>5, <1>6, <1>7, <1>8, <1>9, <1>10, Zenon DEF NextCharacter, Begins, x, t, read

\* With the last character of a message home cuts it, and goes on with the next.
LEMMA TextsCut ==
  ASSUME NEW q \in Seq(Stream!Messages), NEW f, NEW w, NEW r, NEW n \in Nat, NEW g \in 0 .. Len(q),
         TextsOnTheWay(q, f, w, r, n, g), w # << >>,
         Len(r) + 1 = Len(Stream!JoinElements(q[n + 1]))
  PROVE  Len(Head(w)) = 1 /\ TextsOnTheWay(q, f, Tail(w), << >>, n + 1, g)
  <1> DEFINE F(i) == Stream!JoinElements(q[i])
             x == Head(w)
             y == Tail(w)
  <1>1. n + 1 \in 1 .. g /\ g \in Nat /\ \A i \in 1 .. g : i \in 1 .. Len(q)
    <2>1. Len(q) \in Nat
      BY LenNat, Zenon
    <2>2. w # << >> => n + 1 <= g
      BY Zenon DEF TextsOnTheWay
    <2> QED
      BY <2>1, <2>2
  <1>2. \A i \in 1 .. g : F(i) \in Seq(Characters) /\ Len(F(i)) \in Nat \ {0}
    BY <1>1, FrameLen, Zenon
  <1>3. /\ Len(r) + Len(x) <= Len(F(n + 1)) /\ Len(r) \in Nat /\ Len(x) \in Nat \ {0}
        /\ Len(w) \in Nat \ {0}
    <2>1. F(n + 1) \in Seq(Characters)
      BY <1>1, <1>2, Zenon
    <2>2. NextCharacter(q, f, w, r, n, g)
      BY <1>1, <2>1, ReadFacts, Zenon
    <2> QED
      BY <2>2, Zenon DEF NextCharacter
  <1>4. Len(x) = 1
    <2>1. Len(r) + 1 = Len(F(n + 1))
      OBVIOUS
    <2>2. \A a \in Nat : \A b \in Nat \ {0} : a + b <= a + 1 => b = 1
      OBVIOUS
    <2> QED
      BY <1>3, <2>1, <2>2, Zenon
  <1>5. /\ r \in Seq(Characters) /\ w \in Seq(Seq(Characters)) /\ n + Len(w) <= g
        /\ f \in {"hello", "open"} => n + Len(w) = g
        /\ \A i \in 1 .. Len(w) :
             /\ w[i] # << >> /\ Continues(w[i], IF i = 1 THEN Len(r) ELSE 0, F(n + i))
             /\ i < Len(w) \/ f \in {"hello", "open"} => (IF i = 1 THEN Len(r) ELSE 0) + Len(w[i]) = Len(F(n + i))
    BY Zenon DEF TextsOnTheWay
  <1>6. /\ y \in Seq(Seq(Characters)) /\ Len(y) = Len(w) - 1
        /\ \A i \in 1 .. Len(w) - 1 : y[i] = w[i + 1]
    BY <1>5, WithoutFirst
  <1>7. << >> \in Seq(Characters) /\ Len(<< >>) = 0
    OBVIOUS
  <1> HIDE DEF x, y, F
  <1>8. /\ n + 1 + Len(y) = n + Len(w) /\ n + 1 + Len(y) <= g
        /\ f \in {"hello", "open"} => n + 1 + Len(y) = g
    <2>1. Len(w) \in Nat \ {0} /\ Len(y) = Len(w) - 1 /\ n + Len(w) <= g
      BY <1>3, <1>5, <1>6, Zenon
    <2>2. n + 1 + Len(y) = n + Len(w)
      BY <2>1
    <2> QED
      BY <1>5, <2>1, <2>2, Zenon
  <1>9. ASSUME << >> # << >> \/ y # << >>
        PROVE  n + 1 + 1 <= g /\ Begins(<< >>, F(n + 1 + 1)) /\ Len(<< >>) < Len(F(n + 1 + 1))
    <2>1. Len(y) # 0 /\ Len(y) \in Nat
      BY <1>6, <1>9, EmptyLen, LenNat, Zenon
    <2>2. n + 1 + 1 <= g /\ n + 1 + 1 \in 1 .. g
      <3>1. n + 1 + Len(y) <= g
        BY <1>8, Zenon
      <3> QED
        BY <1>1, <2>1, <3>1
    <2>3. Len(F(n + 1 + 1)) \in Nat \ {0}
      BY <1>2, <2>2, Zenon
    <2>4. 0 <= Len(F(n + 1 + 1)) /\ 0 < Len(F(n + 1 + 1)) /\ 1 .. 0 = {}
      BY <2>3
    <2> QED
      BY <1>7, <2>2, <2>4, Zenon DEF Begins
  <1>10. ASSUME NEW i \in 1 .. Len(y)
         PROVE  /\ y[i] # << >> /\ Continues(y[i], IF i = 1 THEN Len(<< >>) ELSE 0, F(n + 1 + i))
                /\ i < Len(y) \/ f \in {"hello", "open"} =>
                     (IF i = 1 THEN Len(<< >>) ELSE 0) + Len(y[i]) = Len(F(n + 1 + i))
    <2>1. /\ i \in 1 .. Len(w) - 1 /\ i + 1 \in 1 .. Len(w) /\ i + 1 # 1
          /\ i < Len(y) => i + 1 < Len(w)
      BY <1>3, <1>6, SMTT(60)
    <2>2. n + (i + 1) = n + 1 + i
      OBVIOUS
    <2>3. y[i] = w[i + 1]
      BY <1>6, <2>1, Zenon
    <2>4. (IF i = 1 THEN Len(<< >>) ELSE 0) = 0 /\ (IF i + 1 = 1 THEN Len(r) ELSE 0) = 0
      BY <1>7, <2>1, Zenon
    <2>5. /\ w[i + 1] # << >> /\ Continues(w[i + 1], 0, F(n + (i + 1)))
          /\ i + 1 < Len(w) \/ f \in {"hello", "open"} => 0 + Len(w[i + 1]) = Len(F(n + (i + 1)))
      BY <1>5, <2>1, <2>4, Zenon
    <2> QED
      BY <2>1, <2>2, <2>3, <2>4, <2>5, Zenon
  <1> QED
    BY <1>4, <1>6, <1>7, <1>8, <1>9, <1>10, Zenon DEF TextsOnTheWay, F, x, y

\* Any other character adds to the part that home has.
LEMMA TextsPart ==
  ASSUME NEW q \in Seq(Stream!Messages), NEW f, NEW w, NEW r, NEW n \in Nat, NEW g \in 0 .. Len(q),
         TextsOnTheWay(q, f, w, r, n, g), w # << >>,
         Len(r) + 1 # Len(Stream!JoinElements(q[n + 1]))
  PROVE  TextsOnTheWay(q, f, IF Len(Head(w)) = 1 THEN Tail(w) ELSE <<Tail(Head(w))>> \o Tail(w),
                       Append(r, Head(Head(w))), n, g)
  <1> DEFINE F(i) == Stream!JoinElements(q[i])
             x == Head(w)
             read == Append(r, Head(x))
             z == IF Len(x) = 1 THEN Tail(w) ELSE <<Tail(x)>> \o Tail(w)
  <1>1. n + 1 \in 1 .. g /\ g \in Nat /\ n + 1 \in 1 .. Len(q)
    <2>1. Len(q) \in Nat
      BY LenNat, Zenon
    <2>2. w # << >> => n + 1 <= g
      BY Zenon DEF TextsOnTheWay
    <2> QED
      BY <2>1, <2>2
  <1>2. F(n + 1) \in Seq(Characters)
    BY <1>1, FrameLen, Zenon
  <1>3. /\ x = w[1] /\ x \in Seq(Characters) /\ x # << >> /\ n + 1 \in 1 .. g
        /\ Begins(read, F(n + 1)) /\ Len(read) = Len(r) + 1 /\ read # << >>
        /\ Len(r) + Len(x) <= Len(F(n + 1)) /\ Continues(x, Len(r), F(n + 1))
        /\ 1 < Len(w) \/ f \in {"hello", "open"} => Len(r) + Len(x) = Len(F(n + 1))
        /\ Len(r) \in Nat /\ Len(x) \in Nat \ {0} /\ Len(w) \in Nat \ {0} /\ Len(F(n + 1)) \in Nat
    <2>1. Stream!JoinElements(q[n + 1]) \in Seq(Characters) /\ g \in Nat
      BY <1>1, <1>2, Zenon
    <2>2. NextCharacter(q, f, w, r, n, g)
      BY <2>1, ReadFacts, Zenon
    <2> QED
      BY <2>2, Zenon DEF NextCharacter
  <1>4. Len(r) + 1 # Len(F(n + 1))
    OBVIOUS
  <1>5. /\ w \in Seq(Seq(Characters)) /\ n + Len(w) <= g
        /\ f \in {"hello", "open"} => n + Len(w) = g
        /\ \A i \in 1 .. Len(w) :
             /\ w[i] # << >> /\ Continues(w[i], IF i = 1 THEN Len(r) ELSE 0, F(n + i))
             /\ i < Len(w) \/ f \in {"hello", "open"} => (IF i = 1 THEN Len(r) ELSE 0) + Len(w[i]) = Len(F(n + i))
    BY Zenon DEF TextsOnTheWay
  <1>6. read \in Seq(Characters)
    BY <1>3, Zenon DEF Begins
  <1> HIDE DEF read, F
  <1>7. n + 1 <= g /\ Begins(read, F(n + 1)) /\ Len(read) < Len(F(n + 1))
    <2>1. Len(r) + Len(x) <= Len(F(n + 1)) /\ Len(r) \in Nat /\ Len(x) \in Nat \ {0} /\ Len(F(n + 1)) \in Nat
      BY <1>3, Zenon
    <2> HIDE DEF x
    <2>2. Len(r) + 1 < Len(F(n + 1))
      BY <1>4, <2>1
    <2>3. n + 1 <= g
      BY <1>1
    <2> QED
      BY <1>3, <2>2, <2>3, Zenon
  <1>8. CASE Len(x) = 1
    <2>1. ~(1 < Len(w)) /\ f \notin {"hello", "open"}
      <3>1. Len(r) + Len(x) = Len(r) + 1
        BY <1>8, Zenon
      <3> QED
        BY <1>3, <1>4, <3>1, Zenon
    <2>2. Len(w) = 1
      <3>1. \A a \in Nat \ {0} : ~(1 < a) => a = 1
        OBVIOUS
      <3> QED
        BY <1>3, <2>1, <3>1, Zenon
    <2>3. z = Tail(w) /\ z \in Seq(Seq(Characters)) /\ Len(z) = 0
      <3>1. Tail(w) \in Seq(Seq(Characters)) /\ Len(Tail(w)) = Len(w) - 1
        BY <1>5, WithoutFirst, Zenon
      <3> QED
        BY <1>8, <2>2, <3>1
    <2> HIDE DEF z, x
    <2>4. n + 0 <= g /\ 1 .. 0 = {}
      BY <1>1
    <2>5. TextsOnTheWay(q, f, z, read, n, g)
      BY <1>6, <1>7, <2>1, <2>3, <2>4, Zenon DEF TextsOnTheWay, F
    <2> QED
      BY <2>5, Zenon DEF z, x, read
  <1>9. CASE Len(x) # 1
    <2> DEFINE y == Tail(x)
    <2>1. /\ y \in Seq(Characters) /\ Len(y) = Len(x) - 1
          /\ \A j \in 1 .. Len(x) - 1 : y[j] = x[j + 1]
      BY <1>3, WithoutFirst
    <2>2. z = <<y>> \o Tail(w)
      BY <1>9, Zenon
    <2> HIDE DEF y
    <2>3. /\ z \in Seq(Seq(Characters)) /\ Len(z) = Len(w) /\ z # << >> /\ z[1] = y
          /\ \A i \in 2 .. Len(w) : z[i] = w[i]
      <3>1. w \in Seq(Seq(Characters)) /\ w # << >> /\ y \in Seq(Characters)
        BY <1>5, <2>1, Zenon
      <3> HIDE DEF z
      <3> QED
        BY ONLY <2>2, <3>1, OtherFirst
    <2> HIDE DEF z, x
    <2>4. /\ Len(y) \in Nat \ {0} /\ Len(read) + Len(y) = Len(r) + Len(x)
          /\ \A j \in 1 .. Len(y) : j \in 1 .. Len(x) - 1 /\ j + 1 \in 1 .. Len(x)
                                    /\ Len(r) + (j + 1) = Len(read) + j
      <3>1. /\ Len(y) = Len(x) - 1 /\ Len(read) = Len(r) + 1 /\ Len(r) \in Nat
            /\ Len(x) \in Nat \ {0} /\ Len(x) # 1
        BY <1>3, <1>9, <2>1, Zenon
      <3> QED
        BY <3>1
    <2>5. y # << >>
      <3>1. Len(y) # 0
        BY <2>4
      <3> QED
        BY <2>1, <3>1, EmptyLen, Zenon
    <2>6. Continues(y, Len(read), F(n + 1))
      <3>1. \A j \in 1 .. Len(y) : y[j] = F(n + 1)[Len(read) + j]
        <4> SUFFICES ASSUME NEW j \in 1 .. Len(y) PROVE y[j] = F(n + 1)[Len(read) + j]
          OBVIOUS
        <4>1. y[j] = x[j + 1]
          BY <2>1, <2>4, Zenon
        <4>2. x[j + 1] = F(n + 1)[Len(r) + (j + 1)]
          BY <1>3, <2>4, Zenon DEF Continues
        <4> QED
          BY <2>4, <4>1, <4>2, Zenon
      <3>2. Len(read) + Len(y) <= Len(F(n + 1))
        BY <1>3, <2>4, Zenon
      <3> QED
        BY <2>1, <3>1, <3>2, Zenon DEF Continues
    <2>7. ASSUME NEW i \in 1 .. Len(z)
          PROVE  /\ z[i] # << >> /\ Continues(z[i], IF i = 1 THEN Len(read) ELSE 0, F(n + i))
                 /\ i < Len(z) \/ f \in {"hello", "open"} =>
                      (IF i = 1 THEN Len(read) ELSE 0) + Len(z[i]) = Len(F(n + i))
      <3>1. CASE i = 1
        <4>1. 1 < Len(w) \/ f \in {"hello", "open"} => Len(read) + Len(y) = Len(F(n + 1))
          BY <1>3, <2>4, Zenon
        <4> QED
          BY <2>3, <2>5, <2>6, <3>1, <4>1, Zenon
      <3>2. CASE i # 1
        <4>1. i \in 1 .. Len(w) /\ Len(z) = Len(w) /\ Len(w) \in Nat \ {0}
          BY <1>3, <2>3, Zenon
        <4>2. i \in 2 .. Len(w)
          BY <3>2, <4>1
        <4> QED
          BY <1>5, <2>3, <3>2, <4>1, <4>2, Zenon
      <3> QED
        BY <3>1, <3>2
    <2>8. TextsOnTheWay(q, f, z, read, n, g)
      BY <1>5, <1>6, <1>7, <2>3, <2>7, Zenon DEF TextsOnTheWay, F
    <2> QED
      BY <2>8, Zenon DEF z, x, read
  <1> QED
    BY <1>8, <1>9

\* What has come over the earlier connections and this one is in the order of
\* the queue.
LEMMA CutJoined ==
  ASSUME NEW q, NEW s, NEW h, NEW b \in Nat, NEW g \in Nat,
         CutBefore(q, s, b), CutSoFar(q, h, b), b + Len(h) <= g
  PROVE  CutBefore(q, s \o h, g)
  <1> DEFINE z == s \o h
             ls == Len(s)
             lh == Len(h)
  <1>1. s \in Seq(Seq(Characters)) /\ h \in Seq(Seq(Characters)) /\ ls \in Nat /\ lh \in Nat
    BY LenNat, Zenon DEF CutBefore, CutSoFar
  <1>2. /\ z \in Seq(Seq(Characters)) /\ Len(z) = ls + lh
        /\ \A i \in 1 .. ls + lh : z[i] = IF i <= ls THEN s[i] ELSE h[i - ls]
    <2>1. s \in Seq(Seq(Characters)) /\ h \in Seq(Seq(Characters))
      BY <1>1, Zenon
    <2> QED
      BY ONLY <2>1, Concatenated
  <1>3. PICK place \in [1 .. ls -> 1 .. b] :
          /\ \A i \in 1 .. ls : s[i] = Stream!Body(q[place[i]])
          /\ \A i \in 1 .. ls : \A j \in 1 .. i - 1 : place[j] < place[i]
    BY Zenon DEF CutBefore
  <1>4. \A i \in 1 .. lh : h[i] = Stream!Body(q[b + i])
    BY Zenon DEF CutSoFar
  <1>5. b + lh <= g
    OBVIOUS
  <1> HIDE DEF z, ls, lh
  <1> DEFINE all == [i \in 1 .. ls + lh |-> IF i <= ls THEN place[i] ELSE b + (i - ls)]
  <1>6. \A i \in 1 .. ls : place[i] \in 1 .. b
    BY <1>3
  <1>7. all \in [1 .. ls + lh -> 1 .. g]
    <2> SUFFICES ASSUME NEW i \in 1 .. ls + lh
                 PROVE  (IF i <= ls THEN place[i] ELSE b + (i - ls)) \in 1 .. g
      OBVIOUS
    <2>1. CASE i <= ls
      <3>1. i \in 1 .. ls
        BY <1>1, <2>1
      <3>2. place[i] \in 1 .. b
        BY <1>6, <3>1, Zenon
      <3>3. \A x \in 1 .. b : x \in 1 .. g
        BY <1>1, <1>5
      <3> QED
        BY <2>1, <3>2, <3>3, Zenon
    <2>2. CASE ~(i <= ls)
      <3>1. b + (i - ls) \in 1 .. g
        BY <1>1, <1>5, <2>2
      <3> QED
        BY <2>2, <3>1, Zenon
    <2> QED
      BY <2>1, <2>2
  <1>8. ASSUME NEW i \in 1 .. ls + lh
        PROVE  z[i] = Stream!Body(q[all[i]])
    <2>1. CASE i <= ls
      <3>1. i \in 1 .. ls
        BY <1>1, <2>1
      <3>2. all[i] = place[i] /\ z[i] = s[i]
        BY <1>2, <2>1
      <3> HIDE DEF all
      <3> QED
        BY <1>3, <3>1, <3>2, Zenon
    <2>2. CASE ~(i <= ls)
      <3>1. i - ls \in 1 .. lh
        BY <1>1, <2>2
      <3>2. all[i] = b + (i - ls) /\ z[i] = h[i - ls]
        BY <1>2, <2>2
      <3> HIDE DEF all
      <3> QED
        BY <1>4, <3>1, <3>2, Zenon
    <2> QED
      BY <2>1, <2>2
  <1>9. ASSUME NEW i \in 1 .. ls + lh, NEW j \in 1 .. i - 1
        PROVE  all[j] < all[i]
    <2>1. j \in 1 .. ls + lh /\ j < i
      BY <1>1
    <2>2. /\ all[i] = IF i <= ls THEN place[i] ELSE b + (i - ls)
          /\ all[j] = IF j <= ls THEN place[j] ELSE b + (j - ls)
      BY <2>1
    <2> HIDE DEF all
    <2>3. CASE i <= ls
      <3>1. i \in 1 .. ls /\ j <= ls
        BY <1>1, <2>1, <2>3
      <3>2. place[j] < place[i]
        BY <1>3, <3>1, Zenon
      <3> QED
        BY <2>2, <2>3, <3>1, <3>2, Zenon
    <2>4. CASE ~(i <= ls) /\ j <= ls
      <3>1. j \in 1 .. ls
        BY <1>1, <2>1, <2>4
      <3>2. place[j] \in 1 .. b
        BY <1>6, <3>1, Zenon
      <3>3. \A x \in 1 .. b : x < b + (i - ls)
        BY <1>1, <2>4
      <3>4. all[i] = b + (i - ls) /\ all[j] = place[j]
        BY <2>2, <2>4, Zenon
      <3> QED
        BY <3>2, <3>3, <3>4, Zenon
    <2>5. CASE ~(i <= ls) /\ ~(j <= ls)
      <3>1. all[i] = b + (i - ls) /\ all[j] = b + (j - ls)
        BY <2>2, <2>5, Zenon
      <3>2. b + (j - ls) < b + (i - ls)
        BY <1>1, <2>1
      <3> QED
        BY <3>1, <3>2, Zenon
    <2> QED
      BY <2>3, <2>4, <2>5
  <1> HIDE DEF all
  <1>10. CutBefore(q, z, g)
    BY <1>2, <1>7, <1>8, <1>9, Zenon DEF CutBefore
  <1> QED
    BY <1>10 DEF z

\* A message queued behind changes nothing of what was cut.
LEMMA CutPush ==
  ASSUME NEW q \in Seq(Stream!Messages), NEW m \in Stream!Messages, NEW s, NEW h, NEW b \in Nat,
         b + Len(h) <= Len(q), CutBefore(q, s, b), CutSoFar(q, h, b)
  PROVE  CutBefore(Append(q, m), s, b) /\ CutSoFar(Append(q, m), h, b)
  <1> DEFINE z == Append(q, m)
  <1>1. \A i \in 1 .. Len(q) : z[i] = q[i]
    OBVIOUS
  <1>2. Len(h) \in Nat /\ Len(q) \in Nat
    BY LenNat, Zenon DEF CutSoFar
  <1> HIDE DEF z
  <1>3. CutSoFar(z, h, b)
    <2>1. \A i \in 1 .. Len(h) : b + i \in 1 .. Len(q)
      BY <1>2
    <2> QED
      BY <1>1, <2>1, Zenon DEF CutSoFar
  <1>4. CutBefore(z, s, b)
    <2>1. s \in Seq(Seq(Characters))
      BY Zenon DEF CutBefore
    <2>2. PICK place \in [1 .. Len(s) -> 1 .. b] :
          /\ \A i \in 1 .. Len(s) : s[i] = Stream!Body(q[place[i]])
          /\ \A i \in 1 .. Len(s) : \A j \in 1 .. i - 1 : place[j] < place[i]
      BY Zenon DEF CutBefore
    <2>3. \A i \in 1 .. Len(s) : place[i] \in 1 .. b
      BY <2>2
    <2>4. \A x \in 1 .. b : x \in 1 .. Len(q)
      BY <1>2
    <2>5. \A i \in 1 .. Len(s) : s[i] = Stream!Body(z[place[i]])
      BY <1>1, <2>2, <2>3, <2>4, Zenon
    <2> QED
      BY <2>1, <2>2, <2>5, Zenon DEF CutBefore
  <1> QED
    BY <1>3, <1>4 DEF z

\* One more message cut.
LEMMA CutMore ==
  ASSUME NEW q, NEW h, NEW b \in Nat, CutSoFar(q, h, b), NEW e \in Seq(Characters),
         e = Stream!Body(q[b + Len(h) + 1])
  PROVE  CutSoFar(q, Append(h, e), b) /\ Len(Append(h, e)) = Len(h) + 1
  <1> DEFINE z == Append(h, e)
  <1>1. h \in Seq(Seq(Characters)) /\ \A i \in 1 .. Len(h) : h[i] = Stream!Body(q[b + i])
    BY Zenon DEF CutSoFar
  <1>2. Len(h) \in Nat
    BY <1>1, LenNat, Zenon
  <1>3. /\ z \in Seq(Seq(Characters)) /\ Len(z) = Len(h) + 1 /\ z[Len(h) + 1] = e
        /\ \A i \in 1 .. Len(h) : z[i] = h[i]
    <2>1. h \in Seq(Seq(Characters)) /\ e \in Seq(Characters)
      BY <1>1, Zenon
    <2> QED
      BY ONLY <2>1, Appended
  <1> HIDE DEF z
  <1>4. \A i \in 1 .. Len(h) + 1 : i \in 1 .. Len(h) \/ i = Len(h) + 1
    BY <1>2
  <1>5. b + (Len(h) + 1) = b + Len(h) + 1
    BY <1>2
  <1>6. \A i \in 1 .. Len(z) : z[i] = Stream!Body(q[b + i])
    BY <1>1, <1>3, <1>4, <1>5, Zenon
  <1> QED
    BY <1>3, <1>6, Zenon DEF CutSoFar, z

\* The numbers of a state.
LEMMA StateFacts ==
  ASSUME StreamState
  PROVE  /\ given \in Nat /\ base \in Nat /\ Len(whole) \in Nat /\ Len(queued) \in Nat
         /\ given <= Len(queued) /\ base + Len(whole) \in Nat /\ base + Len(whole) <= given
         /\ queued \in Seq(Stream!Messages)
  <1>1. queued \in Seq(Stream!Messages) /\ given \in 0 .. Len(queued) /\ base \in 0 .. given
    BY Zenon DEF StreamState, Counted
  <1>2. Len(queued) \in Nat /\ Len(whole) \in Nat /\ Len(wire) \in Nat
    BY <1>1, LenNat, Zenon DEF StreamState, CutSoFar, TextsOnTheWay
  <1>3. base + Len(whole) + Len(wire) <= given
    BY Zenon DEF StreamState, TextsOnTheWay
  <1>4. given \in Nat /\ base \in Nat /\ given <= Len(queued)
    BY <1>1, <1>2
  <1>5. base + Len(whole) \in Nat /\ base + Len(whole) <= given
    BY <1>2, <1>3, <1>4
  <1> QED
    BY <1>1, <1>2, <1>4, <1>5, Zenon

LEMMA StatePush ==
  ASSUME StreamState, NEW m \in Stream!Messages, Stream!Push(m)
  PROVE  StreamState'
  <1>1. /\ given \in Nat /\ base \in Nat /\ given <= Len(queued) /\ Len(queued) \in Nat
        /\ base + Len(whole) \in Nat /\ base + Len(whole) <= given
        /\ queued \in Seq(Stream!Messages)
    BY StateFacts, Zenon
  <1>2. /\ queued' = Append(queued, m) /\ popped' = popped /\ given' = given /\ base' = base
        /\ fd' = fd /\ wire' = wire /\ rest' = rest /\ whole' = whole /\ before' = before
    BY Zenon DEF Stream!Push, Stream!link
  <1>3. Append(queued, m) \in Seq(Stream!Messages) /\ Len(Append(queued, m)) = Len(queued) + 1
    BY ONLY <1>1, Appended
  <1>4. base + Len(whole) <= Len(queued) /\ given \in 0 .. Len(queued)
    BY <1>1
  <1>5. CutBefore(Append(queued, m), before, base) /\ CutSoFar(Append(queued, m), whole, base)
    BY <1>1, <1>4, CutPush, Zenon DEF StreamState
  <1>6. TextsOnTheWay(Append(queued, m), fd, wire, rest, base + Len(whole), given)
    BY <1>1, <1>4, TextsPush, Zenon DEF StreamState
  <1>7. Counted'
    <2>1. given \in 0 .. Len(queued) + 1
      BY <1>1
    <2>2. popped = given /\ base \in 0 .. given
      BY Zenon DEF StreamState, Counted
    <2> QED
      BY <1>2, <1>3, <2>1, <2>2, Zenon DEF Counted
  <1> QED
    BY <1>2, <1>5, <1>6, <1>7, Zenon DEF StreamState

LEMMA StateConnect ==
  ASSUME StreamState, Stream!Connect
  PROVE  StreamState'
  <1>1. /\ given \in Nat /\ base \in Nat /\ base + Len(whole) <= given
    BY StateFacts, Zenon
  <1>2. /\ queued' = queued /\ popped' = popped /\ given' = given /\ base' = given
        /\ fd' = "hello" /\ wire' = << >> /\ rest' = << >> /\ whole' = << >> /\ before' = before \o whole
    BY Zenon DEF Stream!Connect
  <1>3. CutBefore(queued, before \o whole, given)
    BY <1>1, CutJoined, Zenon DEF StreamState
  <1>4. << >> \in Seq(Seq(Characters)) /\ Len(<< >>) = 0 /\ 1 .. 0 = {} /\ given + 0 = given /\ given \in 0 .. given
    BY <1>1
  <1>5. CutSoFar(queued, << >>, given)
    BY <1>4, Zenon DEF CutSoFar
  <1>6. TextsOnTheWay(queued, "hello", << >>, << >>, given, given)
    BY <1>1, TextsConnect, Zenon
  <1>7. Counted'
    BY <1>2, <1>4, Zenon DEF StreamState, Counted
  <1>8. given + Len(<< >>) = given
    BY <1>4, Zenon
  <1> QED
    BY <1>2, <1>3, <1>5, <1>6, <1>7, <1>8, Zenon DEF StreamState

\* A step that changes nothing but the connection, and what is on the wire.
LEMMA StateSame ==
  ASSUME StreamState, UNCHANGED <<queued, popped, given, base, rest, whole, before>>,
         TextsOnTheWay(queued, fd', wire', rest, base + Len(whole), given)
  PROVE  StreamState'
  BY Zenon DEF StreamState, Counted

LEMMA StateShake ==
  ASSUME StreamState, Stream!SaysHello \/ Stream!ShakeHands
  PROVE  StreamState'
  <1>1. /\ UNCHANGED <<queued, popped, given, base, rest, whole, before, wire>>
        /\ fd' = fd \/ (fd = "hello" /\ fd' \in {"open", "none"})
    BY DEF Stream!SaysHello, Stream!ShakeHands
  <1>2. TextsOnTheWay(queued, fd, wire, rest, base + Len(whole), given)
    BY Zenon DEF StreamState
  <1>3. TextsOnTheWay(queued, fd', wire, rest, base + Len(whole), given)
    BY <1>1, <1>2, TextsShake, Zenon
  <1> QED
    BY <1>1, <1>3, StateSame, Zenon

LEMMA StateBreak ==
  ASSUME StreamState, Stream!Break
  PROVE  StreamState'
  <1>1. /\ UNCHANGED <<queued, popped, given, base, rest, whole, before>>
        /\ wire' = << >> /\ fd' \in {"reset", "none"}
    BY DEF Stream!Break
  <1>2. /\ TextsOnTheWay(queued, fd, wire, rest, base + Len(whole), given)
        /\ given \in Nat /\ base + Len(whole) \in Nat
    BY StateFacts, Zenon DEF StreamState
  <1>3. TextsOnTheWay(queued, fd', << >>, rest, base + Len(whole), given)
    BY <1>1, <1>2, TextsBreak, Zenon
  <1> QED
    BY <1>1, <1>3, StateSame, Zenon

LEMMA StateSend ==
  ASSUME StreamState, Stream!Send
  PROVE  StreamState'
  <1> DEFINE t == Stream!JoinElements(queued[popped + 1])
  <1>1. /\ given \in Nat /\ base \in Nat /\ given <= Len(queued) /\ Len(queued) \in Nat
        /\ base + Len(whole) \in Nat /\ queued \in Seq(Stream!Messages)
    BY StateFacts, Zenon
  <1>2. /\ UNCHANGED <<queued, base, rest, whole, before>> /\ popped < Len(queued)
    BY Zenon DEF Stream!Send
  <1>3. popped = given /\ popped + 1 = given + 1 /\ base \in 0 .. given
    BY Zenon DEF StreamState, Counted
  <1>4. given + 1 <= Len(queued) /\ given + 1 \in 1 .. Len(queued)
    BY <1>1, <1>2, <1>3
  <1>5. t \in Seq(Characters) /\ Len(t) \in Nat \ {0}
    BY <1>1, <1>3, <1>4, FrameLen, Zenon
  <1> HIDE DEF t
  <1>6. CASE fd = "reset" /\ popped' = Stream!PopsIfSent(-1) /\ UNCHANGED <<fd, wire, given>>
    <2>1. popped' = popped
      BY <1>6 DEF Stream!PopsIfSent
    <2> QED
      BY <1>2, <1>6, <2>1, StateSame, Zenon DEF StreamState
  <1>7. ASSUME NEW p, fd = "open", given' = given + 1, wire' = Append(wire, p), p # << >>,
               popped' = popped + 1, Continues(p, 0, t),
               fd' \in {"open", "reset"}, fd' = "open" => Len(p) = Len(t)
        PROVE  StreamState'
    <2>1. TextsOnTheWay(queued, "open", wire, rest, base + Len(whole), given)
      BY <1>7, Zenon DEF StreamState
    <2>2. t = Stream!JoinElements(queued[given + 1])
      BY <1>3, Zenon DEF t
    <2>3. TextsOnTheWay(queued, fd', Append(wire, p), rest, base + Len(whole), given + 1)
      BY <1>1, <1>4, <1>7, <2>1, <2>2, TextsSend, Zenon
    <2>4. given + 1 \in 0 .. Len(queued) /\ base \in 0 .. given + 1
      BY <1>1, <1>3, <1>4
    <2>5. Counted'
      BY <1>1, <1>2, <1>3, <1>7, <2>4, Zenon DEF Counted
    <2> QED
      BY <1>2, <1>7, <2>3, <2>5, Zenon DEF StreamState
  <1>8. CASE fd = "open" /\ given' = given + 1 /\ wire' = Append(wire, t)
             /\ popped' = Stream!PopsIfSent(Len(t)) /\ UNCHANGED fd
    <2>1. popped' = popped + 1
      <3>1. ~(Len(t) < 0)
        BY <1>5
      <3> QED
        BY <1>8, <3>1, Zenon DEF Stream!PopsIfSent
    <2>2. t # << >> /\ Continues(t, 0, t)
      <3>1. Len(t) # 0 /\ 0 + Len(t) <= Len(t) /\ \A j \in 1 .. Len(t) : 0 + j = j
        BY <1>5
      <3>2. t # << >>
        BY <1>5, <3>1, EmptyLen, Zenon
      <3> QED
        BY <1>5, <3>1, <3>2, Zenon DEF Continues
    <2>3. fd' \in {"open", "reset"}
      BY <1>8
    <2> QED
      BY <1>7, <1>8, <2>1, <2>2, <2>3, Zenon
  <1>9. CASE \E n \in 1 .. Len(t) - 1 :
                /\ fd = "open" /\ given' = given + 1 /\ fd' = "reset"
                /\ wire' = Append(wire, SubSeq(t, 1, n)) /\ popped' = Stream!PopsIfSent(n)
    <2>1. PICK n \in 1 .. Len(t) - 1 :
                /\ fd = "open" /\ given' = given + 1 /\ fd' = "reset"
                /\ wire' = Append(wire, SubSeq(t, 1, n)) /\ popped' = Stream!PopsIfSent(n)
      BY <1>9, Zenon
    <2> DEFINE p == SubSeq(t, 1, n)
    <2>2. n \in 0 .. Len(t) /\ n # 0 /\ ~(n < 0) /\ 0 + n <= Len(t)
      BY <1>5, <2>1
    <2>3. p \in Seq(Characters) /\ Len(p) = n /\ \A i \in 1 .. n : p[i] = t[i]
      <3>1. n \in 0 .. Len(t)
        BY <2>2, Zenon
      <3> QED
        BY ONLY <1>5, <3>1, FirstOf
    <2> HIDE DEF p
    <2>4. p # << >> /\ Continues(p, 0, t)
      <3>1. \A j \in 1 .. n : 0 + j = j
        OBVIOUS
      <3>2. p # << >>
        BY <2>2, <2>3, EmptyLen, Zenon
      <3> QED
        BY <2>2, <2>3, <3>1, <3>2, Zenon DEF Continues
    <2>5. popped' = popped + 1
      BY <2>1, <2>2, Zenon DEF Stream!PopsIfSent
    <2>6. wire' = Append(wire, p)
      BY <2>1, Zenon DEF p
    <2>7. fd' \in {"open", "reset"} /\ fd' # "open"
      BY <2>1
    <2> QED
      BY <1>7, <2>1, <2>4, <2>5, <2>6, <2>7, Zenon
  <1> QED
    BY <1>6, <1>8, <1>9, Zenon DEF Stream!Send, t

LEMMA StateArrive ==
  ASSUME StreamState, Stream!Arrive
  PROVE  StreamState'
  <1> DEFINE text == Head(wire)
             read == Append(rest, Head(text))
             n == base + Len(whole)
             m == queued[n + 1]
             t == Stream!JoinElements(m)
             onward == IF Len(text) = 1 THEN Tail(wire) ELSE <<Tail(text)>> \o Tail(wire)
  <1>1. /\ given \in Nat /\ base \in Nat /\ given <= Len(queued) /\ Len(queued) \in Nat
        /\ n \in Nat /\ queued \in Seq(Stream!Messages) /\ Len(whole) \in Nat /\ n <= given
    BY StateFacts, Zenon
  <1>2. UNCHANGED <<queued, popped, fd, given, base, before>> /\ wire # << >> /\ wire' = onward
    BY Zenon DEF Stream!Arrive, Stream!link
  <1>3. TextsOnTheWay(queued, fd, wire, rest, n, given)
    BY Zenon DEF StreamState
  <1> HIDE DEF n
  <1>4. n + 1 \in 1 .. Len(queued) /\ given \in 0 .. Len(queued)
    <2>1. n + 1 <= given
      BY <1>2, <1>3, Zenon DEF TextsOnTheWay
    <2> QED
      BY <1>1, <2>1
  <1>5. m \in Stream!Messages
    BY <1>1, <1>4
  <1>6. t \in Seq(Characters)
    BY <1>1, <1>4, FrameLen, Zenon
  <1>7. NextCharacter(queued, fd, wire, rest, n, given)
    BY <1>1, <1>2, <1>3, <1>6, ReadFacts, Zenon
  <1>8. Begins(read, t) /\ Len(read) = Len(rest) + 1 /\ Len(read) >= 1
    BY <1>7, Zenon DEF NextCharacter
  <1> HIDE DEF read, m
  <1>9. Stream!IsFrame(read) <=> Len(read) = Len(t)
    BY <1>5, <1>8, FrameFacts, Zenon
  <1>10. CASE Stream!IsFrame(read)
    <2>1. rest' = << >> /\ whole' = Append(whole, SubSeq(read, Stream!LengthAt(read).from, Len(read)))
      BY <1>10, Zenon DEF Stream!Arrive, read
    <2>2. read = t
      <3>1. read \in Seq(Characters) /\ Len(read) = Len(t) /\ \A i \in 1 .. Len(read) : read[i] = t[i]
        BY <1>8, <1>9, <1>10, Zenon DEF Begins
      <3> QED
        BY <1>6, <3>1, SameSequence, Zenon
    <2> DEFINE e == SubSeq(read, Stream!LengthAt(read).from, Len(read))
    <2>3. e = Stream!Body(m) /\ Stream!Body(m) \in Seq(Characters)
      BY <1>5, <1>10, <2>2, FrameFacts, Zenon
    <2> HIDE DEF e
    <2>4. CutSoFar(queued, Append(whole, e), base) /\ Len(Append(whole, e)) = Len(whole) + 1
      <3>1. CutSoFar(queued, whole, base) /\ e \in Seq(Characters) /\ base \in Nat
        BY <1>1, <2>3, Zenon DEF StreamState
      <3>2. e = Stream!Body(queued[base + Len(whole) + 1])
        BY <2>3, Zenon DEF m, n
      <3> QED
        BY <3>1, <3>2, CutMore, Zenon
    <2>5. Len(text) = 1 /\ TextsOnTheWay(queued, fd, Tail(wire), << >>, n + 1, given)
      <3>1. Len(rest) + 1 = Len(Stream!JoinElements(queued[n + 1]))
        BY <1>8, <1>9, <1>10, Zenon DEF m
      <3> QED
        BY <1>1, <1>2, <1>3, <1>4, <3>1, TextsCut, Zenon
    <2>6. whole' = Append(whole, e) /\ wire' = Tail(wire)
      BY <1>2, <2>1, <2>5, Zenon DEF e
    <2>7. base + (Len(whole) + 1) = n + 1
      BY <1>1 DEF n
    <2> HIDE DEF onward, text
    <2>8. /\ CutSoFar(queued, whole', base)
          /\ TextsOnTheWay(queued, fd, wire', rest', base + Len(whole'), given)
      BY <2>1, <2>4, <2>5, <2>6, <2>7, Zenon
    <2> QED
      BY <1>2, <2>8, Zenon DEF StreamState, Counted
  <1>11. CASE ~Stream!IsFrame(read)
    <2>1. rest' = read /\ whole' = whole
      BY <1>11, Zenon DEF Stream!Arrive, read
    <2>2. Len(rest) + 1 # Len(Stream!JoinElements(queued[n + 1]))
      BY <1>8, <1>9, <1>11, Zenon DEF m
    <2>3. TextsOnTheWay(queued, fd, onward, read, n, given)
      BY <1>1, <1>2, <1>3, <1>4, <2>2, TextsPart, Zenon DEF read
    <2> HIDE DEF onward
    <2> QED
      BY <1>2, <2>1, <2>3, Zenon DEF StreamState, Counted, n
  <1> QED
    BY <1>10, <1>11

\* Every step of the connection, of home and of the server keeps it.
LEMMA StreamNext ==
  ASSUME StreamInv, [Next]_vars
  PROVE  StreamInv'
  <1>1. SUFFICES ASSUME part' = "stream" PROVE StreamState'
    BY DEF StreamInv
  <1>2. CASE UNCHANGED vars
    BY <1>1, <1>2, Zenon DEF vars, stream, StreamInv, StreamState, Counted
  <1>3. CASE NextCheck \/ NextMonitor \/ NextRecovery
    BY <1>1, <1>3 DEF NextCheck, NextMonitor, NextRecovery, Checks, Recovers
  <1>4. CASE NextStream
    <2>1. StreamState /\ Stream!Next
      BY <1>4, Zenon DEF NextStream, Streams, StreamInv
    <2> QED
      BY <2>1, StateConnect, StateShake, StateSend, StateArrive, StateBreak, StatePush, Zenon
         DEF Stream!Next
  <1> QED
    BY <1>2, <1>3, <1>4 DEF Next

LEMMA StreamInit == Init => StreamInv
  <1>1. SUFFICES ASSUME Init PROVE StreamState
    BY DEF StreamInv
  <1>2. /\ queued = << >> /\ popped = 0 /\ fd = "none" /\ wire = << >> /\ rest = << >>
        /\ whole = << >> /\ before = << >> /\ given = 0 /\ base = 0
    BY <1>1, Zenon DEF Init, Stream!Init
  <1>3. /\ << >> \in Seq(Seq(Characters)) /\ << >> \in Seq(Characters) /\ Len(<< >>) = 0
        /\ << >> \in Seq(Stream!Messages) /\ 0 \in 0 .. 0 /\ 0 + 0 = 0 /\ 1 .. 0 = {} /\ 0 \in Nat /\ 0 <= 0
    OBVIOUS
  <1>4. CutSoFar(<< >>, << >>, 0)
    BY <1>3, Zenon DEF CutSoFar
  <1>5. CutBefore(<< >>, << >>, 0)
    <2>1. [i \in 1 .. 0 |-> 0] \in [1 .. 0 -> 1 .. 0]
      BY <1>3, Zenon
    <2> QED
      BY <1>3, <2>1, Zenon DEF CutBefore
  <1>6. TextsOnTheWay(<< >>, "none", << >>, << >>, 0, 0)
    <2>1. "none" \notin {"hello", "open"}
      OBVIOUS
    <2> QED
      BY <1>3, <2>1, Zenon DEF TextsOnTheWay
  <1> QED
    BY <1>2, <1>3, <1>4, <1>5, <1>6, Zenon DEF StreamState, Counted

\* The bodies of the messages in the queue, and some of them in a row.
LEMMA BodiesFacts ==
  ASSUME NEW q \in Seq(Stream!Messages), NEW a \in Nat, NEW b \in Nat, a <= b, b <= Len(q)
  PROVE  LET s == SubSeq(Stream!Bodies(q), a + 1, b) IN
         /\ s \in Seq(Seq(Characters)) /\ Len(s) = b - a
         /\ \A i \in 1 .. b - a : s[i] = Stream!Body(q[a + i])
  <1> DEFINE z == Stream!Bodies(q)
             s == SubSeq(z, a + 1, b)
  <1>1. \A i \in 1 .. Len(q) : Stream!Body(q[i]) \in Seq(Characters)
    <2> SUFFICES ASSUME NEW i \in 1 .. Len(q) PROVE Stream!Body(q[i]) \in Seq(Characters)
      OBVIOUS
    <2>1. q[i] \in Stream!Messages
      OBVIOUS
    <2> QED
      BY <2>1, FrameFacts, Zenon
  <1>2. Len(q) \in Nat
    BY LenNat, Zenon
  <1>3. /\ z \in Seq(Seq(Characters)) /\ Len(z) = Len(q)
        /\ \A i \in 1 .. Len(q) : z[i] = Stream!Body(q[i])
    BY <1>1, <1>2 DEF Stream!Bodies
  <1> HIDE DEF z
  <1>4. /\ s \in Seq(Seq(Characters)) /\ Len(s) = b - a
        /\ \A i \in 1 .. b - a : s[i] = z[a + i]
    <2>1. ASSUME NEW S, NEW y \in Seq(S), b <= Len(y)
          PROVE  LET x == SubSeq(y, a + 1, b) IN
                 x \in Seq(S) /\ Len(x) = b - a /\ \A i \in 1 .. b - a : x[i] = y[a + i]
      BY <2>1
    <2>2. b <= Len(z)
      BY <1>3, Zenon
    <2> QED
      BY <1>3, <2>1, <2>2
  <1> HIDE DEF s
  <1>5. \A i \in 1 .. b - a : a + i \in 1 .. Len(q)
    BY <1>2
  <1> QED
    BY <1>3, <1>4, <1>5, Zenon DEF s, z

\* For any number of messages and connections, wherever the stream ends: what
\* home cuts from a connection are the messages that send took, whole, in order
\* and without a gap (JoinElements, send).
THEOREM FramesHold == Spec => []FramesAreMessages
  <1>1. ASSUME StreamState PROVE Stream!FramesAreMessages
    <2> DEFINE n == base + Len(whole)
    <2>1. /\ queued \in Seq(Stream!Messages) /\ base \in Nat /\ n \in Nat /\ n <= given
          /\ given <= Len(queued) /\ given \in Nat /\ Len(queued) \in Nat /\ Len(whole) \in Nat
      BY <1>1, StateFacts, Zenon
    <2>2. base <= n /\ n <= Len(queued) /\ n - base = Len(whole)
      BY <2>1
    <2>3. /\ whole \in Seq(Seq(Characters)) /\ popped = given
          /\ \A i \in 1 .. Len(whole) : whole[i] = Stream!Body(queued[base + i])
      BY <1>1, Zenon DEF StreamState, CutSoFar, Counted
    <2>4. /\ fd \in {"hello", "open"} => n + Len(wire) = given /\ (wire = << >> => rest = << >>)
      BY <1>1, Zenon DEF StreamState, TextsOnTheWay
    <2> HIDE DEF n
    <2> DEFINE s == SubSeq(Stream!Bodies(queued), base + 1, n)
    <2>5. /\ s \in Seq(Seq(Characters)) /\ Len(s) = n - base
          /\ \A i \in 1 .. n - base : s[i] = Stream!Body(queued[base + i])
      BY <2>1, <2>2, BodiesFacts, Zenon
    <2> HIDE DEF s
    <2>6. whole = s
      <3>1. Len(whole) = Len(s) /\ \A i \in 1 .. Len(s) : whole[i] = s[i]
        BY <2>2, <2>3, <2>5, Zenon
      <3> QED
        BY <2>3, <2>5, <3>1, SameSequence, Zenon
    <2>7. fd = "open" /\ wire = << >> => n = given /\ rest = << >>
      <3>1. Len(<< >>) = 0 /\ n + 0 = n /\ "open" \in {"hello", "open"}
        BY <2>1
      <3> QED
        BY <2>4, <3>1, Zenon
    <2> QED
      BY <2>1, <2>3, <2>6, <2>7, Zenon DEF Stream!FramesAreMessages, n, s
  <1>2. StreamInv => FramesAreMessages
    BY <1>1, Zenon DEF StreamInv, FramesAreMessages
  <1> QED
    BY StreamInit, StreamNext, <1>2, PTL DEF Spec

\* However often connections break and are replaced, no message arrives twice or
\* out of turn, and none before it was popped (the loop of sock_server_thread).
THEOREM InTurn == Spec => []InOrderOnce
  <1>1. ASSUME StreamState PROVE Stream!InOrderOnce
    <2> DEFINE t == SubSeq(Stream!Bodies(queued), 0 + 1, popped)
               s == before \o whole
    <2>1. /\ queued \in Seq(Stream!Messages) /\ base \in Nat /\ base + Len(whole) <= given
          /\ given <= Len(queued) /\ given \in Nat
      BY <1>1, StateFacts, Zenon
    <2>2. popped = given
      BY <1>1, Zenon DEF StreamState, Counted
    <2>3. CutBefore(queued, s, given)
      BY <1>1, <2>1, CutJoined, Zenon DEF StreamState
    <2>4. 0 \in Nat /\ 0 <= given /\ given - 0 = given /\ 0 + 1 = 1 /\ \A i \in 1 .. given : 0 + i = i
      BY <2>1
    <2>5. Len(t) = given /\ \A i \in 1 .. given : t[i] = Stream!Body(queued[i])
      <3>1. Len(t) = given - 0 /\ \A i \in 1 .. given - 0 : t[i] = Stream!Body(queued[0 + i])
        BY <2>1, <2>2, <2>4, BodiesFacts, Zenon
      <3> QED
        BY <2>4, <3>1, Zenon
    <2> HIDE DEF t, s
    <2>6. PICK place \in [1 .. Len(s) -> 1 .. given] :
            /\ \A i \in 1 .. Len(s) : s[i] = Stream!Body(queued[place[i]])
            /\ \A i \in 1 .. Len(s) : \A j \in 1 .. i - 1 : place[j] < place[i]
      BY <2>3, Zenon DEF CutBefore
    <2>7. \A i \in 1 .. Len(s) : place[i] \in 1 .. given
      BY <2>6
    <2>8. \A i \in 1 .. Len(s) : s[i] = t[place[i]]
      BY <2>5, <2>6, <2>7, Zenon
    <2>9. Stream!IsSubsequence(s, t)
      BY <2>5, <2>6, <2>8, Zenon DEF Stream!IsSubsequence
    <2> QED
      BY <2>4, <2>9, Zenon DEF Stream!InOrderOnce, s, t
  <1>2. StreamInv => InOrderOnce
    BY <1>1, Zenon DEF StreamInv, InOrderOnce
  <1> QED
    BY StreamInit, StreamNext, <1>2, PTL DEF Spec
================================================================================
