------------------------------- MODULE MiscProofs -------------------------------
(***************************************************************************)
(* The misc partition, for any sizes, any bad blocks, any number of calls, *)
(* of failures and of losses of power: a boot message lies where it is     *)
(* read, or the call said that it failed, in both branches of mtdutils.c   *)
(* (in raw flash, unless the call gave a block up); and in the branch that *)
(* is built it is one cell of storage.                                     *)
(***************************************************************************)
EXTENDS DeviceProofs, FiniteSetTheorems

-----------------------------------------------------------------------------
(* The boot message, in the branch that is built *)

\* The sizes, and where the message goes.
LEMMA BuiltFacts ==
  /\ BuiltSize \in Nat /\ BuiltBlock \in Nat \ {0} /\ BuiltMisc!Want \in Nat
  /\ BuiltMisc!Want <= BuiltSize
  /\ BuiltMisc!BootUnit \in 1 .. BuiltMisc!Want
  /\ BuiltMisc!CommandUnit = BuiltMisc!BootUnit
  /\ BuiltFaults \in Nat /\ BuiltCalls \in Nat
  /\ Messages \cap (Nat \cup {Zero, Erased, Torn}) = {} /\ "idle" \notin Messages
  BY DeviceAssumption DEF BuiltMisc!MiscAssumption, BuiltMisc!MessageAssumption, BuiltMisc!Want,
     BuiltMisc!MiscPages, BuiltMisc!BootUnit, BuiltMisc!CommandUnit

\* What write_block puts into a unit: the pages with the message in, and zeros
\* behind them.
Written(u) ==
    IF u = BuiltMisc!BootUnit THEN msg ELSE IF u <= BuiltMisc!Want THEN before[u] ELSE Zero

\* Units of the partition that were written so far have what they should, the
\* others what they had; before that, what was read is what was there.
HalfWay ==
    /\ pc \in {"idle", "read", "write", "close"}
    /\ pos = count /\ pos <= BuiltSize
    /\ pc = "read" =>
         flash = before /\ \A u \in 1 .. BuiltMisc!Want : u <= count => data[u] = before[u]
    /\ pc \in {"write", "close"} =>
         /\ \A u \in 1 .. BuiltMisc!Want : data[u] = Written(u)
         /\ \A u \in BuiltMisc!Units : flash[u] = IF u <= count THEN Written(u) ELSE before[u]
    /\ pc = "close" => BuiltMisc!Want <= count

BuiltInv ==
    part = "rockchip" => BuiltMisc!TypeOK /\ HalfWay /\ BuiltMisc!PagesKept

LEMMA BuiltInit == Init => BuiltInv
  <1> SUFFICES ASSUME Init, part = "rockchip"
               PROVE  BuiltMisc!TypeOK /\ HalfWay /\ BuiltMisc!PagesKept
    BY DEF BuiltInv
  <1>1. BuiltMisc!Init
    BY DEF Init
  <1>0. misread \in BOOLEAN
    BY <1>1, Zenon DEF BuiltMisc!Init
  <1>2. BuiltMisc!TypeOK
    BY <1>0, <1>1, BuiltFacts DEF BuiltMisc!Init, BuiltMisc!TypeOK, BuiltMisc!Steps,
       BuiltMisc!Contents, BuiltMisc!Units
  <1>3. HalfWay
    BY <1>1, BuiltFacts DEF BuiltMisc!Init, HalfWay
  <1>4. BuiltMisc!PagesKept
    BY <1>1 DEF BuiltMisc!Init, BuiltMisc!PagesKept
  <1> QED
    BY <1>2, <1>3, <1>4

\* A write that comes to the unit n of its block, with the one behind it torn
\* or as it was.
LEMMA PartlyFacts ==
  ASSUME BuiltMisc!TypeOK, HalfWay, pc = "write", ~BuiltMisc!AtEnd,
         NEW n \in 0 .. BuiltBlock, NEW torn \in BOOLEAN
  PROVE  LET f == BuiltMisc!Partly(n, torn) IN
         /\ f \in [BuiltMisc!Units -> BuiltMisc!Contents]
         /\ \A u \in BuiltMisc!Units :
               f[u] = IF u <= count + n THEN Written(u)
                      ELSE IF torn /\ u = count + n + 1 /\ u <= count + BuiltBlock THEN Torn
                      ELSE before[u]
  <1> DEFINE f == BuiltMisc!Partly(n, torn)
  <1>1. /\ flash \in [BuiltMisc!Units -> BuiltMisc!Contents]
        /\ data \in [1 .. BuiltMisc!Want -> BuiltMisc!Contents]
        /\ count \in Nat /\ pos = count /\ pos + BuiltBlock <= BuiltSize
        /\ Zero \in BuiltMisc!Contents /\ Torn \in BuiltMisc!Contents
    BY BuiltFacts DEF BuiltMisc!TypeOK, HalfWay, BuiltMisc!AtEnd, BuiltMisc!Contents
  <1>2. ASSUME NEW u \in BuiltMisc!Units, pos < u
        PROVE  BuiltMisc!Chunk(u) = Written(u) /\ BuiltMisc!Chunk(u) \in BuiltMisc!Contents
    <2>1. count + (u - pos) = u /\ u \in Nat \ {0}
      BY <1>1, <1>2 DEF BuiltMisc!Units
    <2>2. BuiltMisc!Chunk(u) = IF u <= BuiltMisc!Want THEN data[u] ELSE Zero
      BY <2>1 DEF BuiltMisc!Chunk
    <2>3. u <= BuiltMisc!Want => u \in 1 .. BuiltMisc!Want /\ data[u] = Written(u)
      BY <2>1, BuiltFacts DEF HalfWay
    <2>4. ~(u <= BuiltMisc!Want) => Written(u) = Zero
      BY <2>1, BuiltFacts DEF Written
    <2> QED
      BY <1>1, <2>2, <2>3, <2>4
  <1>3. /\ f = [u \in BuiltMisc!Units |-> f[u]]
        /\ \A u \in BuiltMisc!Units :
              f[u] = IF ~BuiltMisc!InBlock(u) \/ u > pos + n + 1 THEN flash[u]
                     ELSE IF u <= pos + n THEN BuiltMisc!Chunk(u)
                     ELSE IF torn THEN Torn ELSE flash[u]
    BY DEF BuiltMisc!Partly
  <1>4. \A u \in BuiltMisc!Units : flash[u] = IF u <= count THEN Written(u) ELSE before[u]
    BY DEF HalfWay
  <1> HIDE DEF f
  <1>5. ASSUME NEW u \in BuiltMisc!Units
        PROVE  /\ f[u] \in BuiltMisc!Contents
               /\ f[u] = IF u <= count + n THEN Written(u)
                         ELSE IF torn /\ u = count + n + 1 /\ u <= count + BuiltBlock THEN Torn
                         ELSE before[u]
    <2>1. u \in Nat /\ n \in Nat /\ n <= BuiltBlock /\ flash[u] \in BuiltMisc!Contents
      BY <1>1, BuiltFacts DEF BuiltMisc!Units
    <2>2. BuiltMisc!InBlock(u) <=> count < u /\ u <= count + BuiltBlock
      BY <1>1 DEF BuiltMisc!InBlock
    <2>3. CASE u <= count
      BY <1>1, <1>3, <1>4, <2>1, <2>2, <2>3
    <2>4. CASE count < u /\ u <= count + n
      BY <1>1, <1>2, <1>3, <2>1, <2>2, <2>4, BuiltFacts
    <2>5. CASE count + n < u
      BY <1>1, <1>3, <1>4, <2>1, <2>2, <2>5, BuiltFacts
    <2> QED
      BY <1>1, <2>1, <2>3, <2>4, <2>5
  <1>6. f \in [BuiltMisc!Units -> BuiltMisc!Contents]
    BY <1>3, <1>5
  <1> QED
    BY <1>5, <1>6 DEF f

\* A write damages one unit at the most, and changes none but the message's.
LEMMA PartlyKept ==
  ASSUME BuiltMisc!TypeOK, HalfWay, pc = "write", ~BuiltMisc!AtEnd, before' = before,
         NEW n \in 0 .. BuiltBlock, NEW torn \in BOOLEAN, flash' = BuiltMisc!Partly(n, torn)
  PROVE  flash' \in [BuiltMisc!Units -> BuiltMisc!Contents] /\ BuiltMisc!PagesKept'
  <1>1. \A u \in 1 .. BuiltMisc!Want : u \in BuiltMisc!Units
    BY BuiltFacts DEF BuiltMisc!Units
  <1>2. \A u \in 1 .. BuiltMisc!Want :
           flash'[u] \in {Written(u), before[u]} \/ (flash'[u] = Torn /\ u = count + n + 1)
    BY <1>1, PartlyFacts
  <1>3. \A u \in 1 .. BuiltMisc!Want : Written(u) \in {msg, before[u]}
    BY BuiltFacts DEF Written
  <1>4. \A u \in 1 .. BuiltMisc!Want : u # BuiltMisc!BootUnit => Written(u) = before[u]
    BY BuiltFacts DEF Written
  <1>5. msg # Torn
    BY BuiltFacts DEF BuiltMisc!TypeOK
  <1>6. \A u \in 1 .. BuiltMisc!Want : u # BuiltMisc!BootUnit => flash'[u] \in {before[u], Torn}
    BY <1>2, <1>4
  <1>7. \A u \in 1 .. BuiltMisc!Want : flash'[u] = Torn /\ before[u] # Torn => u = count + n + 1
    BY <1>2, <1>3, <1>5
  <1>8. BuiltMisc!PagesKept'
    BY <1>6, <1>7 DEF BuiltMisc!PagesKept
  <1> QED
    BY <1>8, PartlyFacts

\* A call that returns leaves the device as it is.
LEMMA ReturnKept ==
  ASSUME NEW r \in {"ok", "failed", "lost"}, BuiltMisc!Return(r),
         BuiltMisc!TypeOK, HalfWay, flash' \in [BuiltMisc!Units -> BuiltMisc!Contents],
         UNCHANGED <<pos, count, data, tries, skipped, calls, before, misread>>,
         faults' \in 0 .. BuiltFaults
  PROVE  BuiltMisc!TypeOK' /\ HalfWay'
  BY DEF BuiltMisc!Return, BuiltMisc!TypeOK, BuiltMisc!Steps, HalfWay

\* An access that fails is counted.
LEMMA FaultsCounted ==
  ASSUME BuiltMisc!TypeOK, BuiltMisc!Fault \/ BuiltMisc!NoFault
  PROVE  faults' \in 0 .. BuiltFaults
  BY BuiltFacts DEF BuiltMisc!TypeOK, BuiltMisc!Fault, BuiltMisc!NoFault

\* Every step of set_bootloader_message_mtd keeps it.
LEMMA BuiltStep ==
  ASSUME BuiltMisc!TypeOK, HalfWay, BuiltMisc!PagesKept, BuiltMisc!Next
  PROVE  BuiltMisc!TypeOK' /\ HalfWay' /\ BuiltMisc!PagesKept'
  <1> DEFINE Kept == BuiltMisc!TypeOK' /\ HalfWay' /\ BuiltMisc!PagesKept'
  <1> USE DEF BuiltMisc!call
  <1>1. ASSUME NEW m \in Messages, BuiltMisc!Begin(m) PROVE Kept
    <2>0. misread' \in BOOLEAN
      BY <1>1, Zenon DEF BuiltMisc!Begin
    <2>1. BuiltMisc!TypeOK'
      BY <1>1, <2>0, BuiltFacts DEF BuiltMisc!Begin, BuiltMisc!TypeOK, BuiltMisc!Steps
    <2>2. HalfWay'
      BY <1>1, BuiltFacts DEF BuiltMisc!Begin, HalfWay
    <2>3. BuiltMisc!PagesKept'
      BY <1>1 DEF BuiltMisc!Begin, BuiltMisc!PagesKept
    <2> QED
      BY <2>1, <2>2, <2>3
  <1>2. CASE BuiltMisc!Read
    <2>1. pc = "read" /\ count < BuiltMisc!Want
        /\ UNCHANGED <<flash, tries, skipped, calls, before>>
      BY <1>2 DEF BuiltMisc!Read
    <2>2. BuiltMisc!PagesKept'
      BY <2>1 DEF BuiltMisc!PagesKept
    <2>3. CASE BuiltMisc!ReadGood
      <3>1. /\ pos = count /\ count \in Nat /\ pos + BuiltBlock <= BuiltSize
            /\ flash = before /\ flash \in [BuiltMisc!Units -> BuiltMisc!Contents]
            /\ data \in [1 .. BuiltMisc!Want -> BuiltMisc!Contents]
        BY <2>1, <2>3, BuiltFacts DEF BuiltMisc!ReadGood, BuiltMisc!AtEnd, HalfWay, BuiltMisc!TypeOK
      <3>2. \A i \in 1 .. BuiltMisc!Want : pos + i - count = i /\ i \in BuiltMisc!Units
        BY <3>1, BuiltFacts DEF BuiltMisc!Units
      <3>3. data' = [i \in 1 .. BuiltMisc!Want |->
                       IF count < i /\ i <= count + BuiltBlock THEN flash[i] ELSE data[i]]
        BY <2>3, <3>2 DEF BuiltMisc!ReadGood
      <3>4. data' \in [1 .. BuiltMisc!Want -> BuiltMisc!Contents]
        BY <3>1, <3>2, <3>3
      <3>5. /\ count' = count + BuiltBlock /\ pos' = count' /\ pos' <= BuiltSize
            /\ UNCHANGED <<pc, msg, result, faults, misread>>
        BY <2>3, <3>1 DEF BuiltMisc!ReadGood, BuiltMisc!NoFault
      <3>6. \A i \in 1 .. BuiltMisc!Want : i <= count' => data'[i] = before[i]
        BY <2>1, <3>1, <3>3, <3>5, BuiltFacts DEF HalfWay
      <3>7. BuiltMisc!TypeOK'
        BY <2>1, <3>4, <3>5, BuiltFacts DEF BuiltMisc!TypeOK
      <3>8. HalfWay'
        BY <2>1, <3>1, <3>5, <3>6 DEF HalfWay
      <3> QED
        BY <2>2, <3>7, <3>8
    <2>4. ~BuiltMisc!ReadSkip
      BY DEF BuiltMisc!ReadSkip
    <2>5. CASE BuiltMisc!ReadFails
      <3>1. faults' \in 0 .. BuiltFaults
        BY <2>5, FaultsCounted DEF BuiltMisc!ReadFails
      <3>2. BuiltMisc!Return("failed") /\ UNCHANGED <<pos, count, data, misread>>
        BY <2>5 DEF BuiltMisc!ReadFails
      <3>3. flash' \in [BuiltMisc!Units -> BuiltMisc!Contents]
        BY <2>1 DEF BuiltMisc!TypeOK
      <3> QED
        BY <2>1, <2>2, <3>1, <3>2, <3>3, ReturnKept
    <2> QED
      BY <1>2, <2>3, <2>4, <2>5 DEF BuiltMisc!Read
  <1>3. CASE BuiltMisc!Open
    <2>1. pc = "read" /\ BuiltMisc!Want <= count /\ UNCHANGED <<flash, calls, before, misread>>
      BY <1>3, BuiltFacts DEF BuiltMisc!Open, BuiltMisc!TypeOK
    <2>2. BuiltMisc!PagesKept'
      BY <2>1 DEF BuiltMisc!PagesKept
    <2>3. flash' \in [BuiltMisc!Units -> BuiltMisc!Contents] /\ msg \in Messages
      BY <2>1 DEF BuiltMisc!TypeOK
    <2>4. CASE BuiltMisc!Fault /\ BuiltMisc!Return("failed")
               /\ UNCHANGED <<data, pos, count, skipped, tries>>
      BY <2>1, <2>2, <2>3, <2>4, FaultsCounted, ReturnKept
    <2>5. CASE /\ data' = [data EXCEPT ![BuiltMisc!CommandUnit] = msg]
               /\ pos' = 0 /\ count' = 0 /\ skipped' = << >> /\ tries' = 0
               /\ pc' = "write" /\ BuiltMisc!NoFault /\ UNCHANGED <<msg, result>>
      <3>1. msg \in BuiltMisc!Contents
        BY <2>3 DEF BuiltMisc!Contents
      <3>2. BuiltMisc!TypeOK'
        BY <2>1, <2>3, <2>5, <3>1, BuiltFacts DEF BuiltMisc!TypeOK, BuiltMisc!Steps,
            BuiltMisc!NoFault
      <3>3. \A u \in 1 .. BuiltMisc!Want : data[u] = before[u]
        BY <2>1, BuiltFacts DEF HalfWay, BuiltMisc!TypeOK
      <3>4. \A u \in 1 .. BuiltMisc!Want : data'[u] = Written(u)'
        BY <2>1, <2>5, <3>3, BuiltFacts DEF Written, BuiltMisc!TypeOK
      <3>5. \A u \in BuiltMisc!Units : flash'[u] = before'[u] /\ ~(u <= count')
        BY <2>1, <2>5 DEF HalfWay, BuiltMisc!Units
      <3>6. HalfWay'
        BY <2>5, <3>4, <3>5, BuiltFacts DEF HalfWay
      <3> QED
        BY <2>2, <3>2, <3>6
    <2> QED
      BY <1>3, <2>4, <2>5 DEF BuiltMisc!Open
  <1>4. CASE BuiltMisc!Write
    <2>1. pc = "write" /\ UNCHANGED <<data, skipped, calls, before, misread>>
      BY <1>4 DEF BuiltMisc!Write
    <2>2. CASE ~BuiltMisc!AtEnd /\ BuiltMisc!NoFault /\ BuiltMisc!BlockDone("write")
               /\ flash' = BuiltMisc!Partly(BuiltBlock, FALSE)
      <3>1. BuiltBlock \in 0 .. BuiltBlock /\ FALSE \in BOOLEAN
        BY BuiltFacts
      <3>2. flash' \in [BuiltMisc!Units -> BuiltMisc!Contents] /\ BuiltMisc!PagesKept'
        BY <2>1, <2>2, <3>1, PartlyKept
      <3>3. \A u \in BuiltMisc!Units :
               flash'[u] = IF u <= count + BuiltBlock THEN Written(u) ELSE before[u]
        BY <2>1, <2>2, <3>1, PartlyFacts
      <3>4. /\ count' = count + BuiltBlock /\ pos' = pos + BuiltBlock /\ tries' = 0
            /\ pc' = (IF count' < BuiltMisc!Want THEN "write" ELSE "close")
            /\ UNCHANGED <<msg, result, faults>>
        BY <2>2 DEF BuiltMisc!BlockDone, BuiltMisc!NoFault
      <3>5. /\ pos = count /\ count \in Nat /\ pos + BuiltBlock <= BuiltSize
            /\ msg \in Messages
        BY <2>1, <2>2, BuiltFacts DEF BuiltMisc!AtEnd, HalfWay, BuiltMisc!TypeOK
      <3>6. BuiltMisc!TypeOK'
        BY <2>1, <3>2, <3>4, <3>5, BuiltFacts DEF BuiltMisc!TypeOK, BuiltMisc!Steps
      <3>7. \A u \in BuiltMisc!Units \cup (1 .. BuiltMisc!Want) : Written(u)' = Written(u)
        BY <2>1, <3>4 DEF Written
      <3>8. HalfWay'
        <4>1. \A u \in 1 .. BuiltMisc!Want : data'[u] = Written(u)'
          BY <2>1, <3>7 DEF HalfWay
        <4>2. \A u \in BuiltMisc!Units :
                 flash'[u] = IF u <= count' THEN Written(u)' ELSE before'[u]
          BY <2>1, <3>3, <3>4, <3>7
        <4> QED
          BY <3>4, <3>5, <4>1, <4>2, BuiltFacts DEF HalfWay
      <3> QED
        BY <3>2, <3>6, <3>8
    <2>3. CASE /\ IF BuiltMisc!AtEnd THEN BuiltMisc!NoFault /\ UNCHANGED flash
                  ELSE BuiltMisc!Fault /\ flash' \in BuiltMisc!Interrupted
               /\ BuiltMisc!Return("failed") /\ UNCHANGED <<pos, count, tries>>
      <3>1. faults' \in 0 .. BuiltFaults
        BY <2>3, FaultsCounted
      <3>2. flash' \in [BuiltMisc!Units -> BuiltMisc!Contents] /\ BuiltMisc!PagesKept'
        <4>1. CASE BuiltMisc!AtEnd
          BY <2>1, <2>3, <4>1 DEF BuiltMisc!TypeOK, BuiltMisc!PagesKept
        <4>2. CASE ~BuiltMisc!AtEnd
          <5>1. PICK n \in 0 .. BuiltBlock, torn \in BOOLEAN : flash' = BuiltMisc!Partly(n, torn)
            BY <2>3, <4>2 DEF BuiltMisc!Interrupted
          <5> QED
            BY <2>1, <4>2, <5>1, PartlyKept
        <4> QED
          BY <4>1, <4>2
      <3> QED
        BY <2>1, <2>3, <3>1, <3>2, ReturnKept
    <2> QED
      BY <1>4, <2>2, <2>3 DEF BuiltMisc!Write
  <1>5. ~(BuiltMisc!Erase \/ BuiltMisc!Program \/ BuiltMisc!Verify)
    BY DEF HalfWay, BuiltMisc!Erase, BuiltMisc!Program, BuiltMisc!Verify
  <1>6. CASE BuiltMisc!Close
    <2>1. faults' \in 0 .. BuiltFaults
      BY <1>6, FaultsCounted DEF BuiltMisc!Close
    <2>2. UNCHANGED <<flash, pos, count, data, tries, skipped, calls, before, misread>>
      BY <1>6 DEF BuiltMisc!Close
    <2>3. flash' \in [BuiltMisc!Units -> BuiltMisc!Contents] /\ BuiltMisc!PagesKept'
      BY <2>2 DEF BuiltMisc!TypeOK, BuiltMisc!PagesKept
    <2> QED
      BY <1>6, <2>1, <2>2, <2>3, ReturnKept DEF BuiltMisc!Close
  <1>7. CASE BuiltMisc!PowerLoss
    <2>1. /\ BuiltMisc!Return("lost")
          /\ UNCHANGED <<pos, count, data, tries, skipped, faults, calls, before, misread>>
      BY <1>7 DEF BuiltMisc!PowerLoss
    <2>2. faults' \in 0 .. BuiltFaults
      BY <2>1 DEF BuiltMisc!TypeOK
    <2>3. CASE pc = "write" /\ ~BuiltMisc!AtEnd
      <3>1. PICK n \in 0 .. BuiltBlock, torn \in BOOLEAN : flash' = BuiltMisc!Partly(n, torn)
        BY <1>7, <2>3 DEF BuiltMisc!PowerLoss, BuiltMisc!Interrupted
      <3>2. flash' \in [BuiltMisc!Units -> BuiltMisc!Contents] /\ BuiltMisc!PagesKept'
        BY <2>1, <2>3, <3>1, PartlyKept
      <3> QED
        BY <2>1, <2>2, <3>2, ReturnKept
    <2>4. CASE ~(pc = "write" /\ ~BuiltMisc!AtEnd)
      <3>1. flash' = flash
        BY <1>7, <2>4 DEF BuiltMisc!PowerLoss, HalfWay
      <3>2. flash' \in [BuiltMisc!Units -> BuiltMisc!Contents] /\ BuiltMisc!PagesKept'
        BY <2>1, <3>1 DEF BuiltMisc!TypeOK, BuiltMisc!PagesKept
      <3> QED
        BY <2>1, <2>2, <3>2, ReturnKept
    <2> QED
      BY <2>3, <2>4
  <1> QED
    BY <1>1, <1>2, <1>3, <1>4, <1>5, <1>6, <1>7 DEF BuiltMisc!Next

LEMMA BuiltNext ==
  ASSUME BuiltInv, [Next]_vars
  PROVE  BuiltInv'
  <1>1. CASE UNCHANGED vars
    BY <1>1 DEF vars, misc, BuiltInv, BuiltMisc!TypeOK, HalfWay, Written, BuiltMisc!PagesKept
  <1>2. CASE NextScan \/ NextHash \/ NextText
    BY <1>2 DEF NextScan, NextHash, NextText, misc, BuiltInv, BuiltMisc!TypeOK, HalfWay, Written,
                BuiltMisc!PagesKept
  <1>3. CASE NextMisc
    BY <1>3, BuiltStep DEF NextMisc, BuiltInv
  <1> QED
    BY <1>1, <1>2, <1>3 DEF Next

LEMMA BuiltAlways == Spec => []BuiltInv
  BY BuiltInit, BuiltNext, PTL DEF Spec, vars

\* In the branch that is built, for any sizes of blocks, pages and partition,
\* any failures and losses of power: a call that returns success has put its
\* message where the next boot reads it, and of what else lies in the pages a
\* call damages one unit at the most (set_bootloader_message_mtd).
LEMMA BuiltKept ==
  Spec => [](part = "rockchip" => BuiltMisc!TypeOK /\ BuiltMisc!SetOrSaid /\ BuiltMisc!PagesKept)
  <1>1. ASSUME BuiltMisc!TypeOK, HalfWay PROVE BuiltMisc!SetOrSaid
    <2> SUFFICES ASSUME pc = "close", NEW u \in 1 .. BuiltMisc!Want
                 PROVE  flash[BuiltMisc!Place(u)] =
                          IF u = BuiltMisc!BootUnit THEN msg ELSE before[BuiltMisc!Place(u)]
      BY BuiltFacts DEF BuiltMisc!SetOrSaid
    <2>1. BuiltMisc!Place(u) = u
      BY DEF BuiltMisc!Place
    <2>2. u \in BuiltMisc!Units /\ u <= count
      BY <1>1, BuiltFacts DEF HalfWay, BuiltMisc!TypeOK, BuiltMisc!Units
    <2>3. flash[u] = Written(u)
      BY <1>1, <2>2 DEF HalfWay
    <2> QED
      BY <2>1, <2>3, BuiltFacts DEF Written
  <1>2. BuiltInv =>
          (part = "rockchip" => BuiltMisc!TypeOK /\ BuiltMisc!SetOrSaid /\ BuiltMisc!PagesKept)
    BY <1>1 DEF BuiltInv
  <1> QED
    BY BuiltAlways, <1>2, PTL

\* The cell of BootCell is the unit of the boot message.
BootUnitOf == flash[BuiltMisc!BootUnit]

\* The unit after a write that ends anywhere: as it was, set, or damaged.
LEMMA CellWritten ==
  ASSUME BuiltMisc!TypeOK, HalfWay, pc = "write", ~BuiltMisc!AtEnd,
         NEW n \in 0 .. BuiltBlock, NEW torn \in BOOLEAN, flash' = BuiltMisc!Partly(n, torn)
  PROVE  BootUnitOf' \in (BuiltMisc!Contents \ Messages) \cup {BootUnitOf, msg}
  <1>1. BuiltMisc!BootUnit \in BuiltMisc!Units /\ BuiltMisc!BootUnit \in Nat
    BY BuiltFacts DEF BuiltMisc!Units
  <1>2. Torn \in BuiltMisc!Contents \ Messages
    BY BuiltFacts DEF BuiltMisc!Contents
  <1>3. BootUnitOf' \in {msg, Torn, before[BuiltMisc!BootUnit]}
    BY <1>1, PartlyFacts DEF BootUnitOf, Written
  <1>4. BootUnitOf \in {msg, before[BuiltMisc!BootUnit]}
    BY <1>1 DEF BootUnitOf, HalfWay, Written
  <1>5. BuiltMisc!BootUnit <= count + n => BootUnitOf' = msg
    BY <1>1, PartlyFacts DEF BootUnitOf, Written
  <1>6. ~(BuiltMisc!BootUnit <= count + n) =>
           BootUnitOf' \in {Torn, before[BuiltMisc!BootUnit]}
    BY <1>1, PartlyFacts DEF BootUnitOf
  <1>7. ~(BuiltMisc!BootUnit <= count + n) => BootUnitOf = before[BuiltMisc!BootUnit]
    BY <1>1, BuiltFacts DEF BootUnitOf, HalfWay, BuiltMisc!TypeOK
  <1> QED
    BY <1>2, <1>5, <1>6, <1>7

\* Every block access is a step of the cell, or none.
LEMMA CellStep ==
  ASSUME part = "rockchip", part' = "rockchip", BuiltMisc!TypeOK, HalfWay, BuiltMisc!Next
  PROVE  Cell!Next \/ UNCHANGED <<BootUnitOf, msg, result>>
  <1> DEFINE Damaged == BuiltMisc!Contents \ Messages
             Fails == /\ msg # "idle" /\ msg' = "idle" /\ result' \in {"failed", "lost"}
                      /\ BootUnitOf' \in Damaged \cup {BootUnitOf, msg}
  <1> USE DEF BuiltMisc!call
  <1>1. /\ BuiltMisc!Place(BuiltMisc!BootUnit) = BuiltMisc!BootUnit
        /\ (pc = "idle" <=> msg = "idle")
    BY DEF BuiltMisc!Place, BuiltMisc!TypeOK
  <1>2. Fails => Cell!Fail
    BY <1>1 DEF Cell!Fail, Cell!Idle, BootUnitOf, BuiltMisc!Place
  <1>3. ASSUME NEW m \in Messages, BuiltMisc!Begin(m) PROVE Cell!Begin(m)
    BY <1>1, <1>3 DEF BuiltMisc!Begin, Cell!Begin, Cell!Idle, BuiltMisc!Place
  <1>4. ASSUME NEW r \in {"failed", "lost"}, BuiltMisc!Return(r), pc # "idle", UNCHANGED flash
        PROVE  Fails
    BY <1>1, <1>4 DEF BuiltMisc!Return, BootUnitOf
  <1>5. ASSUME NEW n \in 0 .. BuiltBlock, NEW torn \in BOOLEAN, pc = "write",
               ~BuiltMisc!AtEnd, flash' = BuiltMisc!Partly(n, torn)
        PROVE  BootUnitOf' \in Damaged \cup {BootUnitOf, msg}
    BY <1>5, CellWritten
  <1>6. CASE BuiltMisc!Read
    <2>1. pc # "idle" /\ UNCHANGED flash
      BY <1>6 DEF BuiltMisc!Read
    <2>2. CASE UNCHANGED <<msg, result>>
      BY <2>1, <2>2 DEF BootUnitOf
    <2>3. CASE BuiltMisc!Return("failed")
      BY <1>2, <1>4, <2>1, <2>3 DEF Cell!Next
    <2> QED
      BY <1>6, <2>2, <2>3
         DEF BuiltMisc!Read, BuiltMisc!ReadGood, BuiltMisc!ReadSkip, BuiltMisc!ReadFails
  <1>7. CASE BuiltMisc!Open
    <2>1. pc # "idle" /\ UNCHANGED flash
      BY <1>7 DEF BuiltMisc!Open
    <2>2. CASE UNCHANGED <<msg, result>>
      BY <2>1, <2>2 DEF BootUnitOf
    <2>3. CASE BuiltMisc!Return("failed")
      BY <1>2, <1>4, <2>1, <2>3 DEF Cell!Next
    <2> QED
      BY <1>7, <2>2, <2>3 DEF BuiltMisc!Open
  <1>8. CASE BuiltMisc!Write
    <2>1. CASE ~BuiltMisc!AtEnd /\ BuiltMisc!BlockDone("write")
               /\ flash' = BuiltMisc!Partly(BuiltBlock, FALSE)
      <3>1. BuiltBlock \in 0 .. BuiltBlock /\ pc = "write" /\ FALSE \in BOOLEAN
        BY <1>8, BuiltFacts DEF BuiltMisc!Write
      <3>2. BootUnitOf' \in Damaged \cup {BootUnitOf, msg} /\ UNCHANGED <<msg, result>>
        BY <1>5, <2>1, <3>1 DEF BuiltMisc!BlockDone
      <3>3. Cell!Change
        BY <1>1, <3>1, <3>2 DEF Cell!Change, Cell!Idle, BootUnitOf, BuiltMisc!Place
      <3> QED
        BY <3>3 DEF Cell!Next
    <2>2. CASE BuiltMisc!Return("failed")
      <3>1. CASE UNCHANGED flash
        BY <1>2, <1>4, <1>8, <2>2, <3>1 DEF BuiltMisc!Write, Cell!Next
      <3>2. CASE ~BuiltMisc!AtEnd /\ flash' \in BuiltMisc!Interrupted
        <4>1. PICK n \in 0 .. BuiltBlock, torn \in BOOLEAN : flash' = BuiltMisc!Partly(n, torn)
          BY <3>2 DEF BuiltMisc!Interrupted
        <4>2. BootUnitOf' \in Damaged \cup {BootUnitOf, msg} /\ pc = "write"
          BY <1>5, <1>8, <3>2, <4>1 DEF BuiltMisc!Write
        <4>3. Fails
          BY <1>1, <2>2, <4>2 DEF BuiltMisc!Return
        <4> QED
          BY <1>2, <4>3 DEF Cell!Next
      <3>3. UNCHANGED flash \/ (~BuiltMisc!AtEnd /\ flash' \in BuiltMisc!Interrupted)
        <4>1. result' = "failed" /\ msg' = "idle" /\ pc = "write" /\ msg # "idle"
          BY <1>1, <1>8, <2>2 DEF BuiltMisc!Return, BuiltMisc!Write
        <4> QED
          BY <1>8, <4>1 DEF BuiltMisc!Write, BuiltMisc!BlockDone
      <3> QED
        BY <3>1, <3>2, <3>3
    <2> QED
      BY <1>8, <2>1, <2>2 DEF BuiltMisc!Write
  <1>9. ~(BuiltMisc!Erase \/ BuiltMisc!Program \/ BuiltMisc!Verify)
    BY DEF HalfWay, BuiltMisc!Erase, BuiltMisc!Program, BuiltMisc!Verify
  <1>10. CASE BuiltMisc!Close
    <2>1. pc = "close" /\ UNCHANGED flash
      BY <1>10 DEF BuiltMisc!Close
    <2>2. CASE BuiltMisc!Return("failed")
      BY <1>2, <1>4, <2>1, <2>2 DEF Cell!Next
    <2>3. CASE BuiltMisc!Return("ok")
      <3>1. BuiltMisc!BootUnit \in BuiltMisc!Units /\ BuiltMisc!BootUnit <= count
        BY <2>1, BuiltFacts DEF HalfWay, BuiltMisc!TypeOK, BuiltMisc!Units
      <3>2. BootUnitOf = msg
        BY <2>1, <3>1 DEF HalfWay, BootUnitOf, Written
      <3>3. Cell!Succeed
        BY <1>1, <2>1, <2>3, <3>2
           DEF Cell!Succeed, Cell!Idle, BuiltMisc!Return, BootUnitOf, BuiltMisc!Place
      <3> QED
        BY <3>3 DEF Cell!Next
    <2> QED
      BY <1>10, <2>2, <2>3 DEF BuiltMisc!Close
  <1>11. CASE BuiltMisc!PowerLoss
    <2>1. pc # "idle" /\ BuiltMisc!Return("lost")
      BY <1>11 DEF BuiltMisc!PowerLoss
    <2>2. CASE UNCHANGED flash
      BY <1>2, <1>4, <2>1, <2>2 DEF Cell!Next
    <2>3. CASE pc = "write" /\ ~BuiltMisc!AtEnd /\ flash' \in BuiltMisc!Interrupted
      <3>1. PICK n \in 0 .. BuiltBlock, torn \in BOOLEAN : flash' = BuiltMisc!Partly(n, torn)
        BY <2>3 DEF BuiltMisc!Interrupted
      <3>2. Fails
        BY <1>1, <1>5, <2>1, <2>3, <3>1 DEF BuiltMisc!Return
      <3> QED
        BY <1>2, <3>2 DEF Cell!Next
    <2> QED
      BY <1>11, <2>2, <2>3 DEF BuiltMisc!PowerLoss, HalfWay
  <1> QED
    BY <1>3, <1>6, <1>7, <1>8, <1>9, <1>10, <1>11 DEF BuiltMisc!Next, Cell!Next

\* The branch that is built implements the cell that the update relies on: the
\* many accesses of a call set it in one step, or not, or damage it.
THEOREM ImplementsBootCell == Spec => BootCellSpec
  <1>1. Init => Cell!Init
    <2> SUFFICES ASSUME Init PROVE Cell!Init
      OBVIOUS
    <2>1. CASE part = "rockchip"
      <3>1. /\ flash = [u \in BuiltMisc!Units |-> u] /\ msg = "idle" /\ result = "none"
        BY <2>1 DEF Init, BuiltMisc!Init
      <3>2. BuiltMisc!BootUnit \in BuiltMisc!Units /\ BuiltMisc!BootUnit \in Nat
        BY BuiltFacts DEF BuiltMisc!Units
      <3> QED
        BY <2>1, <3>1, <3>2, BuiltFacts DEF Cell!Init, Cell!Idle, BuiltMisc!Place
    <2>2. CASE part # "rockchip"
      BY <2>2, BuiltFacts DEF Cell!Init, Cell!Idle
    <2> QED
      BY <2>1, <2>2
  <1> DEFINE cell == IF part = "rockchip"
                     THEN flash[BuiltMisc!Place(BuiltMisc!BootUnit)] ELSE Zero
             of == <<cell, IF part = "rockchip" THEN msg ELSE "idle",
                     IF part = "rockchip" THEN result ELSE "none">>
  <1>2. BuiltInv /\ [Next]_vars => [Cell!Next]_of
    <2> SUFFICES ASSUME BuiltInv, [Next]_vars PROVE [Cell!Next]_of
      OBVIOUS
    <2>1. CASE UNCHANGED vars
      BY <2>1 DEF vars, misc, BuiltMisc!Place
    <2>2. CASE NextScan \/ NextHash \/ NextText
      BY <2>2 DEF NextScan, NextHash, NextText, misc, BuiltMisc!Place
    <2>3. CASE NextMisc /\ part # "rockchip"
      BY <2>3 DEF NextMisc
    <2>4. CASE NextMisc /\ part = "rockchip"
      <3>1. part' = "rockchip" /\ BuiltMisc!TypeOK /\ HalfWay /\ BuiltMisc!Next
        BY <2>4 DEF NextMisc, BuiltInv
      <3>2. Cell!Next \/ UNCHANGED <<BootUnitOf, msg, result>>
        BY <2>4, <3>1, CellStep
      <3> QED
        BY <2>4, <3>1, <3>2 DEF BootUnitOf, BuiltMisc!Place
    <2> QED
      BY <2>1, <2>2, <2>3, <2>4 DEF Next
  <1> QED
    BY BuiltAlways, <1>1, <1>2, PTL DEF Spec, vars, BootCellSpec, Cell!Spec

-----------------------------------------------------------------------------
(* The boot message in raw flash *)

\* The only quotient of a multiple and a remainder.
LEMMA Quotient ==
  ASSUME NEW b \in Nat \ {0}, NEW q \in Nat, NEW r \in 0 .. b - 1
  PROVE  (b * q + r) \div b = q /\ (b * q + r) % b = r
  BY SMT

LEMMA RawFacts ==
  /\ RawSize \in Nat /\ RawBlock \in Nat \ {0} /\ RawMisc!Want \in Nat
  /\ RawMisc!BootUnit \in 1 .. RawMisc!Want
  /\ RawMisc!CommandUnit = RawMisc!BootUnit
  BY DeviceAssumption DEF RawMisc!MiscAssumption, RawMisc!Want, RawMisc!MiscPages,
     RawMisc!BootUnit, RawMisc!CommandUnit

\* The good blocks before block q.
GoodBefore(q) == {h \in RawMisc!RawGood : h < q}

LEMMA GoodFinite ==
  ASSUME NEW q \in Nat
  PROVE  IsFiniteSet(GoodBefore(q)) /\ Cardinality(GoodBefore(q)) \in Nat
  <1>1. q - 1 \in Int /\ IsFiniteSet(0 .. q - 1)
    BY FS_Interval
  <1>2. GoodBefore(q) \in SUBSET (0 .. q - 1)
    BY DEF GoodBefore, RawMisc!RawGood
  <1> QED
    BY <1>1, <1>2, FS_Subset, FS_CardinalityType

LEMMA NoneBefore == Cardinality(GoodBefore(0)) = 0
  <1>1. GoodBefore(0) = {}
    BY DEF GoodBefore, RawMisc!RawGood
  <1> QED
    BY <1>1, FS_EmptySet

\* A good block is one more behind it, a bad one is not.
LEMMA GoodNext ==
  ASSUME NEW q \in Nat
  PROVE  Cardinality(GoodBefore(q + 1)) =
           IF q \in RawMisc!RawGood THEN Cardinality(GoodBefore(q)) + 1
           ELSE Cardinality(GoodBefore(q))
  <1>1. \A h \in RawMisc!RawGood : h \in Nat
    BY DEF RawMisc!RawGood
  <1>2. GoodBefore(q + 1) = IF q \in RawMisc!RawGood THEN GoodBefore(q) \cup {q} ELSE GoodBefore(q)
    BY <1>1 DEF GoodBefore
  <1>3. q \notin GoodBefore(q)
    BY DEF GoodBefore
  <1> QED
    BY <1>2, <1>3, GoodFinite, FS_AddElement

\* Good blocks are told apart by how many come before.
LEMMA GoodDiffer ==
  ASSUME NEW g \in RawMisc!RawGood, NEW h \in RawMisc!RawGood, g < h
  PROVE  Cardinality(GoodBefore(g)) < Cardinality(GoodBefore(h))
  <1>1. g \in Nat /\ h \in Nat
    BY DEF RawMisc!RawGood
  <1>2. GoodBefore(g + 1) \in SUBSET GoodBefore(h)
    BY <1>1 DEF GoodBefore, RawMisc!RawGood
  <1>3. Cardinality(GoodBefore(g + 1)) <= Cardinality(GoodBefore(h))
    BY <1>1, <1>2, GoodFinite, FS_Subset
  <1> QED
    BY <1>1, <1>3, GoodNext, GoodFinite

\* The cardinality of the instance is that of FiniteSets.
LEMMA SameCardinality == \A S : RawMisc!Cardinality(S) = Cardinality(S)
  BY DEF RawMisc!Cardinality, Cardinality

\* Where the reader looks for the units of a block.
LEMMA PlaceInBlock ==
  ASSUME NEW q \in RawMisc!RawGood, NEW u \in Nat,
         u > RawBlock * Cardinality(GoodBefore(q)),
         u <= RawBlock * Cardinality(GoodBefore(q)) + RawBlock
  PROVE  RawMisc!Place(u) = RawBlock * q + u - RawBlock * Cardinality(GoodBefore(q))
  <1> DEFINE k == Cardinality(GoodBefore(q))
             r == (u - 1) - RawBlock * k
             Here(g) == Cardinality({h \in RawMisc!RawGood : h < g}) = RawMisc!BlockOf(u)
  <1>1. q \in Nat /\ k \in Nat
    BY GoodFinite DEF RawMisc!RawGood
  <1>2. r \in 0 .. RawBlock - 1 /\ u - 1 = RawBlock * k + r
    BY <1>1, RawFacts
  <1> HIDE DEF k, r
  <1>3. (u - 1) \div RawBlock = k /\ (u - 1) % RawBlock = r
    BY <1>1, <1>2, RawFacts, Quotient, ZenonT(60)
  <1>4. Here(q)
    BY <1>3 DEF RawMisc!BlockOf, k, GoodBefore
  <1>5. ASSUME NEW g \in RawMisc!RawGood, Here(g) PROVE g = q
    <2>1. Cardinality(GoodBefore(g)) = Cardinality(GoodBefore(q))
      BY <1>4, <1>5 DEF GoodBefore
    <2>2. ~(g < q) /\ ~(q < g)
      BY <2>1, GoodDiffer, GoodFinite, <1>1 DEF RawMisc!RawGood
    <2> QED
      BY <1>1, <2>2 DEF RawMisc!RawGood
  <1>6. (CHOOSE g \in RawMisc!RawGood : Here(g)) = q
    BY <1>4, <1>5
  <1>7. RawMisc!Place(u) = q * RawBlock + r + 1
    BY <1>3, <1>6, SameCardinality DEF RawMisc!Place
  <1> QED
    BY <1>1, <1>2, <1>7, RawFacts DEF k, r

\* What the call is to leave in unit u of the pages.
RawWritten(u) == IF u = RawMisc!BootUnit THEN msg ELSE before[RawMisc!Place(u)]

\* A call stands at the start of a block, and as much has been read or written
\* as there are good blocks before it: the reader steps over the same blocks as
\* the driver, unless it could not read a good one, and so does the writer,
\* unless it gave one up.
InStep ==
    \E q \in Nat :
        /\ pos = RawBlock * q /\ pos <= RawSize
        /\ pc = "read" /\ ~misread => count = RawBlock * Cardinality(GoodBefore(q))
        /\ pc # "read" /\ ~RawMisc!GaveUp => count = RawBlock * Cardinality(GoodBefore(q))

\* The blocks that are stepped over are noted in ascending order.
Ascending ==
    /\ skipped \in Seq(Nat)
    /\ \A i, j \in 1 .. Len(skipped) : i < j => skipped[i] < skipped[j]
    /\ \A i \in 1 .. Len(skipped) : \E k \in Nat : skipped[i] = RawBlock * k
    /\ pc \in {"erase", "program", "verify"} => \A i \in 1 .. Len(skipped) : skipped[i] < pos

\* What has been read is what was there, but where a good block could not be
\* read; what was written lies where the reader looks for it.
RawHalfWay ==
    /\ pc \in {"idle", "read", "erase", "program", "verify", "close"}
    /\ DOMAIN data = 1 .. RawMisc!Want
    /\ pc # "idle" => InStep
    /\ pc = "read" =>
         /\ flash = before
         /\ ~misread => \A u \in 1 .. RawMisc!Want :
                          u <= count => data[u] = before[RawMisc!Place(u)]
    /\ pc \in {"erase", "program", "verify", "close"} =>
         /\ data[RawMisc!BootUnit] = msg
         /\ ~misread => \A u \in 1 .. RawMisc!Want : data[u] = RawWritten(u)
    /\ pc \in {"program", "verify"} => ~RawMisc!AtEnd /\ ~RawMisc!Bad
    /\ pc \in {"erase", "program", "verify", "close"} /\ ~RawMisc!GaveUp =>
         \A u \in 1 .. RawMisc!Want : u <= count =>
            RawMisc!Place(u) \in 1 .. pos /\ flash[RawMisc!Place(u)] = data[u]
    /\ pc = "close" /\ ~RawMisc!GaveUp => RawMisc!Want <= count

RawInv == part = "raw flash" => RawHalfWay /\ Ascending

LEMMA RawInit == Init => RawInv
  <1>1. ASSUME RawMisc!Init PROVE RawHalfWay /\ Ascending
    BY <1>1 DEF RawMisc!Init, RawHalfWay, Ascending
  <1> QED
    BY <1>1 DEF Init, RawInv

\* Whatever returns leaves nothing but the list of skipped blocks.
LEMMA RawReturn ==
  ASSUME NEW r, RawMisc!Return(r), RawHalfWay, Ascending, UNCHANGED <<data, skipped>>
  PROVE  RawHalfWay' /\ Ascending'
  BY DEF RawMisc!Return, RawHalfWay, Ascending

\* A block that is good is read or written at its place.
LEMMA GoodHere ==
  ASSUME NEW q \in Nat, pos = RawBlock * q, ~RawMisc!AtEnd, ~RawMisc!Bad
  PROVE  q \in RawMisc!RawGood
  <1>1. RawBlock * (q + 1) <= RawSize
    BY RawFacts DEF RawMisc!AtEnd
  <1> DEFINE z == RawSize \div RawBlock
  <1>2. z \in Nat /\ RawSize - RawBlock * z \in 0 .. RawBlock - 1
    BY RawFacts, SMT
  <1> HIDE DEF z
  <1>3. q <= z - 1
    <2> SUFFICES ASSUME q >= z PROVE FALSE
      BY <1>2
    <2>1. RawBlock * q >= RawBlock * z
      BY <1>2, RawFacts
    <2> QED
      BY <1>1, <1>2, <2>1, RawFacts
  <1> QED
    BY <1>2, <1>3, RawFacts DEF RawMisc!RawGood, RawMisc!Bad, z

LEMMA BadHere ==
  ASSUME NEW q \in Nat, pos = RawBlock * q, RawMisc!Bad
  PROVE  q \notin RawMisc!RawGood
  BY RawFacts DEF RawMisc!RawGood, RawMisc!Bad

\* The places of the next block's units, and the position behind it.
LEMMA GoodAhead ==
  ASSUME NEW q \in Nat, pos = RawBlock * q, count = RawBlock * Cardinality(GoodBefore(q)),
         ~RawMisc!AtEnd, ~RawMisc!Bad
  PROVE  /\ pos \in Nat /\ count \in Nat
         /\ \A u \in 1 .. RawMisc!Want :
              count < u /\ u <= count + RawBlock => RawMisc!Place(u) = pos + u - count
         /\ pos + RawBlock = RawBlock * (q + 1)
         /\ count + RawBlock = RawBlock * Cardinality(GoodBefore(q + 1))
  <1>1. q \in RawMisc!RawGood
    BY GoodHere
  <1>2. Cardinality(GoodBefore(q)) \in Nat
    BY GoodFinite
  <1>3. pos \in Nat /\ count \in Nat
    BY <1>2, RawFacts
  <1>4. \A u \in 1 .. RawMisc!Want :
           count < u /\ u <= count + RawBlock => RawMisc!Place(u) = pos + u - count
    BY <1>1, RawFacts, PlaceInBlock
  <1>5. Cardinality(GoodBefore(q + 1)) = Cardinality(GoodBefore(q)) + 1
    BY <1>1, GoodNext
  <1> QED
    BY <1>2, <1>3, <1>4, <1>5, RawFacts

LEMMA BadAhead ==
  ASSUME NEW q \in Nat, pos = RawBlock * q, RawMisc!Bad
  PROVE  /\ pos + RawBlock = RawBlock * (q + 1)
         /\ Cardinality(GoodBefore(q + 1)) = Cardinality(GoodBefore(q))
  BY BadHere, GoodNext, RawFacts

LEMMA RawReads ==
  ASSUME RawHalfWay, Ascending, (\E m \in Messages : RawMisc!Begin(m)) \/ RawMisc!Read
  PROVE  RawHalfWay' /\ Ascending'
  <1>1. ASSUME NEW m \in Messages, RawMisc!Begin(m) PROVE RawHalfWay' /\ Ascending'
    <2>1. Ascending'
      BY <1>1 DEF RawMisc!Begin, Ascending
    <2>3. pos' = RawBlock * 0 /\ count' = RawBlock * Cardinality(GoodBefore(0)) /\ pos' <= RawSize
      BY <1>1, NoneBefore, RawFacts DEF RawMisc!Begin
    <2>4. InStep'
      BY <2>3 DEF InStep
    <2> QED
      BY <1>1, <2>1, <2>4 DEF RawMisc!Begin, RawHalfWay
  <1> SUFFICES ASSUME RawMisc!Read PROVE RawHalfWay' /\ Ascending'
    BY <1>1
  <1>2. pc = "read" /\ InStep /\ UNCHANGED <<flash, skipped, before>>
    BY DEF RawMisc!Read, RawHalfWay
  <1>3. PICK q \in Nat :
          /\ pos = RawBlock * q
          /\ ~misread => count = RawBlock * Cardinality(GoodBefore(q))
    BY <1>2 DEF InStep
  <1>4. CASE RawMisc!ReadFails
    BY <1>2, <1>4, RawReturn DEF RawMisc!ReadFails
  <1>5. CASE RawMisc!ReadSkip
    <2>1. pos' = pos + RawBlock /\ pos' <= RawSize
          /\ misread' = (misread \/ ~RawMisc!Bad)
          /\ UNCHANGED <<pc, msg, result, count, data>>
      BY <1>3, <1>5, RawFacts DEF RawMisc!ReadSkip, RawMisc!call, RawMisc!AtEnd
    <2>2. pos' = RawBlock * (q + 1) /\ q + 1 \in Nat
      BY <1>3, <2>1, RawFacts
    <2>3. ~misread' => count' = RawBlock * Cardinality(GoodBefore(q + 1))
      BY <1>3, <2>1, BadAhead
    <2>4. InStep'
      BY <1>2, <2>1, <2>2, <2>3 DEF InStep
    <2> QED
      BY <1>2, <2>1, <2>4 DEF RawHalfWay, Ascending
  <1>6. CASE RawMisc!ReadGood
    <2>1. ~RawMisc!AtEnd /\ ~RawMisc!Bad /\ pos' = pos + RawBlock /\ count' = count + RawBlock
          /\ UNCHANGED <<pc, msg, result, misread>>
      BY <1>6 DEF RawMisc!ReadGood, RawMisc!call
    <2>2. data' = [i \in 1 .. RawMisc!Want |->
                     IF count < i /\ i <= count + RawBlock THEN flash[pos + i - count] ELSE data[i]]
      BY <1>6 DEF RawMisc!ReadGood
    <2>3. InStep'
      <3>1. pos' = RawBlock * (q + 1) /\ q + 1 \in Nat /\ pos' <= RawSize
        BY <1>3, <2>1, RawFacts DEF RawMisc!AtEnd
      <3>2. ~misread' => count' = RawBlock * Cardinality(GoodBefore(q + 1))
        BY <1>3, <2>1, GoodAhead
      <3> QED
        BY <1>2, <2>1, <3>1, <3>2 DEF InStep
    <2>4. ASSUME ~misread, NEW u \in 1 .. RawMisc!Want, u <= count'
          PROVE  data'[u] = before'[RawMisc!Place(u)]
      <3>1. count \in Nat /\ (count < u => RawMisc!Place(u) = pos + u - count)
        BY <1>3, <2>1, <2>4, GoodAhead
      <3>2. CASE u <= count
        BY <1>2, <2>2, <2>4, <3>1, <3>2, RawFacts DEF RawHalfWay
      <3>3. CASE count < u
        BY <1>2, <2>1, <2>2, <2>4, <3>1, <3>3, RawFacts DEF RawHalfWay
      <3> QED
        BY <3>1, <3>2, <3>3, RawFacts
    <2> QED
      BY <1>2, <2>1, <2>2, <2>3, <2>4 DEF RawHalfWay, Ascending
  <1> QED
    BY <1>4, <1>5, <1>6 DEF RawMisc!Read

\* The message is put into what was read, and the writing starts at the front.
LEMMA RawOpens ==
  ASSUME RawHalfWay, Ascending, RawMisc!Open
  PROVE  RawHalfWay' /\ Ascending'
  <1>1. pc = "read" /\ count >= RawMisc!Want /\ InStep /\ UNCHANGED <<flash, before, misread>>
    BY DEF RawMisc!Open, RawHalfWay
  <1>2. CASE RawMisc!Return("failed") /\ UNCHANGED <<data, skipped>>
    BY <1>2, RawReturn
  <1>3. CASE /\ data' = [data EXCEPT ![RawMisc!CommandUnit] = msg]
             /\ pos' = 0 /\ count' = 0 /\ skipped' = << >> /\ pc' = "erase"
             /\ UNCHANGED <<msg, result>>
    <2>2. pos' = RawBlock * 0 /\ count' = RawBlock * Cardinality(GoodBefore(0)) /\ pos' <= RawSize
      BY <1>3, NoneBefore, RawFacts
    <2>3. InStep'
      BY <2>2 DEF InStep
    <2>4. Ascending'
      <3>1. << >> \in Seq(Nat) /\ Len(<< >>) = 0
        OBVIOUS
      <3> QED
        BY <1>3, <3>1 DEF Ascending
    <2>5. ASSUME ~misread PROVE count \in Nat
      <3>1. PICK q \in Nat : count = RawBlock * Cardinality(GoodBefore(q))
        BY <1>1, <2>5 DEF InStep
      <3>2. Cardinality(GoodBefore(q)) \in Nat
        BY GoodFinite
      <3> QED
        BY <3>1, <3>2, RawFacts
    <2>6. ASSUME ~misread, NEW u \in 1 .. RawMisc!Want PROVE data'[u] = RawWritten(u)'
      <3>1. u <= count
        BY <1>1, <2>5, <2>6, RawFacts
      <3>2. data[u] = before[RawMisc!Place(u)] /\ DOMAIN data = 1 .. RawMisc!Want
        BY <1>1, <2>6, <3>1 DEF RawHalfWay
      <3> QED
        BY <1>1, <1>3, <3>2, RawFacts DEF RawWritten
    <2>7. DOMAIN data' = 1 .. RawMisc!Want /\ data'[RawMisc!BootUnit] = msg'
      BY <1>3, RawFacts DEF RawHalfWay
    <2>8. ASSUME NEW u \in 1 .. RawMisc!Want, u <= count' PROVE FALSE
      BY <1>3, <2>8, RawFacts
    <2> QED
      BY <1>1, <1>3, <2>3, <2>4, <2>6, <2>7, <2>8 DEF RawHalfWay
  <1> QED
    BY <1>2, <1>3 DEF RawMisc!Open

\* While the call is on a block, nothing but that block changes.
LEMMA RawSame ==
  ASSUME RawHalfWay, Ascending, pc \in {"erase", "program", "verify"},
         \A u \in RawMisc!Units : ~RawMisc!InBlock(u) => flash'[u] = flash[u],
         UNCHANGED <<pos, count, data, skipped, msg, result, before, misread>>,
         pc' \in {"erase", "program", "verify"},
         pc' # "erase" => ~RawMisc!AtEnd /\ ~RawMisc!Bad
  PROVE  RawHalfWay' /\ Ascending'
  <1>1. InStep'
    BY DEF RawHalfWay, InStep, RawMisc!GaveUp
  <1>2. pos \in 0 .. RawSize
    BY RawFacts DEF RawHalfWay, InStep
  <1>3. ASSUME ~RawMisc!GaveUp, NEW u \in 1 .. RawMisc!Want, u <= count
        PROVE  RawMisc!Place(u) \in 1 .. pos /\ flash'[RawMisc!Place(u)] = data[u]
    <2>1. RawMisc!Place(u) \in 1 .. pos /\ flash[RawMisc!Place(u)] = data[u]
      BY <1>3 DEF RawHalfWay
    <2>2. ~RawMisc!InBlock(RawMisc!Place(u))
      BY <1>2, <2>1 DEF RawMisc!InBlock
    <2>3. RawMisc!Place(u) \in RawMisc!Units
      BY <1>2, <2>1, RawFacts DEF RawMisc!Units
    <2> QED
      BY <2>1, <2>2, <2>3
  <1> QED
    BY <1>1, <1>3 DEF RawHalfWay, Ascending, RawWritten, RawMisc!GaveUp, RawMisc!AtEnd, RawMisc!Bad

\* A block is stepped over: one the driver calls bad, or one that is given up.
LEMMA RawSteps ==
  ASSUME RawHalfWay, Ascending, pc = "erase", RawMisc!AddBadBlock(pos), pos' = pos + RawBlock,
         ~RawMisc!AtEnd, RawMisc!Bad => flash' = flash,
         UNCHANGED <<count, data, pc, msg, result, before, misread>>
  PROVE  RawHalfWay' /\ Ascending'
  <1>1. PICK q \in Nat :
          /\ pos = RawBlock * q /\ pos <= RawSize
          /\ ~RawMisc!GaveUp => count = RawBlock * Cardinality(GoodBefore(q))
    BY DEF RawHalfWay, InStep
  <1>2. pos \in Nat /\ pos < pos + RawBlock /\ pos + RawBlock = RawBlock * (q + 1)
        /\ pos' <= RawSize
    BY <1>1, RawFacts DEF RawMisc!AtEnd
  <1>3. /\ skipped' = Append(skipped, pos) /\ skipped' \in Seq(Nat)
        /\ Len(skipped') = Len(skipped) + 1 /\ Len(skipped) \in Nat
        /\ \A i \in 1 .. Len(skipped) : skipped'[i] = skipped[i]
        /\ skipped'[Len(skipped) + 1] = pos
    BY <1>2 DEF RawMisc!AddBadBlock, Ascending
  <1>4. Ascending'
    <2>1. ASSUME NEW i \in 1 .. Len(skipped'), NEW j \in 1 .. Len(skipped'), i < j
          PROVE  skipped'[i] < skipped'[j]
      <3>1. i \in 1 .. Len(skipped)
        BY <1>3, <2>1
      <3>2. CASE j \in 1 .. Len(skipped)
        BY <1>3, <2>1, <3>1, <3>2 DEF Ascending
      <3>3. CASE j = Len(skipped) + 1
        BY <1>3, <3>1, <3>3 DEF Ascending
      <3> QED
        BY <1>3, <3>2, <3>3
    <2>2. ASSUME NEW i \in 1 .. Len(skipped')
          PROVE  skipped'[i] < pos' /\ \E k \in Nat : skipped'[i] = RawBlock * k
      BY <1>1, <1>2, <1>3 DEF Ascending
    <2> QED
      BY <1>3, <2>1, <2>2 DEF Ascending
  <1>5. ~RawMisc!GaveUp' => ~RawMisc!GaveUp /\ RawMisc!Bad
    BY <1>3 DEF RawMisc!GaveUp, RawMisc!Bad
  <1>6. InStep'
    BY <1>1, <1>2, <1>5, BadAhead DEF InStep
  <1>7. ASSUME ~RawMisc!GaveUp', NEW u \in 1 .. RawMisc!Want, u <= count
        PROVE  RawMisc!Place(u) \in 1 .. pos' /\ flash'[RawMisc!Place(u)] = data[u]
    BY <1>2, <1>5, <1>7, RawFacts DEF RawHalfWay
  <1> QED
    BY <1>4, <1>6, <1>7 DEF RawHalfWay, RawWritten

LEMMA RawErases ==
  ASSUME RawHalfWay, Ascending, RawMisc!Erase
  PROVE  RawHalfWay' /\ Ascending'
  <1>1. pc = "erase" /\ UNCHANGED <<count, data, before, misread>>
    BY DEF RawMisc!Erase
  <1>2. CASE RawMisc!Return("failed") /\ UNCHANGED skipped
    BY <1>1, <1>2, RawReturn
  <1>3. CASE /\ ~RawMisc!AtEnd /\ RawMisc!Bad /\ RawMisc!AddBadBlock(pos) /\ pos' = pos + RawBlock
             /\ UNCHANGED <<flash, pc, msg, result>>
    BY <1>1, <1>3, RawSteps
  <1>4. CASE /\ ~RawMisc!AtEnd /\ ~RawMisc!Bad /\ flash' = RawMisc!Blocked(Erased)
             /\ pc' = "program" /\ UNCHANGED <<pos, skipped, msg, result>>
    <2>1. \A u \in RawMisc!Units : ~RawMisc!InBlock(u) => flash'[u] = flash[u]
      BY <1>4 DEF RawMisc!Blocked
    <2> QED
      BY <1>1, <1>4, <2>1, RawSame
  <1>5. CASE RawMisc!NextTry /\ UNCHANGED <<flash, pos, skipped>>
    BY <1>1, <1>5, RawSame DEF RawMisc!NextTry
  <1>6. CASE /\ ~RawMisc!AtEnd /\ ~RawMisc!Bad /\ RawMisc!AddBadBlock(pos) /\ pos' = pos + RawBlock
             /\ UNCHANGED <<pc, msg, result>>
    BY <1>1, <1>6, RawSteps
  <1> QED
    BY <1>2, <1>3, <1>4, <1>5, <1>6 DEF RawMisc!Erase, RawMisc!call

LEMMA RawPrograms ==
  ASSUME RawHalfWay, Ascending, RawMisc!Program
  PROVE  RawHalfWay' /\ Ascending'
  <1>1. pc = "program" /\ pc' = "verify"
        /\ UNCHANGED <<pos, count, data, skipped, msg, result, before, misread>>
    BY DEF RawMisc!Program
  <1>2. \E n \in 0 .. RawBlock, torn \in BOOLEAN : flash' = RawMisc!Partly(n, torn)
    <2>1. CASE flash' = RawMisc!Partly(RawBlock, FALSE)
      <3>1. RawBlock \in 0 .. RawBlock /\ FALSE \in BOOLEAN
        BY RawFacts
      <3> QED
        BY <2>1, <3>1, Zenon
    <2>2. CASE flash' \in RawMisc!Interrupted
      BY <2>2 DEF RawMisc!Interrupted
    <2> QED
      BY <2>1, <2>2 DEF RawMisc!Program
  <1>3. \A u \in RawMisc!Units : ~RawMisc!InBlock(u) => flash'[u] = flash[u]
    BY <1>2 DEF RawMisc!Partly
  <1> QED
    BY <1>1, <1>3, RawSame DEF RawHalfWay

\* A block that reads back as it was written holds the units of the message
\* and the pages where the reader will look for them.
LEMMA RawVerifies ==
  ASSUME RawHalfWay, Ascending, RawMisc!Verify
  PROVE  RawHalfWay' /\ Ascending'
  <1>1. pc = "verify" /\ ~RawMisc!AtEnd /\ ~RawMisc!Bad
      /\ UNCHANGED <<flash, data, skipped, before, misread>>
    BY DEF RawMisc!Verify, RawHalfWay
  <1>2. CASE RawMisc!NextTry /\ UNCHANGED <<count, pos>>
    BY <1>1, <1>2, RawSame DEF RawMisc!NextTry
  <1>3. CASE RawMisc!Same /\ RawMisc!BlockDone("erase")
    <2>1. PICK q \in Nat :
            /\ pos = RawBlock * q /\ pos <= RawSize
            /\ ~RawMisc!GaveUp => count = RawBlock * Cardinality(GoodBefore(q))
      BY <1>1 DEF RawHalfWay, InStep
    <2>2. /\ count' = count + RawBlock /\ pos' = pos + RawBlock /\ UNCHANGED <<msg, result>>
          /\ pc' = IF count' < RawMisc!Want THEN "erase" ELSE "close"
      BY <1>3 DEF RawMisc!BlockDone
    <2>3. pos \in Nat /\ pos' <= RawSize /\ pos' > pos /\ pos' = RawBlock * (q + 1)
      BY <1>1, <2>1, <2>2, RawFacts DEF RawMisc!AtEnd
    <2>4. Ascending'
      BY <1>1, <2>2, <2>3 DEF Ascending
    <2>5. InStep'
      BY <1>1, <2>1, <2>2, <2>3, GoodAhead DEF InStep, RawMisc!GaveUp
    <2>6. ASSUME ~RawMisc!GaveUp, NEW u \in 1 .. RawMisc!Want, u <= count'
          PROVE  RawMisc!Place(u) \in 1 .. pos' /\ flash[RawMisc!Place(u)] = data[u]
      <3>1. count \in Nat
        BY <1>1, <2>1, <2>6, GoodAhead
      <3>2. CASE u <= count
        BY <1>1, <2>2, <2>3, <2>6, <3>2, RawFacts DEF RawHalfWay
      <3>3. CASE count < u
        <4>1. RawMisc!Place(u) = pos + u - count
          BY <1>1, <2>1, <2>2, <2>6, <3>3, GoodAhead
        <4>2. RawMisc!Place(u) \in 1 .. pos' /\ RawMisc!Place(u) > pos
          BY <2>2, <2>3, <2>6, <3>1, <3>3, <4>1, RawFacts
        <4>3. RawMisc!Place(u) \in RawMisc!Units /\ RawMisc!InBlock(RawMisc!Place(u))
          BY <2>2, <2>3, <4>2, RawFacts DEF RawMisc!Units, RawMisc!InBlock
        <4>4. flash[RawMisc!Place(u)] = RawMisc!Chunk(RawMisc!Place(u))
          BY <1>3, <4>3 DEF RawMisc!Same
        <4>5. count + (RawMisc!Place(u) - pos) = u
          BY <2>3, <3>1, <4>1, RawFacts
        <4>6. flash[RawMisc!Place(u)] = data[u]
          BY <4>4, <4>5, RawFacts DEF RawMisc!Chunk
        <4> QED
          BY <1>1, <4>2, <4>6 DEF RawHalfWay
      <3> QED
        BY <3>1, <3>2, <3>3, RawFacts
    <2>7. count' < RawMisc!Want \/ RawMisc!Want <= count' \/ RawMisc!GaveUp
      BY <1>1, <2>1, <2>2, GoodAhead, RawFacts
    <2> QED
      BY <1>1, <2>2, <2>4, <2>5, <2>6, <2>7 DEF RawHalfWay, RawWritten, RawMisc!GaveUp
  <1> QED
    BY <1>2, <1>3 DEF RawMisc!Verify

LEMMA RawStep ==
  ASSUME RawHalfWay, Ascending, RawMisc!Next
  PROVE  RawHalfWay' /\ Ascending'
  <1>1. CASE RawMisc!Close
    BY <1>1, RawReturn DEF RawMisc!Close
  <1>2. CASE RawMisc!PowerLoss
    BY <1>2, RawReturn DEF RawMisc!PowerLoss
  <1>3. CASE RawMisc!Write
    BY <1>3 DEF RawMisc!Write, RawHalfWay
  <1> QED
    BY <1>1, <1>2, <1>3, RawReads, RawOpens, RawErases, RawPrograms, RawVerifies DEF RawMisc!Next

LEMMA RawNext ==
  ASSUME RawInv, [Next]_vars
  PROVE  RawInv'
  <1> DEFINE I == RawHalfWay /\ Ascending
  <1>1. ASSUME UNCHANGED misc, I PROVE I'
    BY <1>1 DEF misc, RawHalfWay, Ascending, InStep, RawWritten, RawMisc!GaveUp, RawMisc!AtEnd,
       RawMisc!Bad
  <1>2. ASSUME RawMisc!Next, I PROVE I'
    BY <1>2, RawStep
  <1>3. UNCHANGED part /\ (UNCHANGED misc \/ (part = "rockchip") \/ RawMisc!Next)
    BY DEF Next, NextMisc, NextScan, NextHash, NextText, vars
  <1> QED
    BY <1>1, <1>2, <1>3 DEF RawInv

LEMMA RawAlways == Spec => []RawInv
  BY RawInit, RawNext, PTL DEF Spec, vars

\* What a call that succeeds has left is what the reader finds.
LEMMA RawSetOrSaid == RawHalfWay => RawMisc!SetOrSaid
  <1> SUFFICES ASSUME RawHalfWay, pc = "close", ~RawMisc!GaveUp, NEW u \in 1 .. RawMisc!Want
               PROVE  /\ u = RawMisc!BootUnit => flash[RawMisc!Place(u)] = msg
                      /\ u # RawMisc!BootUnit /\ ~misread =>
                           flash[RawMisc!Place(u)] = before[RawMisc!Place(u)]
    BY RawFacts DEF RawMisc!SetOrSaid
  <1>1. InStep /\ RawMisc!Want <= count
    BY DEF RawHalfWay
  <1>2. PICK q \in Nat : count = RawBlock * Cardinality(GoodBefore(q))
    BY <1>1 DEF InStep
  <1>3. count \in Nat
    BY <1>2, GoodFinite, RawFacts
  <1>4. u <= count
    BY <1>1, <1>3, RawFacts
  <1> QED
    BY <1>4 DEF RawHalfWay, RawWritten

\* One turn of the loop of mtd_find_write_start, and the loop.
Turn(at, i) ==
    IF at[2] THEN at
    ELSE IF skipped[i] = at[1] THEN <<at[1] + RawBlock, FALSE>>
    ELSE <<at[1], skipped[i] > at[1]>>

Turns(f, offset, m) ==
    f = [i \in 0 .. m |-> IF i = 0 THEN <<offset, FALSE>> ELSE Turn(f[i - 1], i)]

\* The loop can be followed to the end of any list.
LEMMA TurnsExist ==
  ASSUME NEW offset, NEW n \in Nat
  PROVE  \E f : Turns(f, offset, n)
  <1> DEFINE T == {m \in Nat : ~ \E f : Turns(f, offset, m)}
  <1> SUFFICES ASSUME T # {} PROVE FALSE
    OBVIOUS
  <1>1. PICK m \in T : \A y \in T : m <= y
    BY LeastOf
  <1>2. CASE m = 0
    <2> DEFINE f == [i \in 0 .. 0 |-> <<offset, FALSE>>]
    <2>1. f = [i \in 0 .. 0 |-> IF i = 0 THEN <<offset, FALSE>> ELSE Turn(f[i - 1], i)]
      OBVIOUS
    <2>2. Turns(f, offset, m)
      BY <1>2, <2>1 DEF Turns
    <2> QED
      BY <1>1, <2>2
  <1>3. CASE m # 0
    <2>1. m \in Nat /\ m - 1 \in Nat /\ m - 1 \notin T
      BY <1>1, <1>3
    <2>2. PICK f : Turns(f, offset, m - 1)
      BY <2>1
    <2> DEFINE g == [i \in 0 .. m |-> IF i < m THEN f[i] ELSE Turn(f[m - 1], m)]
    <2>3. ASSUME NEW i \in 0 .. m
          PROVE  g[i] = IF i = 0 THEN <<offset, FALSE>> ELSE Turn(g[i - 1], i)
      <3>1. CASE i = m
        <4>1. g[m - 1] = f[m - 1] /\ g[m] = Turn(f[m - 1], m)
          BY <2>1
        <4> QED
          BY <1>3, <3>1, <4>1
      <3>2. CASE i < m
        <4>1. i \in 0 .. m - 1
          BY <2>1, <3>2
        <4>2. f[i] = IF i = 0 THEN <<offset, FALSE>> ELSE Turn(f[i - 1], i)
          BY <2>2, <4>1 DEF Turns
        <4>3. g[i] = f[i] /\ (i # 0 => g[i - 1] = f[i - 1])
          BY <2>1, <3>2, <4>1
        <4> QED
          BY <4>2, <4>3
      <3> QED
        BY <2>1, <3>1, <3>2
    <2>4. Turns(g, offset, m)
      BY <2>3 DEF Turns
    <2> QED
      BY <1>1, <2>4
  <1> QED
    BY <1>2, <1>3

\* Where the loop stands after m of the skipped blocks: at block a, the first
\* at or after block k that is not among them.
StandsAt(f, k, m, a) ==
    /\ a >= k /\ f[m][1] = RawBlock * a
    /\ \A i \in 1 .. m : skipped[i] # RawBlock * a
    /\ \A b \in k .. a - 1 : \E i \in 1 .. m : skipped[i] = RawBlock * b
    /\ f[m][2] => \A i \in m + 1 .. Len(skipped) : skipped[i] > RawBlock * a
    /\ ~f[m][2] => \A i \in 1 .. m : skipped[i] < RawBlock * a

Stands(f, k, m) == f[m][2] \in BOOLEAN /\ \E a \in Nat : StandsAt(f, k, m, a)

LEMMA TurnsFind ==
  ASSUME Ascending, NEW k \in Nat, NEW f, Turns(f, RawBlock * k, Len(skipped)),
         NEW n \in 0 .. Len(skipped)
  PROVE  Stands(f, k, n)
  <1> DEFINE T == {m \in Nat : m <= Len(skipped) /\ ~Stands(f, k, m)}
  <1>1. Len(skipped) \in Nat /\ \A i \in 1 .. Len(skipped) : skipped[i] \in Nat
    BY DEF Ascending
  <1>2. f[0] = <<RawBlock * k, FALSE>>
        /\ \A i \in 1 .. Len(skipped) : f[i] = Turn(f[i - 1], i)
    <2>1. 0 \in 0 .. Len(skipped) /\ \A i \in 1 .. Len(skipped) : i \in 0 .. Len(skipped) /\ i # 0
      BY <1>1
    <2>2. \A i \in 0 .. Len(skipped) :
             f[i] = IF i = 0 THEN <<RawBlock * k, FALSE>> ELSE Turn(f[i - 1], i)
      BY DEF Turns
    <2> QED
      BY <2>1, <2>2
  <1> SUFFICES ASSUME T # {} PROVE FALSE
    BY <1>1
  <1>3. PICK m \in T : \A y \in T : m <= y
    BY LeastOf
  <1>4. m # 0
    <2>1. f[0][1] = RawBlock * k /\ f[0][2] = FALSE
      BY <1>2
    <2>2. StandsAt(f, k, 0, k)
      BY <2>1 DEF StandsAt
    <2> QED
      BY <1>3, <2>1, <2>2 DEF Stands
  <1>5. m \in 1 .. Len(skipped) /\ m - 1 \in 0 .. Len(skipped) /\ Stands(f, k, m - 1)
    BY <1>1, <1>3, <1>4
  <1>6. f[m] = Turn(f[m - 1], m)
    BY <1>2, <1>5
  <1>7. PICK a \in Nat : StandsAt(f, k, m - 1, a)
    BY <1>5 DEF Stands
  <1>0. RawBlock * a \in Nat /\ RawBlock * (a + 1) = RawBlock * a + RawBlock
    BY RawFacts
  <1>8. CASE f[m - 1][2]
    <2>1. f[m] = f[m - 1]
      BY <1>6, <1>8 DEF Turn
    <2>2. skipped[m] > RawBlock * a /\ skipped[m] \in Nat
      BY <1>1, <1>5, <1>7, <1>8 DEF StandsAt
    <2>3. StandsAt(f, k, m, a)
      BY <1>0, <1>1, <1>5, <1>7, <1>8, <2>1, <2>2, SMTT(60) DEF StandsAt
    <2> QED
      BY <1>3, <1>5, <2>1, <2>3 DEF Stands
  <1>9. CASE ~f[m - 1][2] /\ skipped[m] = RawBlock * a
    <2>1. f[m] = <<RawBlock * a + RawBlock, FALSE>>
      BY <1>6, <1>7, <1>9 DEF Turn, StandsAt
    <2>2. ASSUME NEW i \in 1 .. m PROVE skipped[i] < RawBlock * (a + 1)
      <3>1. RawBlock * a < RawBlock * (a + 1)
        BY <1>0, RawFacts
      <3>2. skipped[i] <= RawBlock * a /\ skipped[i] \in Nat
        <4>1. CASE i = m
          BY <1>0, <1>1, <1>5, <1>9, <4>1
        <4>2. CASE i \in 1 .. m - 1
          BY <1>0, <1>1, <1>5, <1>7, <1>9, <4>2, SMTT(60) DEF StandsAt
        <4> QED
          BY <1>5, <4>1, <4>2
      <3>3. RawBlock * (a + 1) \in Nat
        BY <1>0, RawFacts
      <3> DEFINE blockAt == RawBlock * a
                 blockAfter == RawBlock * (a + 1)
      <3>4. blockAt \in Nat /\ blockAfter \in Nat /\ blockAt < blockAfter
          /\ skipped[i] <= blockAt /\ skipped[i] \in Nat
        BY <1>0, <3>1, <3>2, <3>3
      <3> HIDE DEF blockAt, blockAfter
      <3>5. skipped[i] < blockAfter
        BY <3>4
      <3> QED
        BY <3>5 DEF blockAfter
    <2>3. \A i \in 1 .. m : skipped[i] # RawBlock * (a + 1)
      <3> DEFINE blockAfter == RawBlock * (a + 1)
      <3>1. \A i \in 1 .. m : skipped[i] \in Nat /\ skipped[i] < blockAfter
        BY <1>1, <1>5, <2>2
      <3> HIDE DEF blockAfter
      <3>2. \A i \in 1 .. m : skipped[i] # blockAfter
        BY <3>1
      <3> QED
        BY <3>2 DEF blockAfter
    <2>4. \A b \in k .. a : \E i \in 1 .. m : skipped[i] = RawBlock * b
      BY <1>5, <1>7, <1>9 DEF StandsAt
    <2>5. f[m][1] = RawBlock * (a + 1) /\ f[m][2] = FALSE
      BY <1>0, <2>1
    <2>6. a + 1 \in Nat /\ a + 1 >= k /\ (a + 1) - 1 = a
      BY <1>7 DEF StandsAt
    <2>7. StandsAt(f, k, m, a + 1)
      BY <2>2, <2>3, <2>4, <2>5, <2>6 DEF StandsAt
    <2> QED
      BY <1>3, <2>5, <2>6, <2>7 DEF Stands
  <1>10. CASE ~f[m - 1][2] /\ skipped[m] # RawBlock * a
    <2>1. f[m] = <<RawBlock * a, skipped[m] > RawBlock * a>>
      BY <1>6, <1>7, <1>10 DEF Turn, StandsAt
    <2>2. f[m][1] = RawBlock * a /\ f[m][2] = (skipped[m] > RawBlock * a)
      BY <2>1
    <2>3. \A i \in m + 1 .. Len(skipped) : skipped[i] > skipped[m]
      BY <1>1, <1>5 DEF Ascending
    <2>4. \A b \in k .. a - 1 : \E i \in 1 .. m : skipped[i] = RawBlock * b
      BY <1>5, <1>7 DEF StandsAt
    <2>5. \A i \in 1 .. m : skipped[i] # RawBlock * a
      BY <1>5, <1>7, <1>10 DEF StandsAt
    <2>6. ASSUME f[m][2], NEW i \in m + 1 .. Len(skipped) PROVE skipped[i] > RawBlock * a
      <3>1. skipped[m] > RawBlock * a
        BY <2>2, <2>6
      <3>2. skipped[i] > skipped[m] /\ skipped[i] \in Nat /\ skipped[m] \in Nat
        BY <1>1, <1>5, <2>3
      <3> QED
        BY <1>0, <3>1, <3>2
    <2>7. ASSUME ~f[m][2], NEW i \in 1 .. m PROVE skipped[i] < RawBlock * a
      <3>1. ~(skipped[m] > RawBlock * a)
        BY <2>2, <2>7
      <3>2. CASE i = m
        BY <1>0, <1>1, <1>5, <1>10, <3>1, <3>2
      <3>3. CASE i \in 1 .. m - 1
        BY <1>7, <1>10, <3>3 DEF StandsAt
      <3> QED
        BY <1>5, <3>2, <3>3
    <2>8. StandsAt(f, k, m, a)
      BY <1>7, <2>2, <2>4, <2>5, <2>6, <2>7 DEF StandsAt
    <2>9. f[m][2] \in BOOLEAN
      BY <2>2
    <2> QED
      BY <1>3, <2>8, <2>9 DEF Stands
  <1> QED
    BY <1>5, <1>8, <1>9, <1>10 DEF Stands

\* The search ends at the first block at or after the offset that is not known
\* to be bad.
LEMMA StartFound ==
  ASSUME Ascending, NEW k \in Nat
  PROVE  \E a \in Nat :
           /\ a >= k /\ RawMisc!FindWriteStart(RawBlock * k) = RawBlock * a
           /\ \A i \in 1 .. Len(skipped) : skipped[i] # RawBlock * a
           /\ \A b \in k .. a - 1 : \E i \in 1 .. Len(skipped) : skipped[i] = RawBlock * b
  <1> DEFINE n == Len(skipped)
             o == RawBlock * k
             f == CHOOSE g : Turns(g, o, n)
  <1>1. n \in Nat
    BY DEF Ascending
  <1>2. Turns(f, o, n)
    BY <1>1, TurnsExist
  <1>3. RawMisc!FindWriteStart(o) = f[n][1]
    BY DEF RawMisc!FindWriteStart, Turns, Turn
  <1> HIDE DEF f
  <1>4. Stands(f, k, n)
    BY <1>1, <1>2, TurnsFind
  <1> QED
    BY <1>3, <1>4 DEF Stands, StandsAt

LEMMA WriteStart == Ascending => RawMisc!WriteStartIsFirstGood
  <1> DEFINE known == {skipped[i] : i \in 1 .. Len(skipped)}
             offsets == {b * RawBlock : b \in 0 .. RawSize \div RawBlock}
             GoodFrom(o) == {g \in offsets : g >= o /\ g \notin known}
  <1> SUFFICES ASSUME Ascending, NEW o \in offsets, GoodFrom(o) # {}
               PROVE  RawMisc!FindWriteStart(o) =
                        CHOOSE g \in GoodFrom(o) : \A h \in GoodFrom(o) : g <= h
    BY DEF RawMisc!WriteStartIsFirstGood
  <1> DEFINE z == RawSize \div RawBlock
             First == CHOOSE g \in GoodFrom(o) : \A h \in GoodFrom(o) : g <= h
  <1>1. z \in Nat
    BY RawFacts, SMT
  <1> HIDE DEF z
  <1>2. PICK k \in 0 .. z : o = RawBlock * k
    <2>1. PICK b \in 0 .. z : o = b * RawBlock
      BY DEF z
    <2>2. b \in Int /\ RawBlock \in Int
      BY <1>1, RawFacts
    <2>3. b * RawBlock = RawBlock * b
      BY ONLY <2>2, SMT
    <2> QED
      BY <2>1, <2>3
  <1>3. PICK a \in Nat :
           /\ a >= k /\ RawMisc!FindWriteStart(o) = RawBlock * a
           /\ RawBlock * a \notin known
           /\ \A b \in k .. a - 1 : RawBlock * b \in known
    <2>1. k \in Nat
      BY <1>1
    <2>2. PICK a \in Nat :
           /\ a >= k /\ RawMisc!FindWriteStart(RawBlock * k) = RawBlock * a
           /\ \A i \in 1 .. Len(skipped) : skipped[i] # RawBlock * a
           /\ \A b \in k .. a - 1 : \E i \in 1 .. Len(skipped) : skipped[i] = RawBlock * b
      BY <2>1, StartFound
    <2>3. RawBlock * a \notin known
      BY <2>2
    <2>4. \A b \in k .. a - 1 : RawBlock * b \in known
      BY <2>2
    <2> QED
      BY <1>2, <2>2, <2>3, <2>4
  <1>4. ASSUME NEW h \in GoodFrom(o) PROVE RawBlock * a <= h /\ a <= z
    <2>1. PICK b \in 0 .. z : h = RawBlock * b
      BY <1>1, RawFacts DEF z
    <2>2. h >= o /\ h \notin known
      OBVIOUS
    <2>3. b >= k
      <3>1. SUFFICES ASSUME b < k PROVE FALSE
        BY <1>1, <1>2, <2>1
      <3>2. RawBlock * b < RawBlock * k
        BY <1>1, <1>2, <2>1, <3>1, RawFacts
      <3> QED
        BY <1>1, <1>2, <2>1, <2>2, <3>2, RawFacts
    <2>4. a <= b
      BY <1>1, <1>2, <1>3, <2>1, <2>2, <2>3
    <2> QED
      BY <1>1, <2>1, <2>4, RawFacts
  <1>5. a \in 0 .. z
    BY <1>1, <1>3, <1>4
  <1>6. RawBlock * a \in offsets /\ RawBlock * a >= o
    BY <1>1, <1>2, <1>3, <1>5, RawFacts DEF z
  <1>7. RawBlock * a \in GoodFrom(o)
    BY <1>3, <1>6
  <1>8. \A h \in GoodFrom(o) : h \in Nat
    BY <1>1, RawFacts, SMTT(60) DEF z
  <1>9. First \in GoodFrom(o) /\ First <= RawBlock * a
    BY <1>4, <1>7
  <1>10. First \in Nat /\ RawBlock * a \in Nat /\ RawBlock * a <= First
    BY <1>4, <1>7, <1>8, <1>9
  <1> HIDE DEF First
  <1>11. First = RawBlock * a
    BY <1>9, <1>10
  <1> QED
    BY <1>3, <1>11 DEF First

\* In both branches of mtdutils.c, for any partition, blocks, pages and bad
\* blocks, any number of reads, erasures and writes that fail and of losses of
\* power: MiscKept.  Of raw flash it says nothing of a call that gave a good
\* block up, and only where the message lies of one that could not read one.
THEOREM MiscAlwaysKept == Spec => []MiscKept
  <1>1. RawInv => (part = "raw flash" => RawMisc!SetOrSaid /\ RawMisc!WriteStartIsFirstGood)
    BY RawSetOrSaid, WriteStart DEF RawInv
  <1> QED
    BY RawAlways, BuiltKept, <1>1, PTL DEF MiscKept
=============================================================================
