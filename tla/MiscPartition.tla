----------------------------- MODULE MiscPartition -----------------------------
(***************************************************************************)
(* set_bootloader_message_mtd (daemon/src/platform/RecoveryManager.cpp)    *)
(* and the part of daemon/src/fs/mtdutils.c it runs through: the first     *)
(* MISC_PAGES pages of the misc partition are read, the message is put at  *)
(* the start of page MISC_COMMAND_PAGE and all of it is written back block *)
(* by block.  mtdutils.c has two branches.  The one for rockchip, which is *)
(* the one the Android.mk builds (TARGET_BOARD_PLATFORM and rockchip are   *)
(* both undefined, and 0 == 0), reads and writes plain blocks; the other   *)
(* erases, writes, verifies and steps over bad blocks of raw flash.        *)
(*                                                                         *)
(* A unit is the room of one boot message.  An offset counts units.        *)
(***************************************************************************)
EXTENDS Integers, FiniteSets, Sequences

CONSTANTS
    Rockchip,     \* which branch is built
    Size,         \* the size of the partition
    BlockSize,    \* erase_size
    PageSize,     \* the write_size of mtd_partition_info
    Messages,
    BadBlocks,    \* external: offsets of the blocks the driver calls bad
    MaxFaults,    \* bound: how many accesses of the device fail
    MaxCalls,     \* bound: how many boot messages are written
    Zero, Erased, Torn

MiscPages == 3

\* Slip: pages counted from one.
CommandUnitFromOne == 1

\* Where page MISC_COMMAND_PAGE begins.
CommandUnit == PageSize + 1

\* External: where the boot loader and the recovery system read it.
BootUnit == PageSize + 1

Want == MiscPages * PageSize    \* `size`: what is read and written back
Units == 1 .. Size
Contents == Nat \cup Messages \cup {Zero, Erased, Torn}

MiscAssumption ==
    /\ Rockchip \in BOOLEAN
    /\ Size \in Nat /\ BlockSize \in Nat \ {0} /\ PageSize \in Nat \ {0}
    /\ Want <= Size
    /\ MaxFaults \in Nat /\ MaxCalls \in Nat

MessageAssumption ==
    /\ Messages \cap (Nat \cup {Zero, Erased, Torn}) = {}
    /\ "idle" \notin Messages

VARIABLES
    flash,    \* the partition
    pc,       \* what the call does next
    msg,      \* `in`, or "idle"
    pos,      \* the position of ctx->fd
    count,    \* units read into data, or written from it
    data,     \* the caller's buffer
    tries,    \* `retry` of write_block
    skipped,  \* bad_block_offsets
    result,   \* what the last call returned
    faults, calls,  \* history: how many so far
    before,   \* history: the partition at the start of the call
    misread   \* history: a good block could not be read in this call

call == <<pc, msg, result>>
vars == <<flash, call, pos, count, data, tries, skipped, faults, calls, before,
          misread>>

Steps == {"idle", "read", "write", "erase", "program", "verify", "close"}

TypeOK ==
    /\ flash \in [Units -> Contents] /\ before \in [Units -> Contents]
    /\ pc \in Steps
    /\ msg \in Messages \cup {"idle"}
    /\ (pc = "idle") <=> (msg = "idle")
    /\ pos \in Nat /\ count \in Nat
    /\ data \in [1 .. Want -> Contents]
    /\ tries \in 0 .. 2
    /\ skipped \in Seq(Nat)
    /\ result \in {"none", "ok", "failed", "lost"}
    /\ faults \in 0 .. MaxFaults /\ calls \in 0 .. MaxCalls
    /\ misread \in BOOLEAN

Init ==
    /\ flash = [u \in Units |-> u] /\ before = flash
    /\ pc = "idle" /\ msg = "idle" /\ result = "none"
    /\ pos = 0 /\ count = 0 /\ tries = 0
    /\ data = [u \in 1 .. Want |-> Zero]
    /\ skipped = << >>
    /\ faults = 0 /\ calls = 0 /\ misread = FALSE

-----------------------------------------------------------------------------
(* What the steps share *)

InBlock(u) == pos < u /\ u <= pos + BlockSize
AtEnd == pos + BlockSize > Size
Bad == ~Rockchip /\ pos \in BadBlocks

Fault == faults < MaxFaults /\ faults' = faults + 1
NoFault == faults' = faults

\* What write_block is given: the next block of data, or what is left of it
\* in ctx->buffer, filled up with zeros by mtd_erase_blocks.
Chunk(u) ==
    LET i == count + (u - pos) IN IF i <= Want THEN data[i] ELSE Zero

\* The first n units of the block take the data, one may be torn, the others
\* are what they were.
Partly(n, torn) ==
    [u \in Units |-> IF ~InBlock(u) \/ u > pos + n + 1 THEN flash[u]
                     ELSE IF u <= pos + n THEN Chunk(u)
                     ELSE IF torn THEN Torn ELSE flash[u]]

Blocked(value) == [u \in Units |-> IF InBlock(u) THEN value ELSE flash[u]]

Interrupted == {Partly(n, t) : n \in 0 .. BlockSize, t \in BOOLEAN}

Return(r) == pc' = "idle" /\ msg' = "idle" /\ result' = r

\* set_bootloader_message_mtd: the partition is found and opened.  A failure
\* to do so returns with nothing changed.
Begin(m) ==
    /\ pc = "idle" /\ calls < MaxCalls
    /\ calls' = calls + 1
    /\ pc' = "read" /\ msg' = m /\ result' = "none"
    /\ pos' = 0 /\ count' = 0 /\ before' = flash /\ misread' = FALSE
    /\ UNCHANGED <<flash, data, tries, skipped, faults>>

\* mtd_read_data and read_block: a whole block, or the start of the last one.
\* What was read is brought to the caller with the block it lies in.
ReadGood ==
    /\ ~AtEnd /\ ~Bad /\ NoFault
    /\ data' = [i \in 1 .. Want |->
                  IF count < i /\ i <= count + BlockSize
                  THEN flash[pos + i - count] ELSE data[i]]
    /\ count' = count + BlockSize
    /\ pos' = pos + BlockSize
    /\ UNCHANGED <<call, misread>>

\* Raw flash only: a block that cannot be read is stepped over, like a bad one.
ReadSkip ==
    /\ ~Rockchip /\ ~AtEnd
    /\ IF Bad THEN NoFault ELSE Fault
    /\ pos' = pos + BlockSize
    /\ misread' = (misread \/ ~Bad)
    /\ UNCHANGED <<call, count, data>>

ReadFails ==
    /\ IF AtEnd THEN NoFault ELSE Fault
    /\ Return("failed")
    /\ UNCHANGED <<pos, count, data, misread>>

Read ==
    /\ pc = "read" /\ count < Want
    /\ ReadGood \/ ReadSkip \/ ReadFails
    /\ UNCHANGED <<flash, tries, skipped, calls, before>>

\* memcpy of the message into its page, and mtd_write_partition.
Open ==
    /\ pc = "read" /\ count >= Want
    /\ \/ /\ data' = [data EXCEPT ![CommandUnit] = msg]
          /\ pos' = 0 /\ count' = 0 /\ skipped' = << >> /\ tries' = 0
          /\ pc' = (IF Rockchip THEN "write" ELSE "erase")
          /\ NoFault
          /\ UNCHANGED <<msg, result>>
       \/ /\ Fault /\ Return("failed")
          /\ UNCHANGED <<data, pos, count, skipped, tries>>
    /\ UNCHANGED <<flash, calls, before, misread>>


-----------------------------------------------------------------------------
(* Writing *)

BlockDone(next) ==
    /\ count' = count + BlockSize /\ pos' = pos + BlockSize /\ tries' = 0
    /\ pc' = (IF count' < Want THEN next ELSE "close")
    /\ UNCHANGED <<msg, result>>

\* write_block of the rockchip branch.
Write ==
    /\ pc = "write"
    /\ \/ /\ ~AtEnd /\ NoFault /\ BlockDone("write")
          /\ flash' = Partly(BlockSize, FALSE)
       \/ /\ IF AtEnd THEN NoFault /\ UNCHANGED flash
                      ELSE Fault /\ flash' \in Interrupted
          /\ Return("failed")
          /\ UNCHANGED <<pos, count, tries>>
    /\ UNCHANGED <<data, skipped, calls, before, misread>>

NextTry == pc' = "erase" /\ tries' = tries + 1 /\ UNCHANGED <<msg, result>>

\* add_bad_block_offset
AddBadBlock(offset) == skipped' = Append(skipped, offset)

\* write_block of the other branch: the device is full, the block is known to
\* be bad, it is erased (or that fails), or it is given up after two tries.
Erase ==
    /\ pc = "erase"
    /\ \/ /\ AtEnd /\ NoFault
          /\ Return("failed")
          /\ UNCHANGED <<flash, pos, tries, skipped>>
       \/ /\ ~AtEnd /\ Bad /\ NoFault
          /\ AddBadBlock(pos) /\ pos' = pos + BlockSize
          /\ UNCHANGED <<flash, tries, call>>
       \/ /\ ~AtEnd /\ ~Bad /\ tries < 2 /\ NoFault
          /\ flash' = Blocked(Erased)
          /\ pc' = "program"
          /\ UNCHANGED <<pos, tries, skipped, msg, result>>
       \/ /\ ~AtEnd /\ ~Bad /\ tries < 2 /\ Fault /\ NextTry
          /\ UNCHANGED <<flash, pos, skipped>>
       \/ /\ ~AtEnd /\ ~Bad /\ tries = 2
          /\ \/ NoFault /\ flash' = Blocked(Erased)
             \/ Fault /\ UNCHANGED flash
          /\ AddBadBlock(pos) /\ pos' = pos + BlockSize /\ tries' = 0
          /\ UNCHANGED call
    /\ UNCHANGED <<count, data, calls, before, misread>>

\* The result of the write is not looked at.
Program ==
    /\ pc = "program"
    /\ \/ NoFault /\ flash' = Partly(BlockSize, FALSE)
       \/ Fault /\ flash' \in Interrupted
    /\ pc' = "verify"
    /\ UNCHANGED <<pos, count, data, tries, skipped, msg, result, calls, before, misread>>

\* Slip: the block is taken as it was written.
SameUnverified == TRUE

\* memcmp of what was written with what is read back.
Same == \A u \in Units : InBlock(u) => flash[u] = Chunk(u)

Verify ==
    /\ pc = "verify"
    /\ \/ Same /\ NoFault /\ BlockDone("erase")
       \/ /\ IF Same THEN Fault ELSE NoFault
          /\ NextTry
          /\ UNCHANGED <<count, pos>>
    /\ UNCHANGED <<flash, data, skipped, calls, before, misread>>

\* mtd_write_close, after its mtd_erase_blocks has written the last block.
Close ==
    /\ pc = "close"
    /\ \/ NoFault /\ Return("ok")
       \/ Fault /\ Return("failed")
    /\ UNCHANGED <<flash, pos, count, data, tries, skipped, calls, before, misread>>

\* The power goes; a block that is being written is left in any state between.
PowerLoss ==
    /\ pc # "idle"
    /\ flash' \in IF pc \in {"write", "program"} /\ ~AtEnd
                  THEN Interrupted ELSE {flash}
    /\ Return("lost")
    /\ UNCHANGED <<pos, count, data, tries, skipped, faults, calls, before, misread>>

Next ==
    \/ \E m \in Messages : Begin(m)
    \/ Read \/ Open \/ Write \/ Erase \/ Program \/ Verify \/ Close
    \/ PowerLoss

Spec == Init /\ [][Next]_vars

-----------------------------------------------------------------------------
(* What the next reader finds *)

BlockOf(u) == (u - 1) \div BlockSize
RawGood == {b \in 0 .. (Size \div BlockSize) - 1 : b * BlockSize \notin BadBlocks}

\* Where unit u of the content lies: a reader of raw flash steps over the
\* blocks that the driver calls bad.
Place(u) ==
    IF Rockchip THEN u
    ELSE LET b == CHOOSE g \in RawGood :
                    Cardinality({h \in RawGood : h < g}) = BlockOf(u)
         IN  b * BlockSize + ((u - 1) % BlockSize) + 1

\* mtd_find_write_start over an ascending list of blocks.
FindWriteStart(offset) ==
    LET Skip[i \in 0 .. Len(skipped)] ==
          IF i = 0 THEN <<offset, FALSE>>
          ELSE LET at == Skip[i - 1] IN
               IF at[2] THEN at
               ELSE IF skipped[i] = at[1] THEN <<at[1] + BlockSize, FALSE>>
               ELSE <<at[1], skipped[i] > at[1]>>
    IN  Skip[Len(skipped)][1]

\* write_block gave a block up that the driver does not call bad.
GaveUp == \E i \in 1 .. Len(skipped) : skipped[i] \notin BadBlocks

-----------------------------------------------------------------------------
(* Properties *)

\* A call that returns success has put its message where the next boot reads
\* it, and what else lies in the three pages is as it was.  The code keeps
\* neither where raw flash made it give a block up: the reader does not know of
\* that block (mtdutils.c:509-512).  It does not keep the second where a good
\* block of raw flash could not be read: the pages are then filled from the
\* blocks behind it, and are written back so (mtdutils.c:325-347).
SetOrSaid ==
    pc = "close" /\ ~GaveUp =>
        /\ flash[Place(BootUnit)] = msg
        /\ ~misread => \A u \in 1 .. Want :
                         u # BootUnit => flash[Place(u)] = before[Place(u)]

\* On rockchip nothing but the boot message ever changes within a block that
\* is not being written, and a loss of power damages one unit at the most:
\* every other unit of the pages is as it was before the call.
PagesKept ==
    Rockchip =>
        /\ \A u \in 1 .. Want : u # BootUnit => flash[u] \in {before[u], Torn}
        /\ \A u, w \in 1 .. Want :
              flash[u] = Torn /\ before[u] # Torn /\ flash[w] = Torn /\ before[w] # Torn
                => u = w

\* The skipped blocks are noted in ascending order, on which
\* mtd_find_write_start relies to find the first good block at or after an
\* offset.
WriteStartIsFirstGood ==
    LET known == {skipped[i] : i \in 1 .. Len(skipped)}
        offsets == {b * BlockSize : b \in 0 .. Size \div BlockSize}
        GoodFrom(o) == {g \in offsets : g >= o /\ g \notin known}
    IN  \A o \in offsets :
          GoodFrom(o) # {} =>
             FindWriteStart(o) = CHOOSE g \in GoodFrom(o) :
                                    \A h \in GoodFrom(o) : g <= h
================================================================================
