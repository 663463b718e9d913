------------------------------- MODULE Device --------------------------------
(* The parts of the update that are about the device's storage: the misc      *)
(* partition, in both branches of mtdutils.c, the table of partitions, MD5,   *)
(* and the texts that are read from files.  They share no state.  A behaviour *)
(* is about one of them; the others stay in an initial state.                 *)
EXTENDS Integers, Sequences

CONSTANTS
    Messages, Zero, Erased, Torn,                   \* of MiscPartition
    BuiltSize, BuiltBlock, BuiltPage, BuiltFaults, BuiltCalls,
    RawSize, RawBlock, RawPage, RawBad, RawFaults, RawCalls,
    Slots, Names, ReadLimit, None,                  \* of MtdScan
    BlockLen, ByteBits, Word, MaxPiece, MaxPieces,  \* of Md5
    PathChars, PathMax, External, RecoveryExternal, \* of RecoveryText
    TextChars, Prefix, Default, Throws, MaxLength   \* of StringHelpers

VARIABLES
    part,     \* what the behaviour is about
    flash, pc, msg, pos, count, data, tries, skipped, result, faults, calls, before, misread,
    proc, table, partitions, seen,
    state, low, high, buffer, digest, message, spoilt, hashed,
    path, stale,
    text

misc == <<flash, pc, msg, pos, count, data, tries, skipped, result, faults, calls, before,
          misread>>
scan == <<proc, table, partitions, seen>>
hash == <<state, low, high, buffer, digest, message, spoilt, hashed>>
texts == <<path, stale, text>>

\* The branch that the Android.mk builds.
BuiltMisc == INSTANCE MiscPartition WITH
    Rockchip <- TRUE, Size <- BuiltSize, BlockSize <- BuiltBlock, PageSize <- BuiltPage,
    BadBlocks <- {}, MaxFaults <- BuiltFaults, MaxCalls <- BuiltCalls

\* The other one.
RawMisc == INSTANCE MiscPartition WITH
    Rockchip <- FALSE, Size <- RawSize, BlockSize <- RawBlock, PageSize <- RawPage,
    BadBlocks <- RawBad, MaxFaults <- RawFaults, MaxCalls <- RawCalls

\* The boot message, while the behaviour is about the branch that is built.
Cell == INSTANCE BootCell WITH
    Damaged <- BuiltMisc!Contents \ Messages,
    cell <- IF part = "rockchip" THEN flash[BuiltMisc!Place(BuiltMisc!BootUnit)] ELSE Zero,
    call <- IF part = "rockchip" THEN msg ELSE "idle",
    result <- IF part = "rockchip" THEN result ELSE "none"

Scan == INSTANCE MtdScan WITH Numbers <- 0 .. Slots - 1, count <- partitions

Hash == INSTANCE Md5 WITH calls <- hashed

Result == INSTANCE RecoveryText WITH Chars <- PathChars

Strings == INSTANCE StringHelpers WITH Chars <- TextChars

ASSUME DeviceAssumption ==
    /\ BuiltMisc!MiscAssumption /\ RawMisc!MiscAssumption /\ BuiltMisc!MessageAssumption
    /\ Scan!ScanAssumption /\ Hash!Md5Assumption
    /\ Result!TextAssumption /\ Strings!StringAssumption

-----------------------------------------------------------------------------
Init ==
    /\ part \in {"rockchip", "raw flash", "scan", "hash", "result", "strings"}
    /\ IF part = "raw flash" THEN RawMisc!Init ELSE BuiltMisc!Init
    /\ Scan!Init /\ (part # "scan" => proc = Scan!Cleared)
    /\ Hash!Init
    /\ Result!Init /\ (part # "result" => stale = "NUL")
    /\ Strings!Init

NextMisc ==
    /\ \/ part = "rockchip" /\ BuiltMisc!Next
       \/ part = "raw flash" /\ RawMisc!Next
    /\ UNCHANGED <<part, scan, hash, texts>>

NextScan == part = "scan" /\ Scan!Next /\ UNCHANGED <<part, misc, hash, texts>>

NextHash == part = "hash" /\ Hash!Next /\ UNCHANGED <<part, misc, scan, texts>>

NextText ==
    /\ \/ part = "result" /\ Result!Grow /\ UNCHANGED text
       \/ part = "strings" /\ Strings!Grow /\ UNCHANGED <<path, stale>>
    /\ UNCHANGED <<part, misc, scan, hash>>

Next == NextMisc \/ NextScan \/ NextHash \/ NextText

Spec == Init /\ [][Next]_<<part, misc, scan, hash, texts>>

-----------------------------------------------------------------------------
\* set_bootloader_message_mtd returns success only if the message lies where
\* the next boot reads it, over failures, bad blocks and losses of power at
\* every step; nothing else in the pages changes for good, and the blocks that
\* were stepped over are known in the order mtd_find_write_start needs.  Raw
\* flash has two exemptions, which SetOrSaid names: a call that gave a block up
\* promises nothing, and one that could not read a good block keeps the message
\* only.
MiscKept ==
    /\ part = "rockchip" => BuiltMisc!TypeOK /\ BuiltMisc!SetOrSaid /\ BuiltMisc!PagesKept
    /\ part = "raw flash" => RawMisc!SetOrSaid /\ RawMisc!WriteStartIsFirstGood

\* In the branch that is built the many block accesses of a call, any of which
\* may fail or be cut off, are one boot message set in one step, or not, or
\* damaged (BootCell).
BootCellSpec == Cell!Spec

\* mtd_find_partition_by_name answers for the last scan.
FoundIsSeen == part = "scan" => Scan!FoundIsSeen

\* MD5 of a file, in whatever pieces it is read, is that of the padded message.
DigestIsRight == [](part = "hash" => Hash!NothingLost) /\ Hash!DigestIsRight

\* last_install is read for what it says, but for the file that fills the
\* buffer: the terminator is then written behind it (librecovery.c:246).  Names,
\* lists and proc files that utils.cpp and fs_utils.cpp take apart keep their
\* text.
TextsRight ==
    /\ part = "result" => Result!WholeFileRead
    /\ part = "strings" =>
         /\ Strings!UrlNameIsLast /\ Strings!TrimKeepsText /\ Strings!SplitIsComplete
         /\ Strings!LastLineCounts /\ Strings!ReadFileKeepsText
=============================================================================
