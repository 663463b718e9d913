SPECIFICATION Spec
CONSTANTS
    m1 = m1
    m2 = m2
    Messages <- TwoMessages
    Zero = zero
    Erased = erased
    Torn = torn
    \* Pages larger than a block, as on rockchip.
    BuiltSize = 14
    BuiltBlock = 2
    BuiltPage = 4
    BuiltFaults = 2
    BuiltCalls = 2
    \* Pages smaller than a block, with a bad block between.
    RawSize = 8
    RawBlock = 2
    RawPage = 1
    RawBad = {2}
    RawFaults = 4
    RawCalls = 2
    \* Fewer lines fit than there are devices.
    Slots = 3
    Names = {"misc", "cache"}
    ReadLimit = 2
    None = none
    BlockLen = 4
    ByteBits = 2
    Word = 16
    MaxPiece = 9
    MaxPieces = 5
    PathChars <- ThreeChars
    PathMax = 6
    External <- AtSlashS
    RecoveryExternal <- AtSlashXS
    TextChars <- FiveChars
    Prefix <- KeyIs
    Default = unknow
    Throws = out_of_range
    MaxLength = 6
\* Calls and texts are bounded.
CHECK_DEADLOCK FALSE
INVARIANTS
    MiscKept
    FoundIsSeen
    TextsRight
PROPERTIES
    BootCellSpec
    DigestIsRight
