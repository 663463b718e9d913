SPECIFICATION Spec
CONSTANTS
    Elements = {null, e1, e2}
    NullElement = null
    Half = 8
    Indices = {0, 1, 2, 3}
    MemberNames = {0, 1}
    MaxSize = 5
    Keys = {0, 1, 4, 5, 9}
    PastEnd = past_end
    Nowhere = nowhere
    OrderMax = 7
    NaN = nan
    Throws = throws
    Owners = {v1, v2}
    MaxSteps = 4
    aborts = aborts
\* Calls, loops and comparisons come to an end.
CHECK_DEADLOCK FALSE
INVARIANTS
    ReaderIsRight
    WrittenIsRead
    TextIsRight
    PathIsRight
    ValueIsRight
PROPERTIES
    ImplementsArray
    AllEnd
