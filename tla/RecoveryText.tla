----------------------------- MODULE RecoveryText -----------------------------
(***************************************************************************)
(* The two texts of librecovery/librecovery.c: the path that goes into the *)
(* command (convertExternalStoragePath) and the file last_install that     *)
(* comes back (getFotaUpdateStatus).  A path is a sequence of characters;  *)
(* the state is one that grows, with what else may be in memory.           *)
(***************************************************************************)
EXTENDS Integers, Sequences, SequencesExt

CONSTANTS
    Chars,         \* the characters of a path
    PathMax,       \* PATH_MAX, the terminator included
    External,      \* $EXTERNAL_STORAGE
    RecoveryExternal  \* RECOVERY_EXTERNAL_STORAGE

TextAssumption ==
    /\ PathMax \in Nat
    /\ External \in Seq(Chars) /\ RecoveryExternal \in Seq(Chars)
    /\ Chars \cap {"\n", "0", "1", "NUL"} = {}

VARIABLES
    path,      \* an update package, or what recovery wrote of one
    stale      \* what lies in lastInstallData behind what was read

Init == path = << >> /\ stale \in Chars \cup {"\n", "0", "1", "NUL"}

Grow ==
    /\ Len(path) < PathMax - 1
    /\ \E c \in Chars : path' = Append(path, c)
    /\ UNCHANGED stale

Spec == Init /\ [][Grow]_<<path, stale>>

-----------------------------------------------------------------------------
(* convertExternalStoragePath *)

OnExternal(src) == IsPrefix(External, src)

Relative(src) == SubSeq(src, Len(External) + 1, Len(src))

Converted(src) == IF OnExternal(src) THEN RecoveryExternal \o Relative(src) ELSE src

-----------------------------------------------------------------------------
(* getFotaUpdateStatus *)

BufferSize == PathMax + 3    \* kLastInstallMaxLength, of lastInstallData

\* safeRead: one less than the buffer holds, at most.
Taken(file) == IF Len(file) < BufferSize THEN file ELSE SubSeq(file, 1, BufferSize - 1)

\* The terminator is written at read + 1, which may lie behind the buffer.
Overruns(read) == read + 1 >= BufferSize

\* What comes of that is anything.
Undefined == [path |-> << >>, result |-> "undefined"]

\* The string that a terminator at read + 1 makes of the buffer.
CString(s) ==
    LET all == Append(s, stale) IN
    IF stale = "NUL" THEN s ELSE all

LineEnds(s) == {i \in 1 .. Len(s) : s[i] = "\n"}
FirstEnd(s) == IF LineEnds(s) = {} THEN Len(s) + 1
               ELSE CHOOSE i \in LineEnds(s) : \A j \in LineEnds(s) : i <= j

\* strtok_r(s, "\n"): the first line that is not empty, and what follows it.
Line(s) ==
    LET starts == {i \in 1 .. Len(s) : s[i] # "\n"}
        from == CHOOSE i \in starts : \A j \in starts : i <= j
        t == SubSeq(s, from, Len(s))
    IN  IF starts = {} THEN [token |-> << >>, rest |-> << >>]
        ELSE [token |-> SubSeq(t, 1, FirstEnd(t) - 1),
              rest |-> SubSeq(t, FirstEnd(t) + 1, Len(t))]

\* Slip: room for the two lines' ends is taken off, but not for a terminator.
RoomShort(read) == read - 3

\* The size that strlcpy is given; a negative one is very large.
Room(read) == read - 2

Copy(s, size) ==
    IF size < 0 \/ Len(s) < size THEN s ELSE SubSeq(s, 1, size - 1)

Parsed(data) ==
    LET first == Line(CString(data))
        second == Line(first.rest)
        copied == Copy(first.token, Room(Len(data)))
    IN  [path |-> IF Room(Len(data)) = 0 THEN << >> ELSE copied,
         result |-> IF second.token = << >> THEN "unknown"
                    ELSE IF second.token[1] = "1" THEN "success" ELSE "fail"]

StatusOf(file) ==
    IF file = << >> THEN [path |-> << >>, result |-> "unknown"]
    ELSE IF Overruns(Len(Taken(file))) THEN Undefined
    ELSE Parsed(Taken(file))

-----------------------------------------------------------------------------

ResultLine(r) == IF r = "success" THEN <<"1", "\n">> ELSE <<"0", "\n">>

\* A whole file of the format, "UPDATE_PATH\nRESULT\n" (librecovery.c:209), is
\* read for what it says, whatever was in the buffer before: but for that of a
\* path as long as status->updatePath can hold.  It fills the buffer up to the
\* place that was kept for the terminator, which then is written behind it.
WholeFileRead ==
    path # << >> =>
        \A r \in {"fail", "success"} :
            StatusOf(path \o <<"\n">> \o ResultLine(r)) =
                IF Len(path) < PathMax - 1 THEN [path |-> path, result |-> r] ELSE Undefined
================================================================================
