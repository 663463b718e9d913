----------------------------- MODULE StringHelpers -----------------------------
(***************************************************************************)
(* The string helpers of daemon/src/utils/utils.cpp and the text file      *)
(* loops of daemon/src/fs (fs_ReadFile, MD5::updateFile), on texts that    *)
(* grow by one character.  A position counts from one; 0 is string::npos.  *)
(***************************************************************************)
EXTENDS Integers, Sequences, SequencesExt, FiniteSetsExt

CONSTANTS
    Chars,      \* characters, with " ", "/", "\n" and those of Prefix
    Prefix,     \* what u_getValueFromProcFile looks for
    Default,    \* its default value
    Throws,     \* out_of_range, which is no text
    MaxLength   \* bound on the text

Space == " "

StringAssumption ==
    /\ {Space, "/", "\n"} \subseteq Chars
    /\ Prefix \in Seq(Chars \ {"\n"}) /\ Prefix # << >>
    /\ MaxLength \in Nat
    /\ Throws \notin Seq(Chars) /\ Throws # Default

VARIABLE text

Init == text = << >>

Grow ==
    /\ Len(text) < MaxLength
    /\ \E c \in Chars : text' = Append(text, c)

Spec == Init /\ [][Grow]_text

-----------------------------------------------------------------------------
(* The library's strings *)

Positions(s, Test(_)) == {i \in 1 .. Len(s) : Test(s[i])}

\* s.substr(from - 1, n)
Substr(s, from, n) ==
    IF from > Len(s) + 1 THEN Throws
    ELSE SubSeq(s, from, IF from + n - 1 < Len(s) THEN from + n - 1 ELSE Len(s))

FindIn(s, pattern) ==
    LET at == {i \in 1 .. Len(s) - Len(pattern) + 1 :
                 SubSeq(s, i, i + Len(pattern) - 1) = pattern}
    IN  IF at = {} THEN 0 ELSE Min(at)

\* getline until it fails: the text after the last line's end counts only if
\* there is some.
Getlines(s) ==
    LET From[i \in 1 .. Len(s) + 1] ==
          LET rest == SubSeq(s, i, Len(s))
              end == FindIn(rest, <<"\n">>)
          IN  IF rest = << >> THEN << >>
              ELSE IF end = 0 THEN <<rest>>
              ELSE <<SubSeq(rest, 1, end - 1)>> \o From[i + end]
    IN  From[1]

-----------------------------------------------------------------------------
(* utils.cpp *)

\* u_trimSpace.  The length it takes is counted from the start of content.
TrimSpace(s) ==
    LET solid == Positions(s, LAMBDA c : c # Space) IN
    IF solid = {} THEN Throws ELSE Substr(s, Min(solid), Max(solid))

\* u_trimUrlGetName
UrlName(s) ==
    LET slashes == Positions(s, LAMBDA c : c = "/") IN
    Substr(s, IF slashes = {} THEN 1 ELSE Max(slashes) + 1, Len(s))

\* u_getValueFromProcFile, called with the length of the prefix and one more.
\* Each line that has the prefix replaces the value, or throws.
WithPrefix(lines) == {i \in 1 .. Len(lines) : FindIn(lines[i], Prefix) # 0}
Value(line) == Substr(line, FindIn(line, Prefix) + Len(Prefix) + 1, Len(line))

ProcValue(s) ==
    LET lines == Getlines(s)
        found == WithPrefix(lines)
        last == Value(lines[Max(found)])
    IN  IF found = {} THEN Default
        ELSE IF \E i \in found : Value(lines[i]) = Throws THEN Throws
        ELSE IF last = << >> THEN Default ELSE last

\* `skip`
Skip == 1

\* u_split, for a single delimiter.
Split(s, match) ==
    LET From[start \in 1 .. Len(s) + 1] ==
          LET rest == SubSeq(s, start, Len(s))
              end == IF Skip = 0 THEN 0 ELSE FindIn(rest, <<match>>)
              token == IF end = 0 THEN rest ELSE SubSeq(rest, 1, end - 1)
              kept == IF token = << >> THEN << >> ELSE <<token>>
          IN  IF end = 0 THEN kept ELSE kept \o From[start + end - 1 + Skip]
    IN  From[1]

\* fs_ReadFile: getline is tried until the end of the file has been seen, and
\* every turn writes its line, an empty one after a final line's end too.
ReadFile(s) ==
    LET ended == s # << >> /\ Last(s) = "\n"
        lines == IF s = << >> \/ ended THEN Append(Getlines(s), << >>) ELSE Getlines(s)
    IN  FlattenSeq([i \in 1 .. Len(lines) |-> Append(lines[i], "\n")])

-----------------------------------------------------------------------------

\* The name of the package is what is behind the last slash of the URL, so that
\* it names no directory below the one that is put before it.  It may be empty,
\* and nothing refuses "..".
UrlNameIsLast ==
    LET name == UrlName(text) IN
    /\ name # Throws /\ \A i \in 1 .. Len(name) : name[i] # "/"
    /\ IsSuffix(name, text)
    /\ (name = text \/ text[Len(text) - Len(name)] = "/")

\* Trimming never cuts into the text: what is left is everything from the first
\* to the last character that is no space, and at most as many spaces behind it
\* as were in front.  Only a text without such a character throws.
TrimKeepsText ==
    LET solid == {i \in 1 .. Len(text) : text[i] # Space}
        core == SubSeq(text, Min(solid), Max(solid))
    IN  IF solid = {} THEN TrimSpace(text) = Throws
        ELSE \E n \in 0 .. Min(solid) - 1 : TrimSpace(text) = core \o [i \in 1 .. n |-> Space]

\* The tokens are the parts between the delimiters, in order: put together
\* they are the text without its delimiters, and none is empty.
SplitIsComplete ==
    LET tokens == Split(text, "/") IN
    /\ FlattenSeq(tokens) = FlattenSeq([i \in 1 .. Len(text) |->
                               IF text[i] = "/" THEN << >> ELSE <<text[i]>>])
    /\ \A i \in 1 .. Len(tokens) : tokens[i] # << >> /\ "/" \notin ToSet(tokens[i])

\* What is read of a proc file is what the last line with the prefix says
\* behind the prefix and one more character.  The only other outcomes are the
\* default and the exception, for a line that ends with the prefix.
LastLineCounts ==
    LET lines == Getlines(text)
        found == WithPrefix(lines)
        last == lines[Max(found)]
    IN  IF ProcValue(text) = Throws THEN \E i \in found : IsSuffix(Prefix, lines[i])
        ELSE \/ /\ ProcValue(text) = Default
                /\ found = {} \/ Len(last) = FindIn(last, Prefix) + Len(Prefix)
             \/ \E n \in 0 .. Len(last), c \in Chars :
                   last = SubSeq(last, 1, n) \o Prefix \o <<c>> \o ProcValue(text)

\* fs_ReadFile gives a file's text back with one more line's end, whether it
\* ended with one or not: task_info.txt parses to what was written.
ReadFileKeepsText == ReadFile(text) = Append(text, "\n")
================================================================================
