------------------------------ MODULE JsonWriter ------------------------------
(***************************************************************************)
(* The three writers of daemon/src/json/json_writer.cpp: FastWriter puts a *)
(* value on one line, StyledWriter and StyledStreamWriter spread it and    *)
(* write its comments too.  What write returns is a sequence of items:     *)
(* tokens as JsonReader has them, ends of line, blanks at which a line may *)
(* go on, and comments, each with the value and the place it was set for.  *)
(*                                                                         *)
(* A value is a record of its tree (the type or text at each path) and its *)
(* comments: a function from pairs of a path and a place to the kind of    *)
(* the comment.                                                            *)
(***************************************************************************)
EXTENDS Integers, Sequences, SequencesExt, FiniteSets, FiniteSetsExt

CONSTANTS RightMargin,   \* rightMargin_
          Width(_)       \* the characters of a leaf

MarginAssumption == RightMargin \in Nat

Names == <<"", "a", "b">>     \* in the order of the map
Line == <<"NL">>
Blank == <<"SP">>

\* The paths below p, in the order of size or getMemberNames.
Children(tree, p) ==
    IF tree[p] = "array"
    THEN LET n == Cardinality({q \in DOMAIN tree : Len(q) = Len(p) + 1 /\ IsPrefix(p, q)})
         IN  [i \in 1 .. n |-> Append(p, <<i - 1>>)]
    ELSE SelectSeq([i \in 1 .. Len(Names) |-> Append(p, <<"member", Names[i]>>)],
                   LAMBDA q : q \in DOMAIN tree)

IsContainer(tree, p) == tree[p] \in {"array", "object"}
Opening(tree, p) == IF tree[p] = "array" THEN <<"[">> ELSE <<"{">>
Closing(tree, p) == IF tree[p] = "array" THEN <<"]">> ELSE <<"}">>
NameOf(q) == <<Last(q)[2]>>
Joined(f(_), n) == FlattenSeq([i \in 1 .. n |-> f(i)])

-----------------------------------------------------------------------------
(* FastWriter *)

\* What stands between an element and the one before it.
Comma(i, n) == IF i > 1 THEN << <<",">> >> ELSE << >>

FastValue(tree, root) ==
    LET text[p \in DOMAIN tree] ==
          LET below == Children(tree, p)
              n == Len(below)
              child(i) == Comma(i, n)
                          \o (IF tree[p] = "object" THEN <<NameOf(below[i]), <<":">> >> ELSE << >>)
                          \o text[below[i]]
          IN  IF IsContainer(tree, p)
              THEN <<Opening(tree, p)>> \o Joined(child, n) \o <<Closing(tree, p)>>
              ELSE << <<tree[p]>> >>
    IN  text[root]

-----------------------------------------------------------------------------
(* The styled writers.  style is "styled" or "stream". *)

\* isMultineArray: the conjunction with hasCommentForValue starts from a FALSE.
HasComment(v, q) == \E c \in DOMAIN v.comments : c[1] = q

CommentsDecide(v, below) ==
    FoldLeft(LAMBDA multi, q : multi /\ HasComment(v, q), FALSE, below)

LineLength(tree, below) ==
    FoldLeft(LAMBDA n, q : n + (IF IsContainer(tree, q) THEN 2 ELSE Width(tree[q])),
             4 + ((Len(below) - 1) * 2), below)

IsMultiLine(v, p) ==
    LET below == Children(v.tree, p) IN
    \/ Len(below) * 3 >= RightMargin
    \/ \E i \in 1 .. Len(below) :
          IsContainer(v.tree, below[i]) /\ Children(v.tree, below[i]) # << >>
    \/ CommentsDecide(v, below)
    \/ LineLength(v.tree, below) >= RightMargin

\* What document_ ends with, as far as writeIndent looks at it.
Ends == {"nothing", "line", "blank", "text"}
EndOf(items) == CASE items = << >>        -> "nothing"
                  [] items # << >> /\ Last(items) = Line  -> "line"
                  [] items # << >> /\ Last(items) = Blank -> "blank"
                  [] OTHER                -> "text"

\* writeIndent, behind such an end: the StyledStreamWriter does not look.
Indent(style, end) ==
    IF style = "stream" THEN <<Line, Blank>>
    ELSE CASE end \in {"nothing", "blank"} -> << >>
           [] end = "line" -> <<Blank>>
           [] end = "text" -> <<Line, Blank>>

\* The comment of v set for p at a place; one with "//" brings its end of line.
Comment(v, p, place) ==
    IF <<p, place>> \notin DOMAIN v.comments THEN << >>
    ELSE << <<v.comments[<<p, place>>], p, place>> >>
         \o (IF v.comments[<<p, place>>] = "//" THEN <<Line>> ELSE << >>)

\* writeCommentBeforeValue
CommentBefore(v, p) ==
    IF Comment(v, p, "before") = << >> THEN << >> ELSE Comment(v, p, "before") \o <<Line>>

\* Slip: the comment starts a line.
CommentBelow(v, p) ==
    IF Comment(v, p, "same line") = << >> THEN << >>
    ELSE <<Line>> \o Comment(v, p, "same line")

\* writeCommentAfterValueOnSameLine
CommentAfter(v, p) ==
    Comment(v, p, "same line")
    \o (IF Comment(v, p, "after") = << >> THEN << >>
        ELSE <<Line>> \o Comment(v, p, "after") \o <<Line>>)

\* An array on a line: what isMultineArray collected in childValues_.
OneLine(tree, below) ==
    LET child(i) == (IF i > 1 THEN << <<",">>, Blank>> ELSE << >>) \o FastValue(tree, below[i])
    IN  << <<"[">>, Blank>> \o Joined(child, Len(below)) \o << <<"]">> >>

\* The loop ends before the comma of the last child.
CommaAfter(i, n) == IF i < n THEN << <<",">> >> ELSE << >>

\* writeValue and writeArrayValue: what is added behind an end.
StyledValue(style, v, start) ==
    LET text[p \in DOMAIN v.tree, end \in Ends] ==
          LET below == Children(v.tree, p)
              name(q) == IF v.tree[p] = "object" THEN <<NameOf(q), <<":">>, Blank>> ELSE << >>
              line(items, i) ==
                LET commented == items \o CommentBefore(v, below[i])
                    head == commented \o Indent(style, EndOf(commented)) \o name(below[i])
                IN  head \o text[below[i], EndOf(head)]
                        \o CommaAfter(i, Len(below)) \o CommentAfter(v, below[i])
              lines == FoldLeft(line, Append(Indent(style, end), Opening(v.tree, p)),
                                [i \in 1 .. Len(below) |-> i])
          IN  CASE ~IsContainer(v.tree, p) -> << <<v.tree[p]>> >>
                [] IsContainer(v.tree, p) /\ below = << >> ->
                     <<Opening(v.tree, p), Closing(v.tree, p)>>
                [] v.tree[p] = "array" /\ below # << >> /\ ~IsMultiLine(v, p) ->
                     OneLine(v.tree, below)
                [] OTHER -> lines \o Indent(style, EndOf(lines)) \o <<Closing(v.tree, p)>>
    IN  text[<< >>, start]

\* write
Written(style, v) ==
    IF style = "fast" THEN Append(FastValue(v.tree, << >>), Line)
    ELSE LET first == CommentBefore(v, << >>)
         IN  first \o StyledValue(style, v, EndOf(first)) \o CommentAfter(v, << >>) \o <<Line>>

-----------------------------------------------------------------------------
(* The texts of numbers, as sequences of characters. *)

DigitChars == <<"0", "1", "2", "3", "4", "5", "6", "7", "8", "9">>

LastDigit(n) == <<DigitChars[(n % 10) + 1]>>

\* uintToString, from the last digit to the first.
UIntText(n) ==
    LET text[k \in 0 .. n] == (IF k < 10 THEN << >> ELSE text[k \div 10]) \o LastDigit(k)
    IN  text[n]

IntText(n) == IF n < 0 THEN <<"-">> \o UIntText(-n) ELSE UIntText(n)

\* The positions of the zeroes at the end, and what the scan to the left of
\* them meets first that is no digit.
TrailFrom(t) == Max({i \in 1 .. Len(t) : t[i] # "0"} \cup {1})
Stop(t) == Max({i \in 1 .. TrailFrom(t) : t[i] \notin ToSet(DigitChars)} \cup {0})

\* Only the zeroes behind a point go, not those of an exponent.
Trims(t) == Stop(t) > 0 /\ t[Stop(t)] = "."

\* valueToString(double): of what sprintf made, the zeroes at the end but one.
DoubleText(t) ==
    IF Last(t) # "0" \/ ~Trims(t) THEN t ELSE SubSeq(t, 1, TrailFrom(t) + 1)
=============================================================================
