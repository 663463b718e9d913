------------------------------- MODULE JsonDocs -------------------------------
(* The documents that the Reader is given to read: texts of values, with one  *)
(* token wrong or none, with comments, and as the writers write them.  A      *)
(* value here is the tokens of its text and the tree of what stands at each   *)
(* path.                                                                      *)
EXTENDS Integers, Sequences, SequencesExt, FiniteSets, FiniteSetsExt

Writer == INSTANCE JsonWriter WITH
    RightMargin <- 12, Width <- LAMBDA leaf : IF leaf = "b" THEN 7 ELSE 1

Leaf(s) == [text |-> <<s>>, tree |-> [p \in {<< >>} |-> s]]

\* The tree of a container: the last child with a key counts.
Under(key, tree) == [p \in {<<key>> \o q : q \in DOMAIN tree} |-> tree[Tail(p)]]
Without(key, tree) == [p \in {q \in DOMAIN tree : ~IsPrefix(<<key>>, q)} |-> tree[p]]
Below(type, children) ==
    FoldLeft(LAMBDA tree, child : Under(child.key, child.value.tree) @@ Without(child.key, tree),
             << >> :> type, children)

Array(vs) ==
    [text |-> <<"[">> \o FlattenSeq([i \in 1 .. Len(vs) |->
                  (IF i > 1 THEN <<",">> ELSE << >>) \o vs[i].text]) \o <<"]">>,
     tree |-> Below("array", [i \in 1 .. Len(vs) |-> [key |-> <<i - 1>>, value |-> vs[i]]])]

Object(ms) ==
    [text |-> <<"{">> \o FlattenSeq([i \in 1 .. Len(ms) |->
                  (IF i > 1 THEN <<",">> ELSE << >>) \o <<ms[i][1], ":">> \o ms[i][2].text])
                  \o <<"}">>,
     tree |-> Below("object", [i \in 1 .. Len(ms) |->
                                 [key |-> <<"member", ms[i][1]>>, value |-> ms[i][2]]])]

UpTo(n, S) == UNION {[1 .. k -> S] : k \in 0 .. n}

-----------------------------------------------------------------------------
(* Texts of values *)

One == Leaf("1")
Names == {"a", ""}
Leaves == {One, Leaf("a")}
Flat == Leaves \cup {Array(vs) : vs \in UpTo(2, {One})}
               \cup {Object(ms) : ms \in UpTo(1, {"a"} \X Leaves)}
Few == {One, Array(<< >>), Object(<< >>)}
Values == {Leaf("null")} \cup Flat \cup {Array(vs) : vs \in UpTo(1, Flat) \cup [1 .. 2 -> Few]}
               \cup {Object(ms) : ms \in UpTo(1, Names \X Flat) \cup [1 .. 2 -> Names \X Few]}

\* The grammar, for what is no text of these values.
RECURSIVE IsValue(_), IsList(_, _)
Inner(d) == SubSeq(d, 2, Len(d) - 1)
IsMember(d) == Len(d) > 2 /\ d[1] \in {"a", "", "b"} /\ d[2] = ":" /\ IsValue(SubSeq(d, 3, Len(d)))
IsList(d, member) ==
    \/ IF member THEN IsMember(d) ELSE IsValue(d)
    \/ \E i \in 2 .. Len(d) - 1 :
          /\ d[i] = ","
          /\ LET one == SubSeq(d, 1, i - 1) IN IF member THEN IsMember(one) ELSE IsValue(one)
          /\ IsList(SubSeq(d, i + 1, Len(d)), member)
IsValue(d) ==
    \/ Len(d) = 1 /\ d[1] \in {"a", "", "b", "1", "null"}
    \/ /\ Len(d) > 1 /\ <<d[1], d[Len(d)]>> \in {<<"{", "}">>, <<"[", "]">>}
       /\ Len(d) = 2 \/ IsList(Inner(d), d[1] = "{")

-----------------------------------------------------------------------------
(* Documents with up to two comments *)

Marks == {"/**/", "//", "\n/**/", "/*\n*/"}
Bases == {<<"1">>, <<"[", "]">>, <<"[", "1", ",", "1", "]">>, <<"{", "}">>,
          <<"{", "a", ":", "1", "}">>, <<"[", "[", "1", "]", "]">>,
          <<"{", "a", ":", "1", ",", "b", ":", "1", "}">>}
Marked(D) == UNION {{InsertAt(d, i, m) : i \in 1 .. Len(d) + 1, m \in Marks} : d \in D}
Commented == LET one == Marked(Bases) IN Bases \cup one \cup Marked(one)

-----------------------------------------------------------------------------
(* What the writers write *)

Uncommented(v) == [tree |-> v.tree, comments |-> [c \in {} |-> ""]]

Plain == {One, Leaf("a"), Leaf("b")} \cup {Array(vs) : vs \in UpTo(2, {One, Leaf("b")})}
         \cup {Object(ms) : ms \in UpTo(1, Names \X {One})}
Nested == Plain \cup {Array(vs) : vs \in UpTo(2, Plain)} \cup {Array(<<v, v, v, v>>) : v \in Plain}
          \cup {Object(<< <<"a", v>>, <<"", w>> >>) : v, w \in Plain}
          \cup {Object(<< <<"b", Array(<<v>>)>> >>) : v \in Plain}

\* Values with up to two comments.
Spots(v) == {c \in (DOMAIN v.tree) \X {"before", "same line", "after"} :
               c[2] = "after" => c[1] = << >>}
Commentings(v) == UNION {[S -> {"/**/"}] \cup
                      {[c \in S |-> IF c[2] = "same line" THEN "//" ELSE "/**/"]} :
                      S \in UNION {kSubset(k, Spots(v)) : k \in 0 .. 2}}
Noted == UNION {{[tree |-> v.tree, comments |-> f] : f \in Commentings(v)} :
                  v \in {One, Array(<<One, One>>), Array(<<One, Array(<<One>>)>>),
                         Object(<< <<"a", One>>, <<"b", One>> >>),
                         Object(<< <<"a", Array(<<One, Object(<< <<"a", One>> >>)>>)>>,
                                   <<"b", Object(<< >>)>> >>)}}

\* Whether there is an end of line between the last value and what stands at i.
EndsValue(items, k) == items[k][1] \notin {"{", "[", ",", ":", "/**/", "//", "NL", "SP"}
                       /\ items[k + 1] # <<":">>
FurtherDown(items, i) ==
    \E j \in 1 .. i - 1 : items[j] = Writer!Line /\ \A k \in j .. i - 1 : ~EndsValue(items, k)

\* The tokens that the Reader finds in what was written.
TokensOf(items) ==
    LET token(i) == IF items[i] \in {Writer!Line, Writer!Blank} THEN << >>
                    ELSE IF items[i][1] = "/**/" /\ FurtherDown(items, i)
                    THEN <<"\n/**/">> ELSE <<items[i][1]>>
    IN  Append(Writer!Joined(token, Len(items)), "end")

Written(style, v) ==
    LET items == Writer!Written(style, v)
    IN  [kind |-> "written", value |-> v, items |-> items, tokens |-> TokensOf(items)]

-----------------------------------------------------------------------------
Features(allowComments, strictRoot) ==
    [allowComments |-> allowComments, strictRoot |-> strictRoot, collect |-> TRUE]

Calls ==
    {[document |-> [kind |-> "json"], features |-> Features(TRUE, TRUE)]}
    \cup {[document |-> [kind |-> "comments"], features |-> f] :
             f \in {Features(TRUE, FALSE), Features(FALSE, TRUE)}}
    \cup {[document |-> d, features |-> Features(TRUE, FALSE)] :
             d \in {Written(s, Uncommented(v)) : s \in {"fast", "styled", "stream"}, v \in Nested}
                   \cup {Written(s, v) : s \in {"styled", "stream"}, v \in Noted}}

Docs == {Append(v.text, "end") : v \in Values}
Begun == UNION {{SubSeq(d, 1, i) : i \in 0 .. Len(d)} : d \in Docs}
BegunCommented == UNION {{SubSeq(Append(d, "end"), 1, i) : i \in 0 .. Len(d) + 1} : d \in Commented}
Alphabet == {"{", "}", "[", "]", ",", ":", "a", "", "1", "null", "?", "!", "end"}

\* One token of a text may be wrong, and two more follow it before the end.
NextTokens(document, doc) ==
    CASE document.kind = "written" -> {document.tokens[Len(doc) + 1]}
      [] document.kind = "comments" ->
           {t \in Alphabet \cup {"b"} \cup Marks : Append(doc, t) \in BegunCommented}
      [] OTHER ->
           IF doc \in Begun THEN Alphabet
           ELSE IF \E k \in 1 .. 2 : k <= Len(doc) /\ SubSeq(doc, 1, Len(doc) - k) \in Begun
           THEN {"}", "]", "1", "end"}
           ELSE {"end"}
=============================================================================
