------------------------------- MODULE JsonPath -------------------------------
(***************************************************************************)
(* Json::Path (daemon/src/json/json_value.cpp): makePath turns a text into *)
(* the steps of a path, which resolve follows down from a Value and make   *)
(* makes.  The errors of all of these are comments in the code: they do    *)
(* nothing.  A Value is a function from the keys that lead to each Value   *)
(* below it, itself at << >>, to their types.                              *)
(***************************************************************************)
EXTENDS Integers, Sequences, SequencesExt, FiniteSets

CONSTANTS
    Arguments,   \* a1 to a5, those that are given
    Aborts,      \* what an operation on a Value of the wrong type comes to
    Nowhere      \* Value::null, where the path leads to no Value

VARIABLES
    text,       \* path
    current,    \* the position to be read next
    args,       \* args_
    root        \* the Value that the path is for

vars == <<text, current, args, root>>

Index(n) == <<n>>
Member(name) == <<"member", name>>
KindOf(key) == IF Len(key) = 1 THEN "index" ELSE "key"

Digits == <<"0", "1", "2", "3", "4", "5", "6", "7", "8", "9">>
IsDigit(c) == c \in ToSet(Digits)

-----------------------------------------------------------------------------
(* makePath *)

\* The character at i, which is the terminating zero at the end.
Char(i) == IF i <= Len(text) THEN text[i] ELSE "NUL"
AtEnd(i) == i = Len(text) + 1

\* The end of the run of characters from i on that P holds of.
RunEnd(i, P(_)) ==
    CHOOSE j \in i .. Len(text) + 1 :
        /\ \A k \in i .. j - 1 : P(text[k])
        /\ AtEnd(j) \/ ~P(text[j])

DigitsEnd(i) == RunEnd(i, IsDigit)
NumberAt(i) == FoldLeft(LAMBDA n, c : n * 10 + (CHOOSE d \in 0 .. 9 : Digits[d + 1] = c), 0,
                        SubSeq(text, i, DigitsEnd(i) - 1))

\* strchr finds the zero that ends "[." as well.
InName(c) == c \notin {"[", ".", "NUL"}
NameEnd(i) == RunEnd(i, InName)

\* addPathInArg: the first argument, if it is of the kind; none is used up.
Argument(kind) ==
    IF Arguments # << >> /\ KindOf(Arguments[1]) = kind THEN <<Arguments[1]>> ELSE << >>

Init == text \in Seq(STRING) /\ current = 1 /\ args = << >>

\* Behind the "]" that has to be there, or whatever is.
Closed(i) == IF AtEnd(i) THEN i ELSE i + 1

Bracket ==
    /\ Char(current) = "["
    /\ IF Char(current + 1) = "%"
       THEN args' = args \o Argument("index") /\ current' = Closed(current + 1)
       ELSE /\ args' = Append(args, Index(NumberAt(current + 1)))
            /\ current' = Closed(DigitsEnd(current + 1))

Percent ==
    /\ Char(current) = "%" /\ args' = args \o Argument("key") /\ current' = current + 1

Point == Char(current) = "." /\ current' = current + 1 /\ UNCHANGED args

\* At a zero in the text the name is empty, and nothing is passed.  (Bound: the
\* steps are no more than the characters, but for those that are made there.)
Name ==
    /\ ~AtEnd(current) /\ Char(current) \notin {"[", "%", "."}
    /\ Len(args) <= Len(text)
    /\ args' = Append(args, Member(SubSeq(text, current, NameEnd(current) - 1)))
    /\ current' = NameEnd(current)

Next == (Bracket \/ Percent \/ Point \/ Name) /\ UNCHANGED <<text, root>>

Spec == Init /\ [][Next]_vars /\ WF_vars(Next)

Parsed == AtEnd(current)

\* The loop stands before a zero that is part of the text.
StandsAtZero == current \in DOMAIN text /\ text[current] = "NUL"

-----------------------------------------------------------------------------
(* resolve and make *)

TypeAt(tree, node) == IF node = Nowhere THEN "null" ELSE tree[node]
IsArray(tree, node) == TypeAt(tree, node) \in {"null", "array"}
IsObject(tree, node) == TypeAt(tree, node) \in {"null", "object"}
Takes(tree, node, key) == IF KindOf(key) = "index" THEN IsArray(tree, node) ELSE IsObject(tree, node)

\* isValidIndex: there is an element at n, or behind it.
IsValidIndex(tree, node, n) ==
    /\ TypeAt(tree, node) = "array"
    /\ \E k \in DOMAIN tree :
          Len(k) = Len(node) + 1 /\ IsPrefix(node, k) /\ Last(k)[1] >= n

\* The const operator[].
ConstAt(tree, node, key) ==
    IF ~Takes(tree, node, key) THEN Aborts
    ELSE IF node # Nowhere /\ Append(node, key) \in DOMAIN tree THEN Append(node, key)
    ELSE Nowhere

Resolve(tree) ==
    LET at[i \in 0 .. Len(args)] ==
          IF i = 0 THEN << >>
          ELSE IF at[i - 1] = Aborts THEN Aborts
          ELSE ConstAt(tree, at[i - 1], args[i])
    IN  at[Len(args)]

\* Where resolve returns the default: for an index, where it is valid (the test
\* of isValidIndex is the wrong way round, json_value.cpp:1675).
IsDefault(tree, node, key) ==
    IF KindOf(key) = "index"
    THEN ~IsArray(tree, node) \/ IsValidIndex(tree, node, key[1])
    ELSE ~IsObject(tree, node) \/ ConstAt(tree, node, key) = Nowhere

\* resolve with a default: Nowhere stands for it, and for a null.
ResolveOr(tree) ==
    LET at[i \in 0 .. Len(args)] ==
          IF i = 0 THEN << >>
          ELSE IF at[i - 1] = Nowhere \/ IsDefault(tree, at[i - 1], args[i]) THEN Nowhere
          ELSE ConstAt(tree, at[i - 1], args[i])
    IN  at[Len(args)]

\* Slip: what is there is made anew.
MadeAnew(tree, node, key) ==
    LET child == Append(node, key)
        type == IF KindOf(key) = "index" THEN "array" ELSE "object"
    IN  [k \in {j \in DOMAIN tree : ~IsPrefix(child, j)} \cup {child} |->
            IF k = child THEN "null" ELSE IF k = node THEN type ELSE tree[k]]

\* operator[]: a null becomes a container, and the Value is made if need be.
MadeAt(tree, node, key) ==
    LET child == Append(node, key)
        type == IF KindOf(key) = "index" THEN "array" ELSE "object"
    IN  [k \in DOMAIN tree \cup {child} |->
            IF k = node THEN type ELSE IF k \in DOMAIN tree THEN tree[k] ELSE "null"]

\* make: the Value it leaves, or Aborts.
Made(tree) ==
    LET after[i \in 0 .. Len(args)] ==
          IF i = 0 THEN tree
          ELSE LET before == after[i - 1]
                   node == SubSeq(args, 1, i - 1)
               IN  IF before = Aborts THEN Aborts
                   ELSE IF ~Takes(before, node, args[i]) THEN Aborts
                   ELSE MadeAt(before, node, args[i])
    IN  after[Len(args)]

-----------------------------------------------------------------------------
(* What they promise *)

TypeOK ==
    /\ current \in 1 .. Len(text) + 1
    /\ \A i \in 1 .. Len(args) : KindOf(args[i]) = "index" => args[i][1] \in Nat

\* What make has made is what resolve finds, and nothing else has changed but
\* for nulls on the way, which are containers now.
MakeThenResolve ==
    Parsed /\ Made(root) # Aborts =>
        /\ Resolve(Made(root)) = args
        /\ \A k \in DOMAIN root :
              Made(root)[k] = root[k] \/ (root[k] = "null" /\ IsStrictPrefix(k, args))
        /\ \A k \in DOMAIN Made(root) \ DOMAIN root : IsPrefix(k, args)

\* A path of names leads to the default just if there is no such Value, and
\* resolve without a default says the same, where it does not abort.
NamesResolve ==
    (Parsed /\ \A i \in 1 .. Len(args) : KindOf(args[i]) = "key") =>
        /\ ResolveOr(root) = (IF args \in DOMAIN root THEN args ELSE Nowhere)
        /\ Resolve(root) \in {ResolveOr(root), Aborts}

\* Every text is read to its end, the closing bracket missing or not, but one
\* with a zero in it: unless that is passed for a closing bracket, the loop of
\* makePath stays there and makes empty steps for good.
ReadsAll == <>(Parsed \/ []StandsAtZero)
=============================================================================
