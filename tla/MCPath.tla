-------------------------------- MODULE MCPath --------------------------------
(* Every text of up to five characters, and what each is for a few Values.    *)
EXTENDS Integers, Sequences, SequencesExt, FiniteSets, TLC

CONSTANTS Aborts, Nowhere

Chars == {".", "[", "]", "%", "a", "1"}
Arguments == << <<"member", <<"b">> >> >>
UpTo(n, S) == UNION {[1 .. k -> S] : k \in 0 .. n}

VARIABLES text, current, args, root
INSTANCE JsonPath

X == << >> :> "x"
InArray(n, t) == (<< >> :> "array") @@ [k \in {<<<<n>>>> \o q : q \in DOMAIN t} |-> t[Tail(k)]]
InObject(name, t) == (<< >> :> "object")
                     @@ [k \in {<<Member(name)>> \o q : q \in DOMAIN t} |-> t[Tail(k)]]
Roots == {X, << >> :> "null", InArray(1, X), InObject(<<"a">>, X), InArray(1, InObject(<<"a">>, X)),
          InObject(<<"b">>, InArray(2, X))}

InObjects == InObject(<<"a">>, InObject(<<"a">>, X))

MCInit ==
    /\ current = 1 /\ args = << >>
    /\ \/ text \in UpTo(4, Chars) /\ root \in Roots
       \/ text \in UpTo(3, Chars \cup {"NUL"}) /\ root = X
       \/ text \in [1 .. 5 -> Chars] /\ root = InObjects

\* The texts that value.h gives for a path, and their steps.
Text(key) == IF KindOf(key) = "index" THEN <<"[">> \o [i \in 1 .. 1 |-> Digits[key[1] + 1]] \o <<"]">>
             ELSE <<".">> \o key[2]
Steps == UpTo(2, {Index(1), Member(<<"a">>), Member(<<"a", "1">>)})

\* A path written as value.h has it is read as its steps: names end where the
\* next point or bracket is, and indices at theirs (makePath).
ReadsSteps ==
    Parsed => \A keys \in Steps :
        text = FlattenSeq([i \in 1 .. Len(keys) |-> Text(keys[i])]) => args = keys
=============================================================================
