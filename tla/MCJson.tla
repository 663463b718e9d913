-------------------------------- MODULE MCJson --------------------------------
(* The JSON library, in the parts that can be followed one by one: documents  *)
(* that are read, those of the writers among them; the characters of tokens;  *)
(* paths; and the parts of JsonValues.  They share no state.  A behaviour is  *)
(* about one of them; the others stay in their initial state.                 *)
EXTENDS JsonDocs, JsonValues

CONSTANT aborts   \* what a path that is refused gives

VARIABLES
    document, features, doc, pc, frames, nodes, tree, attached, before, last, newline,
    errors, success,
    text, current, tokens, meant, args, root

reader == <<document, features, doc, pc, frames, nodes, tree, attached, before, last,
            newline, errors, success>>
texts == <<text, current, tokens, meant, args, root>>
vars == <<part, reader, texts, values>>

Read == INSTANCE JsonReader

Text == INSTANCE MCJsonText WITH MaxInt <- 31

Path == INSTANCE MCPath WITH Aborts <- aborts

ASSUME JsonAssumption ==
    /\ Read!CallsAssumption /\ Writer!MarginAssumption /\ Text!WidthAssumption

-----------------------------------------------------------------------------
Init ==
    /\ part \in {"read", "text", "path", "container", "loop", "order", "owner"}
    /\ IF part = "read" THEN Read!Init ELSE Read!Fresh /\ document = "none" /\ features = "none"
    /\ CASE part = "text" -> Text!MCInit /\ args = << >> /\ root = << >>
         [] part = "path" -> Path!MCInit /\ tokens = << >> /\ meant = << >>
         [] OTHER -> /\ text = << >> /\ current = 0 /\ tokens = << >> /\ meant = << >>
                     /\ args = << >> /\ root = << >>
    /\ ValuesInit

\* A step of one part.
Reads(A) == part = "read" /\ A /\ UNCHANGED <<part, texts, values>>
Tokens(A) == part = "text" /\ A /\ UNCHANGED <<part, reader, meant, args, root, values>>
Paths(A) == part = "path" /\ A /\ UNCHANGED <<part, reader, tokens, meant, values>>

NextRead == Reads(Read!Next)
NextText == Tokens(Text!ReadToken)
NextPath == Paths(Path!Next)
ValuesStep == NextValues /\ UNCHANGED <<reader, texts>>

Next == NextRead \/ NextText \/ NextPath \/ ValuesStep

\* A call goes on until it returns.
Fairness ==
    /\ WF_vars(Reads(Read!Next)) /\ WF_vars(Paths(Path!Next))
    /\ WF_vars(Loops(Loop!Next) /\ UNCHANGED <<reader, texts>>)

Spec == Init /\ [][Next]_vars /\ Fairness

-----------------------------------------------------------------------------
(* What is read *)

\* A document that is the text of a value is read as that value, a name given
\* twice as its second value; a root that is a string or a number is refused
\* where the features ask for a container.
AcceptsJson ==
    Read!Done /\ document.kind = "json" =>
        \A v \in Values : Append(v.text, "end") = doc =>
            /\ tree = v.tree
            /\ success = (features.strictRoot => v.tree[<< >>] \in {"array", "object", "null"})

\* What is read without an array and without an empty name is the text of a
\* value, with whatever stands behind it: a "," too many or too few, a name
\* without its value, an object without its end is an error (readObject).
ObjectsAreStrict ==
    (Read!Done /\ document.kind = "json" /\ success /\ ToSet(doc) \cap {"[", "", "!"} = {}) =>
        \E i \in 1 .. Len(doc) : IsValue(SubSeq(doc, 1, i))

\* Reader::parse, over broken documents and whole ones: true only of what has
\* no error reported, the value that the text stands for, and no pointer of
\* nodes_ or lastValue_ that has lost its Value.
ReaderIsRight ==
    part = "read" =>
        /\ Read!TypeOK /\ Read!ErrorsReported /\ Read!PointersLive
        /\ AcceptsJson /\ ObjectsAreStrict

\* What any of the writers makes of a value is read back as that value, the
\* order of its members, its line breaks and its comments whatever they are.
RoundTrip == Read!Done => success /\ tree = document.value.tree

In(c) == {i \in DOMAIN document.items :
            Len(document.items[i]) = 3 /\ <<document.items[i][2], document.items[i][3]>> = c}

\* The elements of arrays on one line: their comments are not written.
OnOneLine(p) ==
    /\ p # << >> /\ document.value.tree[Front(p)] = "array"
    /\ ~Writer!IsMultiLine(document.value, Front(p))

\* Every other comment is written once.
CommentsWritten ==
    \A c \in DOMAIN document.value.comments :
        Cardinality(In(c)) = IF OnOneLine(c[1]) THEN 0 ELSE 1

\* A comment behind a value, on its line, is read back at that value: over the
\* brackets of its elements and the comma that comes first.
SameLineReadsBack ==
    Read!Done => \A c \in DOMAIN document.value.comments :
        (DOMAIN document.value.comments = {c} /\ c[2] = "same line" /\ ~OnOneLine(c[1])) =>
            {<<a[1], a[2]>> : a \in attached} = {c}

\* A value goes through a writer and the Reader as it is, and a comment ends up
\* once, at a value that stood where the comment did.
WrittenIsRead ==
    part = "read" =>
        /\ Read!CommentsOnce /\ Read!PlacedByLine
        /\ document.kind = "written" => RoundTrip /\ CommentsWritten /\ SameLineReadsBack

\* Tokens tile a text however it is broken; strings, escaped code points and
\* numbers mean what was written, at the limits of their types too.
TextIsRight ==
    part = "text" =>
        /\ Text!TypeOK /\ Text!TokensTile /\ Text!TokensClosed
        /\ Text!StringsReadBack /\ Text!CodePointsReadBack
        /\ Text!NumbersDoNotWrap /\ Text!IntegersReadBack /\ Text!DoublesReadBack

\* A path is read as its steps, and what make makes at it resolve finds.
PathIsRight ==
    part = "path" =>
        Path!TypeOK /\ Path!ReadsSteps /\ Path!MakeThenResolve /\ Path!NamesResolve

\* Reading a document or a path and looping over a Value come to an end: no loop
\* waits for a bracket that is not there (recoverFromError, readArray, makePath).
\* Only a path with a zero in it may not: makePath stays before that zero.
AllEnd ==
    /\ (part = "read") ~> Read!Done
    /\ (part = "path") => Path!ReadsAll
    /\ (part = "loop") ~> (loop # "loop")
=============================================================================
