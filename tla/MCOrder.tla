-------------------------------- MODULE MCOrder --------------------------------
(* Three values to compare, and one to convert: every number there is, and   *)
(* containers of them, and of containers.  A NaN is compared by itself.       *)
EXTENDS JsonOrder

Numbers(type, ns) == {[type |-> type, n |-> n] : n \in ns}
NullLeaf == [type |-> "null", n |-> 0]
NotANumber == [type |-> "real", n |-> NaN]
Few == {NullLeaf} \cup Numbers("int", {-1, 1}) \cup Numbers("real", {-1, 2})
       \cup Numbers("string", {0, 1}) \cup Numbers("boolean", {1})
All == {NullLeaf} \cup Numbers("int", MinInt .. MaxInt) \cup Numbers("uint", 0 .. MaxUInt)
       \cup Numbers("real", 2 * MinInt - 3 .. 2 * MaxUInt + 3)
       \cup Numbers("string", {0, 1}) \cup Numbers("boolean", {0, 1}) \cup {NotANumber}

Maps(values) == UNION {[K -> values] : K \in SUBSET {0, 1}}
Made(type, values) == {[type |-> type, map |-> m] : m \in values}
Small == Made("array", Maps({NullLeaf, [type |-> "int", n |-> 1]}))
Flat == Small \cup Made("object", Maps({[type |-> "int", n |-> 1]}))
Nested == Made("array", [{0} -> Small]
                        \cup {m \in [{0, 1} -> Small \cup {NullLeaf}] : m[0] = NullLeaf /\ m[1] # NullLeaf})

VARIABLES mode, x, y, z

\* The comparisons, worked out from the leaves up.
LeafLess == [p \in Few \X Few |-> Less(<< >>, p[1], p[2])]
FlatLess == [p \in (Few \cup Flat) \X (Few \cup Flat) |-> Less(LeafLess, p[1], p[2])]
LeafEqual == [p \in Few \X Few |-> Equal(<< >>, p[1], p[2])]
FlatEqual == [p \in (Few \cup Flat) \X (Few \cup Flat) |-> Equal(LeafEqual, p[1], p[2])]
Lt(a, b) == Less(FlatLess, a, b)
Eq(a, b) == Equal(FlatEqual, a, b)

Init ==
    \/ /\ mode = "order" /\ x \in Few \cup Flat \cup Nested
       /\ y \in Few \cup Flat \cup Nested /\ z \in Small \cup Nested
    \/ mode = "nan" /\ x = NotANumber /\ y \in Few \cup {NotANumber} /\ z = y
    \/ mode = "convert" /\ x \in All \cup Flat /\ y = x /\ z = x

\* The order of values is one: of any two exactly one is less, or they are
\* equal, and what is less than a lesser one is less (operator<, operator==).
\* A NaN, which no text makes, has no place among the reals.
TotalOrder ==
    /\ mode = "order" =>
        /\ Eq(x, y) <=> x = y
        /\ IF x = y THEN ~Lt(x, y) ELSE Lt(x, y) # Lt(y, x)
        /\ Lt(x, y) /\ Lt(y, z) => Lt(x, z)
    /\ mode = "nan" =>
        /\ ~Eq(x, y)
        /\ IF y.type = "real" THEN ~Lt(x, y) /\ ~Lt(y, x) ELSE Lt(x, y) <=> ~Lt(y, x)

\* What isConvertibleTo allows is done: it does not throw, and what comes out
\* is the number that was held, cut if it has to be; its truth; or a text that
\* is not empty.  Twice it promises too much: asInt throws of maxInt, held as a
\* uint (json_value.cpp:727), and asString leaves a number out (696).
ConvertsAsPromised ==
    mode = "convert" =>
        /\ IsConvertibleTo(x, "uint") /\ Number(x) =>
               AsUInt(x) # Throws /\ Twice(x) - 2 * AsUInt(x) \in {0, 1}
        /\ IsConvertibleTo(x, "real") /\ Number(x) => AsDouble(x) = Twice(x)
        /\ IsConvertibleTo(x, "int") /\ Number(x) /\ x # [type |-> "uint", n |-> MaxInt] =>
               AsInt(x) # Throws /\ Twice(x) - 2 * AsInt(x) \in {-1, 0, 1}
        /\ IsConvertibleTo(x, "boolean") /\ Number(x) => (AsBool(x) <=> Twice(x) # 0)
        /\ IsConvertibleTo(x, "string") /\ AsString(x) = << >> =>
               IsConvertibleTo(x, "null") \/ x.type \in {"int", "uint", "real"}
        /\ IsConvertibleTo(x, "null") => ~AsBool(x)

\* What throws is out of the range, or no number: reading a number back as the
\* type it was read with never does.
ThrowsOutOfRange ==
    mode = "convert" /\ Number(x) =>
        /\ AsInt(x) = Throws => Twice(x) \notin 2 * MinInt .. 2 * (MaxInt - 1)
        /\ AsUInt(x) = Throws => Twice(x) \notin 0 .. 2 * MaxUInt
=============================================================================
