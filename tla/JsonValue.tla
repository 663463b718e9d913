------------------------------- MODULE JsonValue -------------------------------
(***************************************************************************)
(* Json::Value as a container (daemon/src/json/json_value.cpp, as built:   *)
(* without JSON_VALUE_USE_INTERNAL_MAP).  An array and an object are both  *)
(* a map: from Ints, as an index is stored, or from names.  An element     *)
(* that was not asked for is not in the map; size is the highest index     *)
(* plus one.  What assert refuses ends the process.                        *)
(***************************************************************************)
EXTENDS Integers, FiniteSets, Sequences

CONSTANTS Elements,   \* the values stored, Null among them
          Null,
          Half,       \* 2^31: a UInt from there on is a negative Int
          Indices,    \* the UInts that callers pass
          Names,      \* member names, as numbers in the order of strcmp
          MaxSize     \* bound: the size up to which callers append

ElementsAssumption == Null \in Elements
HalfAssumption == Half \in Nat \ {0}
IndicesAssumption == Indices \subseteq 0 .. 2 * Half - 1
MaxSizeAssumption == MaxSize \in 0 .. Half - 1
NamesAssumption == Names \subseteq Int

VARIABLES type,      \* type_, the scalars in one
          map,       \* *value_.map_
          outcome    \* "ok", or the assertion that ended the process

vars == <<type, map, outcome>>

Types == {"null", "array", "object", "scalar"}
EmptyMap == [k \in {} |-> Null]

Init == type = "null" /\ map = EmptyMap /\ outcome = "ok"

-----------------------------------------------------------------------------
(* Reading *)

\* CZString( int index )
Key(index) == IF index < Half THEN index ELSE index - 2 * Half

Stored(k) == k \in DOMAIN map
Highest == CHOOSE k \in DOMAIN map : \A j \in DOMAIN map : j <= k

Size ==
    CASE type = "array" /\ map # EmptyMap -> (Highest + 1) % (2 * Half)
      [] type = "object" -> Cardinality(DOMAIN map)
      [] OTHER -> 0

\* The const operator[], of an index or a name: a null if there is none.
ConstAt(k) == IF Stored(k) THEN map[k] ELSE Null

Get(k, default) == IF Stored(k) THEN map[k] ELSE default
IsValidIndex(index) == index < Size

-----------------------------------------------------------------------------
(* Operations *)

Running == outcome = "ok"

Refused(assertion) == outcome' = assertion /\ UNCHANGED <<type, map>>

\* An operation on arrays, or on objects, makes a null into one of them.
Uses(t) == type \in {"null", t} /\ type' = t /\ UNCHANGED outcome

\* The entry is made if there is none.
With(k) == IF Stored(k) THEN map
           ELSE [j \in DOMAIN map \cup {k} |-> IF j = k THEN Null ELSE map[j]]

WithSet(k, x) == [j \in DOMAIN map \cup {k} |-> IF j = k THEN x ELSE map[j]]
Only(keys) == [j \in keys |-> map[j]]

At(i) == Uses("array") /\ map' = With(Key(i))
AtSet(i, x) == Uses("array") /\ map' = WithSet(Key(i), x)
AppendElement(x) == Size < MaxSize /\ AtSet(Size, x)

Shrunk(n) == DOMAIN map \ {Key(i) : i \in n .. Size - 1}
SizeAfter(keys) ==
    IF keys = {} THEN 0 ELSE ((CHOOSE k \in keys : \A j \in keys : j <= k) + 1) % (2 * Half)

\* Slip: the elements at the end are only set to null.
ShrinkNulls(n) ==
    /\ Uses("array")
    /\ map' = [j \in DOMAIN map |-> IF j \in Shrunk(n) THEN map[j] ELSE Null]

\* resize to less.  The assertion counts on an element at the new end: where
\* there is none it ends the process, and a build without assertions goes on
\* with what size() makes of the rest.
Shrink(n) ==
    \/ Uses("array") /\ map' = Only(Shrunk(n))
    \/ /\ type \in {"null", "array"} /\ SizeAfter(Shrunk(n)) # n
       /\ Refused("size() == newSize")

Resize(n) ==
    \/ n = 0 /\ Uses("array") /\ map' = EmptyMap
    \/ n > Size /\ At(n - 1)
    \/ n # 0 /\ n <= Size /\ Shrink(n)

Member(name) == Uses("object") /\ map' = With(name)
MemberSet(name, x) == Uses("object") /\ map' = WithSet(name, x)

\* A null has no members, and stays one.
RemoveMember(name) ==
    /\ type \in {"null", "object"}
    /\ map' = Only(DOMAIN map \ {name}) /\ UNCHANGED <<type, outcome>>

Clear == type # "scalar" /\ map' = EmptyMap /\ UNCHANGED <<type, outcome>>

\* JSON_ASSERT on the type, of each of these.
WrongType ==
    /\ \/ type \notin {"null", "array"} \/ type \notin {"null", "object"}
    /\ Refused("type_")

\* operator=, with a new Value.
Assign(t) == type' = t /\ map' = EmptyMap /\ UNCHANGED outcome

Next ==
    /\ Running
    /\ \/ \E i \in Indices : At(i) \/ Resize(i) \/ \E x \in Elements : AtSet(i, x)
       \/ \E x \in Elements : AppendElement(x)
       \/ \E name \in Names :
            Member(name) \/ RemoveMember(name) \/ \E x \in Elements : MemberSet(name, x)
       \/ \E t \in Types : Assign(t)
       \/ Clear \/ WrongType

Spec == Init /\ [][Next]_vars

-----------------------------------------------------------------------------
(* What it promises *)

TypeOK ==
    /\ type \in Types /\ outcome \in {"ok", "size() == newSize", "type_"}
    /\ DOMAIN map \subseteq (CASE type = "array" -> {Key(i) : i \in 0 .. 2 * Half - 1}
                               [] type = "object" -> Names
                               [] OTHER -> {})
    /\ \A k \in DOMAIN map : map[k] \in Elements

\* An array below 2^31 elements is the list of value.h: whatever sequence of
\* calls left holes in the map, what is read at each index, the size and what
\* append appends to are those of the list.  So is what resize leaves, but where
\* it ends at a null (JsonArray): there the process may be ended, and the list
\* may be shorter than it was asked to be.
List == [i \in 1 .. (IF type = "array" THEN Size ELSE 0) |-> ConstAt(i - 1)]
Kind == IF outcome = "size() == newSize" THEN "aborted"
        ELSE IF type \in {"object", "scalar"} THEN "other" ELSE type
Promised == INSTANCE JsonArray WITH kind <- Kind, list <- List
ImplementsArray == Promised!Spec

\* json_value.cpp:887: "size of the array is highest index + 1".
SizeIsHighest ==
    (type = "array" /\ map # EmptyMap) =>
        \E k \in DOMAIN map : /\ Size = (k % (2 * Half)) + 1
                              /\ \A j \in DOMAIN map : j % (2 * Half) <= k % (2 * Half)
=============================================================================
