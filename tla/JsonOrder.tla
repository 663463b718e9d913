------------------------------- MODULE JsonOrder -------------------------------
(***************************************************************************)
(* How Json::Values compare and convert (daemon/src/json/json_value.cpp).  *)
(* A leaf is [type, n]: n is the number, twice the number for a real or    *)
(* NaN, the rank of a string in the order of strcmp (the empty one has     *)
(* rank 0), or 0 and 1 for a bool.  A container is [type, map], from keys  *)
(* to values.  A conversion gives a number, or Throws.                     *)
(***************************************************************************)
EXTENDS Integers, FiniteSets

CONSTANTS MaxInt,    \* Value::maxInt, and the other limits by it
          NaN,       \* the real that is none
          Throws     \* what a conversion that is refused gives

MaxIntAssumption == MaxInt \in Nat \ {0} /\ NaN \notin Int /\ Throws \notin Int \cup {NaN}

MinInt == -MaxInt - 1
MaxUInt == 2 * MaxInt + 1

\* ValueType, in its order.
Rank == [null |-> 0, int |-> 1, uint |-> 2, real |-> 3, string |-> 4, boolean |-> 5,
         array |-> 6, object |-> 7]
Containers == {"array", "object"}
IsContainer(v) == v.type \in Containers

-----------------------------------------------------------------------------
(* Order *)

First(K) == CHOOSE k \in K : \A j \in K : k <= j

\* operator< of std::map: the first pair that differs decides; less compares
\* two values in them.
MapLess(less, a, b) ==
    LET differs(k) == k \in DOMAIN a \cap DOMAIN b => less[<<a[k], b[k]>>] \/ less[<<b[k], a[k]>>]
        keys == {k \in DOMAIN a \cup DOMAIN b : differs(k)}
    IN  keys # {} /\
        LET k == First(keys) IN
        IF k \in DOMAIN a \cap DOMAIN b THEN less[<<a[k], b[k]>>]
        ELSE IF k \in DOMAIN a THEN \E j \in DOMAIN b : j > k
        ELSE ~\E j \in DOMAIN a : j > k

\* Fewer entries, or as many and a lesser map.
ContainerLess(less, a, b) ==
    LET delta == Cardinality(DOMAIN a.map) - Cardinality(DOMAIN b.map)
    IN  IF delta # 0 THEN delta < 0 ELSE MapLess(less, a.map, b.map)

\* Neither < nor == is true of a NaN.
Comparable(a, b) == a.n # NaN /\ b.n # NaN

\* operator<, of two values whose elements less compares.
Less(less, a, b) ==
    IF a.type # b.type THEN Rank[a.type] < Rank[b.type]
    ELSE CASE a.type = "null" -> FALSE
           [] IsContainer(a) -> ContainerLess(less, a, b)
           [] OTHER -> Comparable(a, b) /\ a.n < b.n

\* operator==
Equal(equal, a, b) ==
    /\ a.type = b.type
    /\ CASE a.type = "null" -> TRUE
         [] IsContainer(a) -> /\ DOMAIN a.map = DOMAIN b.map
                              /\ \A k \in DOMAIN a.map : equal[<<a.map[k], b.map[k]>>]
         [] OTHER -> Comparable(a, b) /\ a.n = b.n

-----------------------------------------------------------------------------
(* Conversions *)

Twice(v) == CASE v.type = "null" -> 0
              [] v.type = "real" -> v.n
              [] OTHER -> 2 * v.n

Number(v) == v.type \in {"null", "int", "uint", "real", "boolean"}

\* A real is cut towards zero.
Cut(n) == IF n < 0 THEN -((-n) \div 2) ELSE n \div 2

AsInt(v) ==
    CASE v.type = "null" -> 0
      [] v.type \in {"int", "boolean"} -> v.n
      [] v.type = "uint" -> IF v.n < MaxInt THEN v.n ELSE Throws
      [] v.type = "real" -> IF v.n \in 2 * MinInt .. 2 * MaxInt THEN Cut(v.n) ELSE Throws
      [] OTHER -> Throws

AsUInt(v) ==
    CASE v.type = "null" -> 0
      [] v.type = "int" -> IF v.n >= 0 THEN v.n ELSE Throws
      [] v.type \in {"uint", "boolean"} -> v.n
      [] v.type = "real" -> IF v.n \in 0 .. 2 * MaxUInt THEN Cut(v.n) ELSE Throws
      [] OTHER -> Throws

\* asDouble, twice.
AsDouble(v) == IF Number(v) THEN Twice(v) ELSE Throws

\* asString: of a number it makes the empty string.
AsString(v) ==
    CASE v.type = "string" /\ v.n # 0 -> <<"text">>
      [] v.type = "boolean" -> IF v.n = 0 THEN <<"false">> ELSE <<"true">>
      [] OTHER -> << >>

AsBool(v) ==
    CASE v.type = "null" -> FALSE
      [] IsContainer(v) -> DOMAIN v.map # {}
      [] OTHER -> v.n # 0

IsConvertibleTo(v, other) ==
    CASE v.type = "null" -> TRUE
      [] v.type = "int" ->
           \/ other = "null" /\ v.n = 0
           \/ other = "uint" /\ v.n >= 0
           \/ other \in {"int", "real", "string", "boolean"}
      [] v.type = "uint" ->
           \/ other = "null" /\ v.n = 0
           \/ other = "int" /\ v.n <= MaxInt
           \/ other \in {"uint", "real", "string", "boolean"}
      [] v.type = "real" ->
           \/ other = "null" /\ v.n = 0
           \/ other = "int" /\ v.n \in 2 * MinInt .. 2 * MaxInt
           \/ other = "uint" /\ v.n \in 0 .. 2 * MaxUInt
           \/ other \in {"real", "string", "boolean"}
      [] v.type = "boolean" ->
           \/ other = "null" /\ v.n = 0
           \/ other \in {"int", "uint", "real", "string", "boolean"}
      [] v.type = "string" -> other = "string" \/ (other = "null" /\ v.n = 0)
      [] OTHER -> other = v.type \/ (other = "null" /\ DOMAIN v.map = {})
=============================================================================
