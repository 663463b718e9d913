---------------------------- MODULE JsonValueProofs ----------------------------
(***************************************************************************)
(* What json_value.cpp promises of a Value, proved for any values of the   *)
(* constants: as a container, the list of value.h, for any number of       *)
(* elements, names and indices below 2^31; as what a loop visits; as what  *)
(* is compared and converted; as an owner of memory.                       *)
(***************************************************************************)
EXTENDS JsonValues, Sequences, WellFoundedInduction, FiniteSetTheorems, TLAPS

\* A set of integers with a bound has a greatest element.
LEMMA GreatestOf ==
  ASSUME NEW N \in Int, NEW S, S # {}, \A y \in S : y \in Int /\ y <= N
  PROVE  \E x \in S : \A y \in S : y <= x
  <1> DEFINE T == {N - y : y \in S}
  <1>1. T \in SUBSET Nat
    <2>1. \A y \in S : N - y \in Nat
      OBVIOUS
    <2> QED
      BY <2>1
  <1>2. T # {}
    OBVIOUS
  <1>3. PICK z \in T : \A y \in T : ~ (<<y, z>> \in OpToRel(<, Nat))
    <2> HIDE DEF T
    <2> QED
      BY <1>1, <1>2, NatLessThanWellFounded, WFMin
  <1>4. \A y \in T : ~(y < z)
    BY <1>1, <1>3 DEF OpToRel
  <1>5. PICK x \in S : z = N - x
    BY <1>3
  <1>6. ASSUME NEW y \in S PROVE y <= x
    <2>1. N - y \in T
      OBVIOUS
    <2>2. ~(N - y < N - x)
      BY <1>4, <1>5, <2>1
    <2> QED
      BY <2>2
  <1> QED
    BY <1>6

-----------------------------------------------------------------------------
(* Types *)

\* What an index is stored as.
AllKeys == {Val!Key(i) : i \in 0 .. 2 * Half - 1}

LEMMA HalfIs ==
  ASSUME Val!HalfAssumption
  PROVE  Half \in Nat /\ Half > 0 /\ 2 * Half \in Nat /\ 2 * Half > 0
  BY DEF Val!HalfAssumption

LEMMA KeyIs ==
  ASSUME Val!HalfAssumption, NEW i \in 0 .. 2 * Half - 1
  PROVE  Val!Key(i) \in Int /\ -Half <= Val!Key(i) /\ Val!Key(i) < Half
  BY HalfIs DEF Val!Key

LEMMA KeysAre ==
  ASSUME Val!HalfAssumption, NEW k \in AllKeys
  PROVE  k \in Int /\ -Half <= k /\ k < Half
  BY KeyIs DEF AllKeys

\* The map is one, of elements.
Mapped == map = [k \in DOMAIN map |-> map[k]]

TypeInv == Val!TypeOK /\ Mapped

LEMMA EmptyIs ==
  ASSUME Mapped
  PROVE  map = Val!EmptyMap <=> DOMAIN map = {}
  BY DEF Mapped, Val!EmptyMap

LEMMA HighestIs ==
  ASSUME Val!HalfAssumption, TypeInv, kind = "array", map # Val!EmptyMap
  PROVE  Val!Highest \in DOMAIN map /\ \A k \in DOMAIN map : k <= Val!Highest
  <1>1. DOMAIN map # {}
    BY EmptyIs DEF TypeInv
  <1>2. \A k \in DOMAIN map : k \in AllKeys
    BY DEF TypeInv, Val!TypeOK, AllKeys
  <1>3. \A k \in DOMAIN map : k \in Int /\ k <= Half
    BY <1>2, KeysAre, HalfIs
  <1>4. \E x \in DOMAIN map : \A y \in DOMAIN map : y <= x
    BY <1>1, <1>3, HalfIs, GreatestOf
  <1> QED
    BY <1>4 DEF Val!Highest

LEMMA SizeIsNat ==
  ASSUME Val!HalfAssumption, TypeInv, kind \in {"null", "array"}
  PROVE  Val!Size \in 0 .. 2 * Half - 1
  <1>1. CASE kind = "array" /\ map # Val!EmptyMap
    <2>1. Val!Highest \in Int
      BY <1>1, HighestIs, KeysAre DEF TypeInv, Val!TypeOK, AllKeys
    <2>2. (Val!Highest + 1) % (2 * Half) \in 0 .. 2 * Half - 1
      BY <2>1, HalfIs
    <2> QED
      BY <1>1, <2>2 DEF Val!Size
  <1>2. CASE ~(kind = "array" /\ map # Val!EmptyMap)
    BY <1>2, HalfIs DEF Val!Size
  <1> QED
    BY <1>1, <1>2

LEMMA TypeInit == Val!Init => TypeInv
  BY DEF Val!Init, TypeInv, Val!TypeOK, Val!Types, Mapped, Val!EmptyMap

\* Making an entry, and dropping some.
LEMMA WithIs ==
  ASSUME Val!ElementsAssumption, TypeInv, NEW k
  PROVE  /\ DOMAIN Val!With(k) = DOMAIN map \cup {k}
         /\ Val!With(k) = [j \in DOMAIN Val!With(k) |-> Val!With(k)[j]]
         /\ \A j \in DOMAIN map : Val!With(k)[j] = map[j]
         /\ k \notin DOMAIN map => Val!With(k)[k] = NullElement
         /\ \A j \in DOMAIN Val!With(k) : Val!With(k)[j] \in Elements
  <1>1. CASE Val!Stored(k)
    BY <1>1 DEF Val!With, Val!Stored, TypeInv, Val!TypeOK, Mapped
  <1>2. CASE ~Val!Stored(k)
    BY <1>2 DEF Val!With, Val!Stored, TypeInv, Val!TypeOK, Val!ElementsAssumption
  <1> QED
    BY <1>1, <1>2

LEMMA WithSetIs ==
  ASSUME TypeInv, NEW k, NEW x \in Elements
  PROVE  /\ DOMAIN Val!WithSet(k, x) = DOMAIN map \cup {k}
         /\ Val!WithSet(k, x) = [j \in DOMAIN Val!WithSet(k, x) |-> Val!WithSet(k, x)[j]]
         /\ \A j \in DOMAIN map : j # k => Val!WithSet(k, x)[j] = map[j]
         /\ Val!WithSet(k, x)[k] = x
         /\ \A j \in DOMAIN Val!WithSet(k, x) : Val!WithSet(k, x)[j] \in Elements
  BY DEF Val!WithSet, TypeInv, Val!TypeOK

LEMMA OnlyIs ==
  ASSUME NEW kept
  PROVE  /\ DOMAIN Val!Only(kept) = kept
         /\ Val!Only(kept) = [j \in DOMAIN Val!Only(kept) |-> Val!Only(kept)[j]]
         /\ \A j \in kept : Val!Only(kept)[j] = map[j]
  BY DEF Val!Only

\* What ValuesAssumption says of the container.
Assumptions ==
  /\ Val!ElementsAssumption /\ Val!HalfAssumption /\ Val!IndicesAssumption
  /\ Val!MaxSizeAssumption /\ Val!NamesAssumption

LEMMA Assumed == Assumptions
  BY ValuesAssumption DEF Assumptions

\* The domain of an array.
LEMMA ArrayDomain ==
  ASSUME TypeInv, kind \in {"null", "array"}
  PROVE  DOMAIN map \subseteq AllKeys
  BY DEF TypeInv, Val!TypeOK, AllKeys

LEMMA ObjectDomain ==
  ASSUME TypeInv, kind \in {"null", "object"}
  PROVE  DOMAIN map \subseteq MemberNames
  BY DEF TypeInv, Val!TypeOK

\* What is to show of the next state.
LEMMA TypedAfter ==
  ASSUME kind' \in Val!Types, outcome' \in {"ok", "size() == newSize", "type_"},
         map' = [k \in DOMAIN map' |-> map'[k]],
         \A k \in DOMAIN map' : map'[k] \in Elements,
         kind' = "array" => DOMAIN map' \subseteq AllKeys,
         kind' = "object" => DOMAIN map' \subseteq MemberNames,
         kind' \in {"null", "scalar"} => DOMAIN map' = {}
  PROVE  TypeInv'
  BY DEF TypeInv, Val!TypeOK, Mapped, AllKeys, Val!Types

LEMMA KeptTyped ==
  ASSUME TypeInv, UNCHANGED <<kind, map>>, outcome' \in {"ok", "size() == newSize", "type_"}
  PROVE  TypeInv'
  BY DEF TypeInv, Val!TypeOK, Mapped

LEMMA EmptyTyped ==
  ASSUME kind' \in Val!Types, outcome' \in {"ok", "size() == newSize", "type_"}, map' = Val!EmptyMap
  PROVE  TypeInv'
  <1>1. DOMAIN map' = {} /\ map' = [k \in DOMAIN map' |-> map'[k]]
    BY DEF Val!EmptyMap
  <1> QED
    BY <1>1, TypedAfter

LEMMA KeyInAll ==
  ASSUME NEW i \in 0 .. 2 * Half - 1
  PROVE  Val!Key(i) \in AllKeys
  BY DEF AllKeys

LEMMA TypeAt ==
  ASSUME Assumptions, TypeInv, NEW i \in 0 .. 2 * Half - 1, Val!At(i)
  PROVE  TypeInv'
  <1>1. DOMAIN map' = DOMAIN map \cup {Val!Key(i)} /\ map' = [j \in DOMAIN map' |-> map'[j]]
        /\ \A j \in DOMAIN map' : map'[j] \in Elements
    BY WithIs DEF Val!At, Assumptions
  <1>2. kind \in {"null", "array"} /\ kind' = "array" /\ outcome' = outcome
    BY DEF Val!At, Val!Uses
  <1>3. outcome \in {"ok", "size() == newSize", "type_"}
    BY DEF TypeInv, Val!TypeOK
  <1> QED
    BY <1>1, <1>2, <1>3, KeyInAll, ArrayDomain, TypedAfter DEF Val!Types

LEMMA TypeAtSet ==
  ASSUME Assumptions, TypeInv, NEW i \in 0 .. 2 * Half - 1, NEW x \in Elements, Val!AtSet(i, x)
  PROVE  TypeInv'
  <1>1. DOMAIN map' = DOMAIN map \cup {Val!Key(i)} /\ map' = [j \in DOMAIN map' |-> map'[j]]
        /\ \A j \in DOMAIN map' : map'[j] \in Elements
    <2>1. /\ DOMAIN Val!WithSet(Val!Key(i), x) = DOMAIN map \cup {Val!Key(i)}
          /\ Val!WithSet(Val!Key(i), x)
               = [j \in DOMAIN Val!WithSet(Val!Key(i), x) |-> Val!WithSet(Val!Key(i), x)[j]]
          /\ \A j \in DOMAIN Val!WithSet(Val!Key(i), x) : Val!WithSet(Val!Key(i), x)[j] \in Elements
      BY WithSetIs
    <2> QED
      BY <2>1 DEF Val!AtSet
  <1>2. kind \in {"null", "array"} /\ kind' = "array" /\ outcome' = outcome
    BY DEF Val!AtSet, Val!Uses
  <1>3. outcome \in {"ok", "size() == newSize", "type_"}
    BY DEF TypeInv, Val!TypeOK
  <1> QED
    BY <1>1, <1>2, <1>3, KeyInAll, ArrayDomain, TypedAfter DEF Val!Types

LEMMA TypeResize ==
  ASSUME Assumptions, TypeInv, NEW n \in Indices, Val!Resize(n)
  PROVE  TypeInv'
  <1>0. n \in 0 .. 2 * Half - 1 /\ 2 * Half \in Nat
    BY HalfIs DEF Assumptions, Val!IndicesAssumption
  <1>1. CASE n = 0 /\ Val!Uses("array") /\ map' = Val!EmptyMap
    BY <1>1, EmptyTyped DEF Val!Uses, TypeInv, Val!TypeOK, Val!Types
  <1>2. CASE n > Val!Size /\ Val!At(n - 1)
    <2>1. Val!Size \in Nat
      BY <1>2, SizeIsNat, HalfIs DEF Assumptions, Val!At, Val!Uses
    <2>2. n - 1 \in 0 .. 2 * Half - 1
      BY <1>0, <1>2, <2>1
    <2> QED
      BY <1>2, <2>2, TypeAt
  <1>3. CASE Val!Uses("array") /\ map' = Val!Only(Val!Shrunk(n))
    <2>1. Val!Shrunk(n) \subseteq DOMAIN map
      BY DEF Val!Shrunk
    <2>2. DOMAIN map' = Val!Shrunk(n) /\ map' = [j \in DOMAIN map' |-> map'[j]]
          /\ \A j \in Val!Shrunk(n) : map'[j] = map[j]
      BY <1>3, OnlyIs
    <2>3. \A j \in DOMAIN map' : map'[j] \in Elements
      BY <2>1, <2>2 DEF TypeInv, Val!TypeOK
    <2>4. kind \in {"null", "array"} /\ kind' = "array" /\ outcome' = outcome
      BY <1>3 DEF Val!Uses
    <2>5. outcome \in {"ok", "size() == newSize", "type_"}
      BY DEF TypeInv, Val!TypeOK
    <2>6. DOMAIN map' \subseteq AllKeys
      BY <2>1, <2>2, <2>4, ArrayDomain
    <2> QED
      BY <2>2, <2>3, <2>4, <2>5, <2>6, TypedAfter DEF Val!Types
  <1>4. CASE Val!Refused("size() == newSize")
    BY <1>4, KeptTyped DEF Val!Refused
  <1> QED
    BY <1>1, <1>2, <1>3, <1>4 DEF Val!Resize, Val!Shrink

LEMMA TypeMember ==
  ASSUME Assumptions, TypeInv, NEW name \in MemberNames,
         \/ Val!Member(name) \/ Val!RemoveMember(name)
         \/ \E x \in Elements : Val!MemberSet(name, x)
  PROVE  TypeInv'
  <1>0. outcome \in {"ok", "size() == newSize", "type_"}
    BY DEF TypeInv, Val!TypeOK
  <1>1. CASE Val!Member(name)
    <2>1. DOMAIN map' = DOMAIN map \cup {name} /\ map' = [j \in DOMAIN map' |-> map'[j]]
          /\ \A j \in DOMAIN map' : map'[j] \in Elements
      BY <1>1, WithIs DEF Val!Member, Assumptions
    <2>2. kind \in {"null", "object"} /\ kind' = "object" /\ outcome' = outcome
      BY <1>1 DEF Val!Member, Val!Uses
    <2> QED
      BY <1>0, <2>1, <2>2, ObjectDomain, TypedAfter DEF Val!Types
  <1>2. CASE \E x \in Elements : Val!MemberSet(name, x)
    <2>0. PICK x \in Elements : Val!MemberSet(name, x)
      BY <1>2
    <2>1. DOMAIN map' = DOMAIN map \cup {name} /\ map' = [j \in DOMAIN map' |-> map'[j]]
          /\ \A j \in DOMAIN map' : map'[j] \in Elements
      <3>1. /\ DOMAIN Val!WithSet(name, x) = DOMAIN map \cup {name}
            /\ Val!WithSet(name, x)
                 = [j \in DOMAIN Val!WithSet(name, x) |-> Val!WithSet(name, x)[j]]
            /\ \A j \in DOMAIN Val!WithSet(name, x) : Val!WithSet(name, x)[j] \in Elements
        BY ONLY TypeInv, x \in Elements, WithSetIs
      <3> QED
        BY <2>0, <3>1 DEF Val!MemberSet
    <2>2. kind \in {"null", "object"} /\ kind' = "object" /\ outcome' = outcome
      BY <2>0 DEF Val!MemberSet, Val!Uses
    <2> QED
      BY <1>0, <2>1, <2>2, ObjectDomain, TypedAfter DEF Val!Types
  <1>3. CASE Val!RemoveMember(name)
    <2>1. DOMAIN map' = DOMAIN map \ {name} /\ map' = [j \in DOMAIN map' |-> map'[j]]
          /\ \A j \in DOMAIN map' : map'[j] = map[j]
      BY <1>3, OnlyIs DEF Val!RemoveMember
    <2>2. \A j \in DOMAIN map' : map'[j] \in Elements
      BY <2>1 DEF TypeInv, Val!TypeOK
    <2>3. kind \in {"null", "object"} /\ kind' = kind /\ outcome' = outcome
      BY <1>3 DEF Val!RemoveMember
    <2>4. kind = "null" => DOMAIN map = {}
      BY DEF TypeInv, Val!TypeOK
    <2> QED
      BY <1>0, <2>1, <2>2, <2>3, <2>4, ObjectDomain, TypedAfter DEF Val!Types
  <1> QED
    BY <1>1, <1>2, <1>3

LEMMA TypeNext ==
  ASSUME Assumptions, TypeInv, [Val!Next]_(Val!vars)
  PROVE  TypeInv'
  <1>0. outcome \in {"ok", "size() == newSize", "type_"} /\ kind \in Val!Types
    BY DEF TypeInv, Val!TypeOK
  <1>1. ASSUME NEW i \in Indices, Val!At(i) PROVE TypeInv'
    BY <1>1, TypeAt DEF Assumptions, Val!IndicesAssumption
  <1>2. ASSUME NEW i \in Indices, Val!Resize(i) PROVE TypeInv'
    BY <1>2, TypeResize
  <1>3. ASSUME NEW i \in Indices, NEW x \in Elements, Val!AtSet(i, x) PROVE TypeInv'
    BY <1>3, TypeAtSet DEF Assumptions, Val!IndicesAssumption
  <1>4. ASSUME NEW x \in Elements, Val!AppendElement(x) PROVE TypeInv'
    <2>1. Val!Size \in 0 .. 2 * Half - 1
      BY <1>4, SizeIsNat DEF Assumptions, Val!AppendElement, Val!AtSet, Val!Uses
    <2> QED
      BY <1>4, <2>1, TypeAtSet DEF Val!AppendElement
  <1>5. ASSUME NEW name \in MemberNames,
               \/ Val!Member(name) \/ Val!RemoveMember(name)
               \/ \E x \in Elements : Val!MemberSet(name, x)
        PROVE  TypeInv'
    BY <1>5, TypeMember
  <1>6. ASSUME NEW t \in Val!Types, Val!Assign(t) PROVE TypeInv'
    BY <1>0, <1>6, EmptyTyped DEF Val!Assign
  <1>7. CASE Val!Clear
    BY <1>0, <1>7, EmptyTyped DEF Val!Clear
  <1>8. CASE Val!WrongType
    BY <1>8, KeptTyped DEF Val!WrongType, Val!Refused
  <1>9. CASE UNCHANGED Val!vars
    BY <1>0, <1>9, KeptTyped DEF Val!vars
  <1> QED
    BY <1>1, <1>2, <1>3, <1>4, <1>5, <1>6, <1>7, <1>8, <1>9 DEF Val!Next

\* A step of JsonValues is one of the container, or leaves it alone.
LEMMA StepsAlone == [NextValues]_<<part, values>> => [Val!Next]_(Val!vars)
  BY DEF NextValues, NextContainer, NextLoop, Loops, NextOwner, values, container, Val!vars

\* The type invariant of a Value, whatever the indices and the names are.
THEOREM ValueTyped == ValuesSpec => []Val!TypeOK
  <1>1. ValuesInit => TypeInv
    BY TypeInit DEF ValuesInit
  <1>2. TypeInv /\ [NextValues]_<<part, values>> => TypeInv'
    BY TypeNext, StepsAlone, Assumed
  <1>3. TypeInv => Val!TypeOK
    BY DEF TypeInv
  <1> QED
    BY <1>1, <1>2, <1>3, PTL DEF ValuesSpec

-----------------------------------------------------------------------------
(* The list *)

\* An array below 2^31 elements: a caller that passes no larger index.
Small == Indices \subseteq 0 .. Half - 1

\* No index is stored as a negative Int.
Ascending == kind \in {"null", "array"} => DOMAIN map \subseteq 0 .. Half - 1

ListInv == TypeInv /\ Ascending

LEMMA KeyIsIndex ==
  ASSUME Val!HalfAssumption, NEW i \in 0 .. Half - 1
  PROVE  Val!Key(i) = i
  BY HalfIs DEF Val!Key

\* n is the size of an array with the indices D.
IsSize(D, n) ==
  /\ n \in Nat
  /\ \A k \in D : k < n
  /\ n # 0 => n - 1 \in D

\* The highest index plus one does not wrap.
LEMMA HighestOf ==
  ASSUME Val!HalfAssumption, NEW D, D \subseteq 0 .. Half - 1, NEW n, IsSize(D, n), D # {}
  PROVE  ((CHOOSE k \in D : \A j \in D : j <= k) + 1) % (2 * Half) = n
  <1> DEFINE H == CHOOSE k \in D : \A j \in D : j <= k
  <1>1. n # 0 /\ n - 1 \in D
    <2>1. PICK k \in D : k \in 0 .. Half - 1
      OBVIOUS
    <2>2. k \in Nat /\ k < n
      BY <2>1, HalfIs DEF IsSize
    <2> QED
      BY <2>2 DEF IsSize
  <1>2. \A j \in D : j \in Int /\ j < n
    BY HalfIs DEF IsSize
  <1>3. \A j \in D : j <= n - 1
    BY <1>2 DEF IsSize
  <1>4. H \in D /\ \A j \in D : j <= H
    BY <1>1, <1>3
  <1>5. H = n - 1
    <2>1. H \in Int /\ H <= n - 1 /\ n - 1 <= H
      BY <1>1, <1>2, <1>3, <1>4
    <2> HIDE DEF H
    <2> QED
      BY <2>1 DEF IsSize
  <1>6. n \in Nat /\ n <= Half
    BY <1>1, HalfIs DEF IsSize
  <1>7. n % (2 * Half) = n
    <2>1. n < 2 * Half
      BY <1>6, HalfIs
    <2> QED
      BY <1>6, <2>1, HalfIs
  <1>8. H + 1 = n
    <2> HIDE DEF H
    <2> QED
      BY <1>5, <1>6
  <1> QED
    BY <1>7, <1>8

\* Every array has a size.
LEMMA SizeExists ==
  ASSUME Val!HalfAssumption, NEW D, D \subseteq 0 .. Half - 1
  PROVE  \E n \in 0 .. Half : IsSize(D, n)
  <1>1. CASE D = {}
    BY <1>1, HalfIs DEF IsSize
  <1>2. CASE D # {}
    <2>1. \A y \in D : y \in Int /\ y <= Half
      BY HalfIs
    <2>2. PICK x \in D : \A y \in D : y <= x
      <3>1. Half \in Int
        BY HalfIs
      <3> QED
        BY ONLY <1>2, <2>1, <3>1, GreatestOf
    <2>3. x + 1 \in 0 .. Half /\ x + 1 # 0 /\ (x + 1) - 1 = x
      BY HalfIs
    <2>4. \A y \in D : y < x + 1
      BY <2>1, <2>2
    <2>5. IsSize(D, x + 1)
      BY <2>3, <2>4 DEF IsSize
    <2> QED
      BY <2>3, <2>5
  <1> QED
    BY <1>1, <1>2

\* The elements at 0 .. n - 1 of a map, nulls where there is none.
ListOf(m, n) == [i \in 1 .. n |-> IF i - 1 \in DOMAIN m THEN m[i - 1] ELSE NullElement]

LEMMA ListNow ==
  ASSUME Val!HalfAssumption, ListInv, kind \in {"null", "array"}
  PROVE  IsSize(DOMAIN map, Val!Size) /\ Val!List = ListOf(map, Val!Size) /\ Val!Size <= Half
  <1>1. DOMAIN map \subseteq 0 .. Half - 1
    BY DEF ListInv, Ascending
  <1>2. PICK n \in 0 .. Half : IsSize(DOMAIN map, n)
    BY <1>1, SizeExists
  <1>3. kind = "null" => DOMAIN map = {}
    BY DEF ListInv, TypeInv, Val!TypeOK
  <1>4. Val!Size = n
    <2>1. CASE DOMAIN map = {}
      <3>1. n = 0
        BY <1>2, <2>1 DEF IsSize
      <3>2. map = Val!EmptyMap
        BY <2>1, EmptyIs DEF ListInv, TypeInv
      <3> QED
        BY <3>1, <3>2 DEF Val!Size
    <2>2. CASE DOMAIN map # {}
      <3>1. kind = "array" /\ map # Val!EmptyMap
        BY <1>3, <2>2, EmptyIs DEF ListInv, TypeInv
      <3>2. Val!Size = (Val!Highest + 1) % (2 * Half)
        BY <3>1 DEF Val!Size
      <3>3. (Val!Highest + 1) % (2 * Half) = n
        BY <1>1, <1>2, <2>2, HighestOf DEF Val!Highest
      <3> QED
        BY <3>2, <3>3
    <2> QED
      BY <2>1, <2>2
  <1>5. Val!List = ListOf(map, Val!Size)
    <2>1. (IF kind = "array" THEN Val!Size ELSE 0) = Val!Size
      BY DEF Val!Size
    <2>2. ListOf(map, Val!Size) = [i \in 1 .. Val!Size |-> Val!ConstAt(i - 1)]
      BY DEF ListOf, Val!ConstAt, Val!Stored
    <2> QED
      BY <2>1, <2>2 DEF Val!List
  <1> QED
    BY <1>2, <1>4, <1>5, HalfIs

\* The list after a step.
LEMMA ListAfter ==
  ASSUME Val!HalfAssumption, kind' = "array", map' = [k \in DOMAIN map' |-> map'[k]],
         DOMAIN map' \subseteq 0 .. Half - 1, NEW n, IsSize(DOMAIN map', n)
  PROVE  Val!Size' = n /\ Val!List' = ListOf(map', n)
  <1>1. Val!Size' = n
    <2>1. CASE DOMAIN map' = {}
      <3>1. n = 0
        BY <2>1 DEF IsSize
      <3>2. map' = Val!EmptyMap
        BY <2>1 DEF Val!EmptyMap
      <3> QED
        BY <3>1, <3>2 DEF Val!Size
    <2>2. CASE DOMAIN map' # {}
      <3>1. map' # Val!EmptyMap
        BY <2>2 DEF Val!EmptyMap
      <3>2. Val!Size' = (Val!Highest' + 1) % (2 * Half)
        BY <3>1 DEF Val!Size
      <3>3. (Val!Highest' + 1) % (2 * Half) = n
        BY <2>2, HighestOf DEF Val!Highest
      <3> QED
        BY <3>2, <3>3
    <2> QED
      BY <2>1, <2>2
  <1>2. ListOf(map', n) = [i \in 1 .. n |-> Val!ConstAt(i - 1)']
    BY DEF ListOf, Val!ConstAt, Val!Stored
  <1> QED
    BY <1>1, <1>2 DEF Val!List

\* What is not an array has an empty list.
LEMMA ListOfNone == kind \in {"null", "object", "scalar"} => Val!List = << >>
  BY DEF Val!List

LEMMA ListOfEmpty ==
  ASSUME map = Val!EmptyMap
  PROVE  Val!List = << >>
  BY DEF Val!List, Val!Size

-----------------------------------------------------------------------------
(* Each call is the one of the list *)

\* As many elements of the list as asked for: those of the map.
LEMMA SizedIs ==
  ASSUME Val!HalfAssumption, ListInv, kind \in {"null", "array"}, NEW n \in Nat
  PROVE  Val!Promised!Sized(n) = ListOf(map, n)
  <1>1. Val!Size \in Nat /\ (\A k \in DOMAIN map : k < Val!Size) /\ Val!List = ListOf(map, Val!Size)
    BY ListNow DEF IsSize
  <1>2. Len(Val!List) = Val!Size
    BY <1>1 DEF ListOf
  <1>3. ASSUME NEW j \in 1 .. n
        PROVE  (IF j <= Len(Val!List) THEN Val!List[j] ELSE NullElement)
                 = (IF j - 1 \in DOMAIN map THEN map[j - 1] ELSE NullElement)
    <2>1. CASE j <= Val!Size
      <3>1. j \in 1 .. Val!Size
        BY <1>1, <2>1
      <3> QED
        BY <1>1, <1>2, <2>1, <3>1 DEF ListOf
    <2>2. CASE ~(j <= Val!Size)
      <3>1. ~(j - 1 < Val!Size)
        BY <1>1, <2>2
      <3>2. j - 1 \notin DOMAIN map
        BY <1>1, <3>1
      <3> QED
        BY <1>2, <2>2, <3>2
    <2> QED
      BY <2>1, <2>2
  <1>4. Val!Promised!Sized(n)
          = [j \in 1 .. n |-> IF j <= Len(Val!List) THEN Val!List[j] ELSE NullElement]
    BY DEF Val!Promised!Sized
  <1> QED
    BY <1>3, <1>4 DEF ListOf

LEMMA LongerIs ==
  ASSUME Val!HalfAssumption, ListInv, kind \in {"null", "array"}, NEW n \in Nat
  PROVE  Val!Promised!Longer(n) = IF n > Val!Size THEN n ELSE Val!Size
  <1>1. Val!Size \in Nat /\ Val!List = ListOf(map, Val!Size)
    BY ListNow DEF IsSize
  <1>2. Len(Val!List) = Val!Size
    BY <1>1 DEF ListOf
  <1> QED
    BY <1>2 DEF Val!Promised!Longer

\* An entry more makes the array as long as its index needs.
LEMMA GrownSize ==
  ASSUME Val!HalfAssumption, ListInv, kind \in {"null", "array"}, NEW i \in 0 .. Half - 1
  PROVE  /\ DOMAIN map \cup {i} \subseteq 0 .. Half - 1
         /\ Val!Promised!Longer(i + 1) \in Nat
         /\ i + 1 <= Val!Promised!Longer(i + 1)
         /\ IsSize(DOMAIN map \cup {i}, Val!Promised!Longer(i + 1))
  <1>1. DOMAIN map \subseteq 0 .. Half - 1
    BY DEF ListInv, Ascending
  <1>2. i \in Nat
    BY HalfIs
  <1>3. IsSize(DOMAIN map, Val!Size)
    BY ListNow
  <1>4. Val!Size \in Nat /\ (\A k \in DOMAIN map : k < Val!Size)
        /\ (Val!Size # 0 => Val!Size - 1 \in DOMAIN map)
    BY <1>3 DEF IsSize
  <1>5. Val!Promised!Longer(i + 1) = IF i + 1 > Val!Size THEN i + 1 ELSE Val!Size
    BY <1>2, LongerIs
  <1>6. \A k \in DOMAIN map : k \in Int
    BY <1>1, HalfIs
  <1>7. CASE i + 1 > Val!Size
    <2>1. \A k \in DOMAIN map \cup {i} : k < i + 1
      BY <1>2, <1>4, <1>6, <1>7
    <2>2. IsSize(DOMAIN map \cup {i}, i + 1)
      BY <1>2, <2>1 DEF IsSize
    <2> QED
      BY <1>1, <1>2, <1>5, <1>7, <2>2
  <1>8. CASE ~(i + 1 > Val!Size)
    <2>1. i < Val!Size /\ i + 1 <= Val!Size
      BY <1>2, <1>4, <1>8
    <2>2. \A k \in DOMAIN map \cup {i} : k < Val!Size
      BY <1>4, <2>1
    <2>3. IsSize(DOMAIN map \cup {i}, Val!Size)
      BY <1>4, <2>2 DEF IsSize
    <2> QED
      BY <1>1, <1>4, <1>5, <1>8, <2>1, <2>3
  <1> QED
    BY <1>7, <1>8

LEMMA KindIs ==
  /\ outcome = "ok" /\ kind \in {"null", "array"} => Val!Kind = kind
  /\ outcome' = "ok" /\ kind' = "array" => Val!Kind' = "array"
  BY DEF Val!Kind

LEMMA MapsAt ==
  ASSUME Assumptions, ListInv, Val!Running, NEW i \in 0 .. Half - 1, Val!At(i)
  PROVE  Ascending' /\ Val!Promised!At(i)
  <1>0. Val!HalfAssumption /\ Val!ElementsAssumption
    BY DEF Assumptions
  <1>1. kind \in {"null", "array"} /\ kind' = "array" /\ outcome = "ok" /\ outcome' = "ok"
    BY DEF Val!At, Val!Uses, Val!Running
  <1>2. map' = Val!With(i)
    BY <1>0, KeyIsIndex DEF Val!At
  <1>3. DOMAIN map' = DOMAIN map \cup {i} /\ map' = [k \in DOMAIN map' |-> map'[k]]
        /\ (\A j \in DOMAIN map : map'[j] = map[j])
        /\ (i \notin DOMAIN map => map'[i] = NullElement)
    BY <1>0, <1>2, WithIs DEF ListInv
  <1> DEFINE n == Val!Promised!Longer(i + 1)
  <1>4. DOMAIN map' \subseteq 0 .. Half - 1 /\ n \in Nat /\ IsSize(DOMAIN map', n)
    BY <1>0, <1>1, <1>3, GrownSize
  <1> HIDE DEF n
  <1>5. Val!List' = ListOf(map', n)
    BY <1>0, <1>1, <1>3, <1>4, ListAfter
  <1>6. Val!Promised!Sized(n) = ListOf(map, n)
    BY <1>0, <1>1, <1>4, SizedIs
  <1>7. ListOf(map', n) = ListOf(map, n)
    BY <1>3 DEF ListOf
  <1>8. Val!Kind \in {"null", "array"} /\ Val!Kind' = "array"
    BY <1>1, KindIs
  <1> QED
    BY <1>1, <1>4, <1>5, <1>6, <1>7, <1>8 DEF Ascending, Val!Promised!At, Val!Promised!AsArray, n

LEMMA MapsAtSet ==
  ASSUME Assumptions, ListInv, Val!Running, NEW i \in 0 .. Half - 1, NEW x \in Elements,
         Val!AtSet(i, x)
  PROVE  Ascending' /\ Val!Promised!AtSet(i, x)
  <1>0. Val!HalfAssumption /\ i \in Nat
    BY HalfIs DEF Assumptions
  <1>1. kind \in {"null", "array"} /\ kind' = "array" /\ outcome = "ok" /\ outcome' = "ok"
    BY DEF Val!AtSet, Val!Uses, Val!Running
  <1>2. map' = Val!WithSet(i, x)
    BY <1>0, KeyIsIndex DEF Val!AtSet
  <1>3. DOMAIN map' = DOMAIN map \cup {i} /\ map' = [k \in DOMAIN map' |-> map'[k]]
        /\ (\A j \in DOMAIN map : j # i => map'[j] = map[j]) /\ map'[i] = x
    BY <1>2 DEF Val!WithSet
  <1> DEFINE n == Val!Promised!Longer(i + 1)
  <1>4. DOMAIN map' \subseteq 0 .. Half - 1 /\ n \in Nat /\ IsSize(DOMAIN map', n) /\ i + 1 <= n
    BY <1>0, <1>1, <1>3, GrownSize
  <1> HIDE DEF n
  <1>5. Val!List' = ListOf(map', n)
    BY <1>0, <1>1, <1>3, <1>4, ListAfter
  <1>6. Val!Promised!Sized(n) = ListOf(map, n)
    BY <1>0, <1>1, <1>4, SizedIs
  <1>7. ListOf(map', n) = [ListOf(map, n) EXCEPT ![i + 1] = x]
    <2>1. ASSUME NEW j \in 1 .. n
          PROVE  (IF j - 1 \in DOMAIN map' THEN map'[j - 1] ELSE NullElement)
                   = IF j = i + 1 THEN x
                     ELSE IF j - 1 \in DOMAIN map THEN map[j - 1] ELSE NullElement
      <3>1. j = i + 1 <=> j - 1 = i
        BY <1>0
      <3> QED
        BY <1>3, <3>1
    <2> QED
      BY <2>1 DEF ListOf
  <1>8. Val!Kind \in {"null", "array"} /\ Val!Kind' = "array"
    BY <1>1, KindIs
  <1> QED
    BY <1>1, <1>4, <1>5, <1>6, <1>7, <1>8 DEF Ascending, Val!Promised!AtSet, Val!Promised!AsArray, n

LEMMA MapsAppend ==
  ASSUME Assumptions, ListInv, Val!Running, NEW x \in Elements, Val!AppendElement(x)
  PROVE  Ascending' /\ Val!Promised!AppendElement(x)
  <1>0. Val!HalfAssumption
    BY DEF Assumptions
  <1>1. kind \in {"null", "array"}
    BY DEF Val!AppendElement, Val!AtSet, Val!Uses
  <1>2. Val!Size \in Nat /\ Val!List = ListOf(map, Val!Size)
    BY <1>0, <1>1, ListNow DEF IsSize
  <1>3. Val!Size \in 0 .. Half - 1
    BY <1>2, HalfIs DEF Val!AppendElement, Assumptions, Val!MaxSizeAssumption
  <1>4. Ascending' /\ Val!Promised!AtSet(Val!Size, x)
    BY <1>3, MapsAtSet DEF Val!AppendElement
  <1>5. Val!Promised!Longer(Val!Size + 1) = Val!Size + 1
    BY <1>0, <1>1, <1>2, LongerIs
  <1>6. Val!Promised!Sized(Val!Size + 1) = ListOf(map, Val!Size + 1)
    BY <1>0, <1>1, <1>2, SizedIs
  <1>7. Val!List' = [ListOf(map, Val!Size + 1) EXCEPT ![Val!Size + 1] = x]
    BY <1>4, <1>5, <1>6 DEF Val!Promised!AtSet
  <1>8. [ListOf(map, Val!Size + 1) EXCEPT ![Val!Size + 1] = x] = Append(ListOf(map, Val!Size), x)
    <2>1. Len(ListOf(map, Val!Size)) = Val!Size
      BY <1>2 DEF ListOf
    <2> QED
      BY <1>2, <2>1 DEF ListOf
  <1> QED
    BY <1>2, <1>4, <1>7, <1>8 DEF Val!Promised!AppendElement, Val!Promised!AtSet

\* The entries that a truncation leaves, and the size they make.
LEMMA ShrunkIs ==
  ASSUME Val!HalfAssumption, ListInv, kind \in {"null", "array"},
         NEW n \in Nat, n <= Half - 1, n <= Val!Size
  PROVE  \E m \in 0 .. n :
           /\ IsSize(Val!Shrunk(n), m) /\ Val!Shrunk(n) \subseteq 0 .. Half - 1
           /\ \A k \in DOMAIN map : k \in Val!Shrunk(n) <=> k < n
           /\ Val!Shrunk(n) \subseteq DOMAIN map
  <1>1. DOMAIN map \subseteq 0 .. Half - 1
    BY DEF ListInv, Ascending
  <1>2. Val!Size \in Nat /\ Val!Size <= Half /\ \A k \in DOMAIN map : k < Val!Size
    BY ListNow DEF IsSize
  <1>3. \A i \in n .. Val!Size - 1 : Val!Key(i) = i
    <2>1. \A i \in n .. Val!Size - 1 : i \in 0 .. Half - 1
      BY <1>2, HalfIs
    <2> QED
      BY <2>1, KeyIsIndex
  <1>4. \A k \in DOMAIN map : k \in Val!Shrunk(n) <=> k < n
    <2>1. \A k \in DOMAIN map : k \in Val!Shrunk(n) <=> ~(k \in n .. Val!Size - 1)
      BY <1>3 DEF Val!Shrunk
    <2>2. \A k \in DOMAIN map : k \in Nat /\ k < Val!Size
      BY <1>1, <1>2, HalfIs
    <2> QED
      BY <1>2, <2>1, <2>2
  <1>5. Val!Shrunk(n) \subseteq DOMAIN map /\ Val!Shrunk(n) \subseteq 0 .. Half - 1
    BY <1>1 DEF Val!Shrunk
  <1>6. PICK m \in 0 .. Half : IsSize(Val!Shrunk(n), m)
    BY <1>5, SizeExists
  <1>7. m <= n
    <2>1. CASE m = 0
      BY <2>1
    <2>2. CASE m # 0
      <3>1. m - 1 \in Val!Shrunk(n)
        BY <1>6, <2>2 DEF IsSize
      <3>2. m - 1 < n
        BY <1>4, <1>5, <3>1
      <3> QED
        BY <3>2, HalfIs
    <2> QED
      BY <2>1, <2>2
  <1>8. m \in 0 .. n
    BY <1>6, <1>7, HalfIs
  <1> QED
    BY <1>4, <1>5, <1>6, <1>8

\* Of the list, what stands from m + 1 to n are nulls, and n is not its end.
EndsAtNull(n, m) ==
    0 < n /\ n < Len(Val!List) /\ m \in 0 .. n - 1 /\ \A i \in m + 1 .. n : Val!List[i] = NullElement

LEMMA EndsAtNullIs ==
  ASSUME Val!HalfAssumption, ListInv, kind \in {"null", "array"}, NEW n \in Nat, n # 0,
         n <= Val!Size, NEW m \in 0 .. n, m # n, \A k \in DOMAIN map : k < n => k < m
  PROVE  EndsAtNull(n, m)
  <1>1. IsSize(DOMAIN map, Val!Size) /\ Val!List = ListOf(map, Val!Size)
    BY ListNow
  <1>2. Val!Size \in Nat /\ (Val!Size # 0 => Val!Size - 1 \in DOMAIN map)
    BY <1>1 DEF IsSize
  <1>3. Len(Val!List) = Val!Size
    BY <1>1, <1>2 DEF ListOf
  <1>4. n # Val!Size
    <2> SUFFICES ASSUME n = Val!Size PROVE FALSE
      OBVIOUS
    <2>1. n - 1 \in DOMAIN map /\ n - 1 < n
      BY <1>2
    <2>2. n - 1 < m
      BY <2>1
    <2> QED
      BY <2>2
  <1>5. ASSUME NEW i \in m + 1 .. n PROVE Val!List[i] = NullElement
    <2>1. i \in 1 .. Val!Size /\ i - 1 < n /\ ~(i - 1 < m)
      BY <1>2
    <2>2. i - 1 \notin DOMAIN map
      BY <2>1
    <2> QED
      BY <1>1, <2>1, <2>2 DEF ListOf
  <1>6. 0 < n /\ n < Val!Size /\ m \in 0 .. n - 1
    BY <1>2, <1>4
  <1> QED
    BY <1>3, <1>5, <1>6 DEF EndsAtNull

LEMMA ArrayIs ==
  ASSUME kind \in {"null", "array"}, NEW n \in Nat, n # 0, n <= Val!Size
  PROVE  kind = "array"
  <1>1. kind # "null"
    <2>1. kind = "null" => Val!Size = 0
      BY DEF Val!Size
    <2> QED
      BY <2>1
  <1> QED
    BY <1>1

LEMMA MapsResize ==
  ASSUME Assumptions, Small, ListInv, Val!Running, NEW n \in Indices, Val!Resize(n)
  PROVE  Ascending' /\ (Val!Promised!Resize(n) \/ Val!Promised!ResizeToNull(n))
  <1>0. Val!HalfAssumption /\ n \in Nat /\ n <= Half - 1
    BY HalfIs DEF Assumptions, Small
  <1>1. CASE n = 0 /\ Val!Uses("array") /\ map' = Val!EmptyMap
    <2>1. kind \in {"null", "array"} /\ kind' = "array" /\ outcome = "ok" /\ outcome' = "ok"
      BY <1>1 DEF Val!Uses, Val!Running
    <2>2. DOMAIN map' = {}
      BY <1>1 DEF Val!EmptyMap
    <2>3. Val!List' = << >>
      BY <1>1 DEF Val!List, Val!Size
    <2>4. Val!Promised!Sized(n) = << >>
      BY <1>1 DEF Val!Promised!Sized
    <2>5. Val!Kind \in {"null", "array"} /\ Val!Kind' = "array"
      BY <2>1, KindIs
    <2> QED
      BY <2>2, <2>3, <2>4, <2>5 DEF Ascending, Val!Promised!Resize, Val!Promised!AsArray
  <1>2. CASE n > Val!Size /\ Val!At(n - 1)
    <2>1. kind \in {"null", "array"}
      BY <1>2 DEF Val!At, Val!Uses
    <2>2. Val!Size \in Nat
      BY <1>0, <2>1, ListNow DEF IsSize
    <2>3. n - 1 \in 0 .. Half - 1 /\ (n - 1) + 1 = n
      BY <1>0, <1>2, <2>2, HalfIs
    <2>4. Ascending' /\ Val!Promised!At(n - 1)
      BY <1>2, <2>3, MapsAt
    <2>5. Val!Promised!Longer(n) = n
      BY <1>0, <1>2, <2>1, LongerIs
    <2> QED
      BY <2>3, <2>4, <2>5 DEF Val!Promised!At, Val!Promised!Resize
  <1>3. CASE n # 0 /\ n <= Val!Size /\ Val!Uses("array") /\ map' = Val!Only(Val!Shrunk(n))
    <2>1. kind \in {"null", "array"} /\ kind' = "array" /\ outcome = "ok" /\ outcome' = "ok"
      BY <1>3 DEF Val!Uses, Val!Running
    <2>2. DOMAIN map' = Val!Shrunk(n) /\ map' = [k \in DOMAIN map' |-> map'[k]]
          /\ \A k \in Val!Shrunk(n) : map'[k] = map[k]
      BY <1>3, OnlyIs
    <2>3. PICK m \in 0 .. n :
            /\ IsSize(Val!Shrunk(n), m) /\ Val!Shrunk(n) \subseteq 0 .. Half - 1
            /\ \A k \in DOMAIN map : k \in Val!Shrunk(n) <=> k < n
            /\ Val!Shrunk(n) \subseteq DOMAIN map
      BY <1>0, <1>3, <2>1, ShrunkIs
    <2>4. Val!List' = ListOf(map', m)
      BY <1>0, <2>1, <2>2, <2>3, ListAfter
    <2>5. ListOf(map', m) = ListOf(map, m)
      <3>1. ASSUME NEW j \in 1 .. m
            PROVE  (IF j - 1 \in DOMAIN map' THEN map'[j - 1] ELSE NullElement)
                     = (IF j - 1 \in DOMAIN map THEN map[j - 1] ELSE NullElement)
        <4>1. j - 1 < n
          BY <1>0
        <4> QED
          BY <2>2, <2>3, <4>1
      <3> QED
        BY <3>1 DEF ListOf
    <2>6. Val!Promised!Sized(m) = ListOf(map, m)
      BY <1>0, <2>1, SizedIs
    <2>7. Val!Kind = kind /\ Val!Kind' = "array" /\ Ascending'
      BY <2>1, <2>2, <2>3, KindIs DEF Ascending
    <2>8. CASE m = n
      BY <2>1, <2>4, <2>5, <2>6, <2>7, <2>8 DEF Val!Promised!Resize, Val!Promised!AsArray
    <2>9. CASE m < n
      <3>1. \A k \in DOMAIN map : k < n => k < m
        BY <2>3 DEF IsSize
      <3>2. EndsAtNull(n, m)
        BY <1>0, <1>3, <2>1, <2>9, <3>1, EndsAtNullIs
      <3>3. kind = "array"
        BY <1>0, <1>3, <2>1, ArrayIs
      <3> QED
        BY <1>0, <2>4, <2>5, <2>6, <2>7, <2>9, <3>2, <3>3 DEF Val!Promised!ResizeToNull, EndsAtNull
    <2> QED
      BY <1>0, <2>8, <2>9
  <1>4. CASE /\ n # 0 /\ n <= Val!Size /\ kind \in {"null", "array"}
             /\ Val!SizeAfter(Val!Shrunk(n)) # n /\ Val!Refused("size() == newSize")
    <2>1. UNCHANGED <<kind, map>> /\ outcome = "ok" /\ outcome' = "size() == newSize"
      BY <1>4 DEF Val!Refused, Val!Running
    <2>2. Ascending'
      BY <2>1 DEF ListInv, Ascending
    <2>3. UNCHANGED Val!List /\ Val!Kind' = "aborted"
      BY <2>1 DEF Val!Kind, Val!List, Val!Size, Val!Highest, Val!ConstAt, Val!Stored
    <2>4. kind = "array" /\ Val!Kind = "array"
      <3>1. kind = "array"
        BY <1>0, <1>4, ArrayIs
      <3> QED
        BY <2>1, <3>1, KindIs
    <2>5. PICK m \in 0 .. n :
            /\ IsSize(Val!Shrunk(n), m) /\ Val!Shrunk(n) \subseteq 0 .. Half - 1
            /\ \A k \in DOMAIN map : k \in Val!Shrunk(n) <=> k < n
            /\ Val!Shrunk(n) \subseteq DOMAIN map
      BY <1>0, <1>4, ShrunkIs
    <2>6. m # n
      <3>1. CASE Val!Shrunk(n) = {}
        BY <1>4, <2>5, <3>1 DEF IsSize
      <3>2. CASE Val!Shrunk(n) # {}
        <4>1. Val!SizeAfter(Val!Shrunk(n)) = m
          BY <1>0, <2>5, <3>2, HighestOf DEF Val!SizeAfter
        <4> QED
          BY <1>4, <4>1
      <3> QED
        BY <3>1, <3>2
    <2>7. \A k \in DOMAIN map : k < n => k < m
      BY <2>5 DEF IsSize
    <2>8. EndsAtNull(n, m)
      BY <1>0, <1>4, <2>5, <2>6, <2>7, EndsAtNullIs
    <2>9. Val!List[n] = NullElement /\ 0 < n /\ n < Len(Val!List)
      <3>1. n \in m + 1 .. n
        BY <1>0, <2>5, <2>6
      <3> QED
        BY <2>8, <3>1 DEF EndsAtNull
    <2> QED
      BY <2>2, <2>3, <2>4, <2>9 DEF Val!Promised!ResizeToNull
  <1> QED
    BY <1>1, <1>2, <1>3, <1>4 DEF Val!Resize, Val!Shrink

LEMMA MapsMember ==
  ASSUME ListInv, Val!Running, NEW name,
         \/ Val!Member(name) \/ Val!RemoveMember(name)
         \/ \E x \in Elements : Val!MemberSet(name, x)
  PROVE  Ascending' /\ (Val!Promised!Assign \/ UNCHANGED <<Val!Kind, Val!List>>)
  <1>1. CASE Val!Member(name) \/ \E x \in Elements : Val!MemberSet(name, x)
    <2>1. kind' = "object" /\ outcome' = "ok"
      BY <1>1 DEF Val!Member, Val!MemberSet, Val!Uses, Val!Running
    <2> QED
      BY <2>1 DEF Ascending, Val!Kind, Val!List, Val!Promised!Assign
  <1>2. CASE Val!RemoveMember(name)
    <2>1. /\ kind \in {"null", "object"} /\ UNCHANGED <<kind, outcome>>
          /\ map' = Val!Only(DOMAIN map \ {name})
      BY <1>2 DEF Val!RemoveMember
    <2>2. kind = "null" => DOMAIN map = {}
      BY DEF ListInv, TypeInv, Val!TypeOK
    <2>3. Ascending'
      BY <2>1, <2>2, OnlyIs DEF Ascending
    <2>4. UNCHANGED <<Val!Kind, Val!List>>
      BY <2>1 DEF Val!Kind, Val!List
    <2> QED
      BY <2>3, <2>4
  <1> QED
    BY <1>1, <1>2

LEMMA MapsEmptied ==
  ASSUME ListInv, Val!Running, Val!Clear \/ \E t \in Val!Types : Val!Assign(t)
  PROVE  Ascending' /\ (\/ Val!Promised!Clear \/ Val!Promised!Assign
                         \/ UNCHANGED <<Val!Kind, Val!List>>)
  <1>1. map' = Val!EmptyMap
    BY DEF Val!Clear, Val!Assign
  <1>2. Ascending'
    BY <1>1 DEF Ascending, Val!EmptyMap
  <1>3. Val!List' = << >>
    BY <1>1 DEF Val!List, Val!Size
  <1>4. CASE Val!Clear
    <2>1. UNCHANGED <<kind, outcome>> /\ kind \in Val!Types /\ outcome = "ok"
      BY <1>4 DEF Val!Clear, Val!Running, ListInv, TypeInv, Val!TypeOK
    <2>2. CASE kind = "array"
      BY <1>2, <1>3, <2>1, <2>2 DEF Val!Kind, Val!Promised!Clear
    <2>3. CASE kind # "array"
      <3>1. Val!List = << >> /\ Val!Kind' = Val!Kind
        BY <2>1, <2>3 DEF Val!Kind, Val!List
      <3> QED
        BY <1>2, <1>3, <3>1
    <2> QED
      BY <2>2, <2>3
  <1>5. CASE \E t \in Val!Types : Val!Assign(t)
    <2>1. Val!Kind' \in {"null", "array", "other"}
      BY <1>5 DEF Val!Assign, Val!Types, Val!Kind, Val!Running
    <2> QED
      BY <1>2, <1>3, <2>1 DEF Val!Promised!Assign
  <1> QED
    BY <1>4, <1>5

LEMMA MapsNext ==
  ASSUME Assumptions, Small, ListInv, [Val!Next]_(Val!vars)
  PROVE  ListInv' /\ [Val!Promised!Next]_(Val!Promised!vars)
  <1>0. TypeInv'
    BY TypeNext DEF ListInv
  <1>1. CASE UNCHANGED <<kind, map>> /\ Val!Kind' = Val!Kind
    <2>1. Ascending'
      BY <1>1 DEF ListInv, Ascending
    <2>2. UNCHANGED <<Val!Kind, Val!List>>
      BY <1>1 DEF Val!List, Val!Size, Val!Highest, Val!ConstAt, Val!Stored
    <2> QED
      BY <1>0, <2>1, <2>2 DEF ListInv, Val!Promised!vars
  <1>2. ASSUME Val!Running, NEW i \in Indices, Val!At(i)
        PROVE  Ascending' /\ Val!Promised!Next
    <2>1. Ascending' /\ Val!Promised!At(i)
      BY <1>2, MapsAt DEF Small
    <2> QED
      BY <2>1 DEF Val!Promised!Next
  <1>3. ASSUME Val!Running, NEW i \in Indices, NEW x \in Elements, Val!AtSet(i, x)
        PROVE  Ascending' /\ Val!Promised!Next
    <2>1. Ascending' /\ Val!Promised!AtSet(i, x)
      BY <1>3, MapsAtSet DEF Small
    <2> QED
      BY <2>1 DEF Val!Promised!Next
  <1>4. ASSUME Val!Running, NEW i \in Indices, Val!Resize(i)
        PROVE  Ascending' /\ Val!Promised!Next
    <2>1. Ascending' /\ (Val!Promised!Resize(i) \/ Val!Promised!ResizeToNull(i))
      BY <1>4, MapsResize
    <2> QED
      BY <2>1 DEF Val!Promised!Next
  <1>5. ASSUME Val!Running, NEW x \in Elements, Val!AppendElement(x)
        PROVE  Ascending' /\ Val!Promised!Next
    <2>1. Ascending' /\ Val!Promised!AppendElement(x)
      BY <1>5, MapsAppend
    <2> QED
      BY <2>1 DEF Val!Promised!Next
  <1>6. ASSUME Val!Running, NEW name \in MemberNames,
               \/ Val!Member(name) \/ Val!RemoveMember(name)
               \/ \E x \in Elements : Val!MemberSet(name, x)
        PROVE  Ascending' /\ (Val!Promised!Next \/ UNCHANGED <<Val!Kind, Val!List>>)
    BY <1>6, MapsMember DEF Val!Promised!Next
  <1>7. CASE Val!Running /\ (Val!Clear \/ \E t \in Val!Types : Val!Assign(t))
    <2>1. Ascending' /\ (\/ Val!Promised!Clear \/ Val!Promised!Assign
                         \/ UNCHANGED <<Val!Kind, Val!List>>)
      BY <1>7, MapsEmptied
    <2> QED
      BY <1>0, <2>1 DEF ListInv, Val!Promised!Next, Val!Promised!vars
  <1>8. CASE Val!Running /\ Val!WrongType
    <2>1. UNCHANGED <<kind, map>> /\ outcome = "ok" /\ outcome' = "type_"
      BY <1>8 DEF Val!WrongType, Val!Refused, Val!Running
    <2> QED
      BY <1>1, <2>1 DEF Val!Kind
  <1>9. CASE UNCHANGED Val!vars
    BY <1>1, <1>9 DEF Val!vars, Val!Kind
  <1> QED
    BY <1>0, <1>2, <1>3, <1>4, <1>5, <1>6, <1>7, <1>8, <1>9
    DEF ListInv, Val!Next, Val!Promised!vars

LEMMA MapsInit == Val!Init => Ascending /\ Val!Promised!Init
  <1>1. Val!Init => Ascending
    BY DEF Val!Init, Ascending, Val!EmptyMap
  <1>2. Val!Init => Val!Promised!Init
    BY DEF Val!Init, Val!Kind, Val!List, Val!Promised!Init
  <1> QED
    BY <1>1, <1>2

\* For callers whose indices are below 2^31, the map with its holes is the list
\* of value.h, until a resize ends behind a hole: that one ends in an assertion,
\* or without assertions in a list that is shorter than was asked for, down to
\* its last value (json_value.cpp:968).
THEOREM ArrayRefinement ==
  ASSUME Small
  PROVE  ValuesSpec => ImplementsArray
  <1>1. ValuesInit => ListInv /\ Val!Promised!Init
    BY TypeInit, MapsInit DEF ValuesInit, ListInv
  <1>2. ListInv /\ [NextValues]_<<part, values>>
          => ListInv' /\ [Val!Promised!Next]_(Val!Promised!vars)
    BY MapsNext, StepsAlone, Assumed
  <1> QED
    BY <1>1, <1>2, PTL DEF ValuesSpec, ImplementsArray, Val!ImplementsArray, Val!Promised!Spec

\* json_value.cpp:887, for the same callers: the size of an array is the
\* highest index plus one, and no index is above it.
THEOREM SizeAlwaysHighest ==
  ASSUME Small
  PROVE  ValuesSpec => []Val!SizeIsHighest
  <1>0. Val!HalfAssumption
    BY Assumed DEF Assumptions
  <1>1. ValuesInit => ListInv
    BY TypeInit, MapsInit DEF ValuesInit, ListInv
  <1>2. ListInv /\ [NextValues]_<<part, values>> => ListInv'
    BY MapsNext, StepsAlone, Assumed
  <1>3. ListInv => Val!SizeIsHighest
    <2> SUFFICES ASSUME ListInv, kind = "array", map # Val!EmptyMap
                 PROVE  \E k \in DOMAIN map :
                          /\ Val!Size = (k % (2 * Half)) + 1
                          /\ \A j \in DOMAIN map : j % (2 * Half) <= k % (2 * Half)
      BY DEF Val!SizeIsHighest
    <2>1. DOMAIN map # {} /\ DOMAIN map \subseteq 0 .. Half - 1
      BY EmptyIs DEF ListInv, TypeInv, Ascending
    <2>2. Val!Size \in Nat /\ (\A k \in DOMAIN map : k < Val!Size)
        /\ (Val!Size # 0 => Val!Size - 1 \in DOMAIN map)
      BY <1>0, ListNow DEF IsSize
    <2>3. \A k \in DOMAIN map : k \in Nat /\ k < Val!Size /\ k < 2 * Half
      BY <1>0, <2>1, <2>2, HalfIs
    <2>4. \A k \in DOMAIN map : k % (2 * Half) = k
      BY <1>0, <2>3, HalfIs
    <2>5. Val!Size - 1 \in DOMAIN map
      BY <2>1, <2>2, <2>3
    <2>6. \A j \in DOMAIN map : j <= Val!Size - 1
      BY <2>2, <2>3
    <2>7. Val!Size = ((Val!Size - 1) % (2 * Half)) + 1
      BY <2>2, <2>4, <2>5
    <2> QED
      BY <2>4, <2>5, <2>6, <2>7
  <1> QED
    BY <1>1, <1>2, <1>3, PTL DEF ValuesSpec

-----------------------------------------------------------------------------
(* The loop over a Value *)

\* A finite set of integers has a least and a greatest element.
LEMMA EndsOf ==
  ASSUME NEW K \in SUBSET Int, IsFiniteSet(K), K # {}
  PROVE  (\E x \in K : \A j \in K : x <= j) /\ (\E x \in K : \A j \in K : j <= x)
  <1> DEFINE Ends(S) == (\E x \in S : \A j \in S : x <= j) /\ (\E x \in S : \A j \in S : j <= x)
             Bad(n) == \E S \in SUBSET Int : IsFiniteSet(S) /\ S # {} /\ Cardinality(S) = n
                 /\ ~Ends(S)
             B == {n \in Nat : Bad(n)}
  <1>1. SUFFICES ASSUME ~Ends(K) PROVE FALSE
    OBVIOUS
  <1>2. Cardinality(K) \in B
    BY <1>1, FS_CardinalityType
  <1>3. PICK n \in B : \A m \in B : ~(<<m, n>> \in OpToRel(<, Nat))
    <2> HIDE DEF B
    <2>1. B \in SUBSET Nat
      BY DEF B
    <2> QED
      BY <1>2, <2>1, NatLessThanWellFounded, WFMin
  <1>4. \A m \in B : ~(m < n)
    BY <1>3 DEF OpToRel
  <1>5. PICK S \in SUBSET Int : IsFiniteSet(S) /\ S # {} /\ Cardinality(S) = n /\ ~Ends(S)
    BY <1>3
  <1>6. PICK k \in S : TRUE
    BY <1>5
  <1> DEFINE T == S \ {k}
  <1>7. IsFiniteSet(T) /\ Cardinality(T) = n - 1 /\ T \in SUBSET Int
    BY <1>5, <1>6, FS_RemoveElement
  <1>8. T # {}
    <2> SUFFICES ASSUME T = {} PROVE FALSE
      OBVIOUS
    <2>1. \A j \in S : j = k
      OBVIOUS
    <2> QED
      BY <1>5, <1>6, <2>1
  <1>9. Ends(T)
    <2> SUFFICES ASSUME ~Ends(T) PROVE FALSE
      OBVIOUS
    <2>1. n - 1 \in Nat
      BY <1>7, FS_CardinalityType
    <2>2. n - 1 \in B
      BY <1>7, <1>8, <2>1
    <2> QED
      BY <1>4, <2>2, <2>1
  <1>10. PICK a \in T : \A j \in T : a <= j
    BY <1>9
  <1>11. PICK b \in T : \A j \in T : j <= b
    BY <1>9
  <1>12. /\ \A j \in S : (IF k <= a THEN k ELSE a) <= j
         /\ \A j \in S : j <= (IF b <= k THEN k ELSE b)
    BY <1>6, <1>10, <1>11
  <1> QED
    BY <1>5, <1>6, <1>10, <1>11, <1>12

LEMMA LowestIs ==
  ASSUME NEW K \in SUBSET Int, IsFiniteSet(K), K # {}
  PROVE  Loop!Lowest(K) \in K /\ \A j \in K : Loop!Lowest(K) <= j
  BY EndsOf DEF Loop!Lowest

LEMMA TopIs ==
  ASSUME NEW K \in SUBSET Int, IsFiniteSet(K), K # {}
  PROVE  Loop!Highest(K) \in K /\ \A j \in K : j <= Loop!Highest(K)
  BY EndsOf DEF Loop!Highest

\* A module that is instantiated has its own names for what it extends.
LEMMA SameNames ==
  ASSUME NEW S
  PROVE  (Loop!IsFiniteSet(S) <=> IsFiniteSet(S)) /\ Loop!Cardinality(S) = Cardinality(S)
  BY DEF Loop!IsFiniteSet, IsFiniteSet, Loop!Cardinality, Cardinality

\* The entries from the iterator on, those the loop has been at, and the others.
Onward == {k \in keys : it.current # PastEnd /\ k >= it.current}
Visited == IF forward THEN keys \ Onward ELSE Onward
Unvisited == IF forward THEN Onward ELSE keys \ Onward

\* What a round leaves as it was.
LoopFixed ==
    /\ forward \in BOOLEAN /\ assigned \in BOOLEAN /\ holds \in BOOLEAN
    /\ keys \subseteq Keys
    /\ ~holds => keys = {}
    /\ stop = IF forward THEN Loop!EndOf ELSE Loop!BeginOf

IteratorIs ==
    /\ it = [current |-> it.current, isNull |-> assigned \/ ~holds]
    /\ holds => it.current \in keys \cup {PastEnd}
    /\ ~holds => it.current = Nowhere

InTurns ==
    \A i, j \in 1 .. Len(seen) : i < j => IF forward THEN seen[i] < seen[j] ELSE seen[i] > seen[j]

SeenIs ==
    /\ seen \in Seq(Keys) /\ InTurns
    /\ Loop!ToSet(seen) = IF holds THEN Visited ELSE {}
    /\ Len(seen) + Cardinality(Unvisited) = Cardinality(keys)

LoopEnded ==
    /\ loop \in {"loop", "done", "undefined"}
    /\ loop = "undefined" => assigned /\ holds
    /\ loop # "loop" => Loop!ToSet(seen) = keys

LoopInv == LoopFixed /\ IteratorIs /\ SeenIs /\ LoopEnded

LEMMA KeysFinite ==
  ASSUME Loop!KeysAssumption, keys \subseteq Keys, NEW K \in SUBSET keys
  PROVE  K \in SUBSET Int /\ IsFiniteSet(K) /\ Cardinality(K) \in Nat
  <1>1. IsFiniteSet(keys)
    <2>1. keys \in SUBSET Keys /\ IsFiniteSet(Keys)
      BY SameNames, Zenon DEF Loop!KeysAssumption
    <2> QED
      BY <2>1, FS_Subset
  <1> QED
    BY <1>1, FS_Subset, FS_CardinalityType DEF Loop!KeysAssumption

LEMMA LowestOrEnd ==
  ASSUME Loop!KeysAssumption, keys \subseteq Keys, NEW K \in SUBSET keys
  PROVE  /\ K = {} => Loop!Lowest(K) = PastEnd
         /\ K # {} => Loop!Lowest(K) \in K /\ \A j \in K : Loop!Lowest(K) <= j
  <1>1. K = {} => Loop!Lowest(K) = PastEnd
    BY DEF Loop!Lowest
  <1> QED
    BY <1>1, KeysFinite, LowestIs

LEMMA LoopInit ==
  ASSUME Loop!KeysAssumption, Loop!PositionAssumption, Loop!Init
  PROVE  LoopInv
  <1>1. LoopFixed
    BY DEF Loop!Init, LoopFixed
  <1>2. Loop!Lowest(keys) \in keys \cup {PastEnd}
      /\ (keys # {} => Loop!Lowest(keys) \in keys /\ \A j \in keys : Loop!Lowest(keys) <= j)
    BY <1>1, LowestOrEnd DEF LoopFixed
  <1>3. IteratorIs
    BY <1>1, <1>2 DEF Loop!Init, IteratorIs, LoopFixed, Loop!Given, Loop!Copied, Loop!BeginOf,
        Loop!EndOf,
       Loop!At, Loop!DefaultIterator
  <1>4. it.current = IF ~holds THEN Nowhere ELSE IF forward THEN Loop!Lowest(keys) ELSE PastEnd
    BY <1>1 DEF Loop!Init, LoopFixed, Loop!Given, Loop!Copied, Loop!BeginOf, Loop!EndOf,
       Loop!At, Loop!DefaultIterator
  <1>5. Visited = {} /\ Unvisited = keys
    <2>1. CASE ~holds
      BY <1>1, <2>1 DEF Visited, Unvisited, Onward, LoopFixed
    <2>2. CASE holds /\ ~forward
      BY <1>1, <1>4, <2>2 DEF Visited, Unvisited, Onward
    <2>3. CASE holds /\ forward
      <3>1. \A k \in keys : it.current # PastEnd /\ k >= it.current
        BY <1>1, <1>2, <1>4, <2>3 DEF Loop!KeysAssumption, Loop!PositionAssumption, LoopFixed
      <3>2. Onward = keys
        BY <3>1 DEF Onward
      <3> QED
        BY <2>3, <3>2 DEF Visited, Unvisited
    <2> QED
      BY <1>1, <2>1, <2>2, <2>3 DEF LoopFixed
  <1>6. seen = << >> /\ loop = "loop"
    BY DEF Loop!Init
  <1>7. Loop!ToSet(<< >>) = {} /\ Len(<< >>) = 0 /\ << >> \in Seq(Keys)
    BY DEF Loop!ToSet
  <1>8. Cardinality(keys) \in Nat
    BY <1>1, KeysFinite DEF LoopFixed
  <1>9. InTurns
    BY <1>6 DEF InTurns
  <1> QED
    BY <1>1, <1>3, <1>5, <1>6, <1>7, <1>8, <1>9 DEF LoopInv, SeenIs, LoopEnded

\* What a round adds to the list of what was seen.
LEMMA SeenMore ==
  ASSUME seen \in Seq(Keys), Keys \subseteq Int, InTurns, forward \in BOOLEAN, NEW k \in Keys,
         \A j \in Loop!ToSet(seen) : IF forward THEN j < k ELSE j > k
  PROVE  LET more == Append(seen, k) IN
         /\ more \in Seq(Keys) /\ Len(more) = Len(seen) + 1
              /\ Loop!ToSet(more) = Loop!ToSet(seen) \cup {k}
         /\ \A i, j \in 1 .. Len(more) : i < j
              => IF forward THEN more[i] < more[j] ELSE more[i] > more[j]
  <1> DEFINE more == Append(seen, k)
  <1>1. more \in Seq(Keys) /\ Len(more) = Len(seen) + 1 /\ Len(seen) \in Nat
    OBVIOUS
  <1>2. \A i \in 1 .. Len(seen) : more[i] = seen[i] /\ seen[i] \in Loop!ToSet(seen)
      /\ seen[i] \in Int
    <2>1. \A i \in 1 .. Len(seen) : more[i] = seen[i] /\ seen[i] \in Int
      <3>1. \A i \in 1 .. Len(seen) : more[i] = seen[i]
        OBVIOUS
      <3>2. \A i \in 1 .. Len(seen) : seen[i] \in Keys
        OBVIOUS
      <3> QED
        BY <3>1, <3>2
    <2>2. \A i \in 1 .. Len(seen) : seen[i] \in Loop!ToSet(seen)
      BY DEF Loop!ToSet
    <2> QED
      BY <2>1, <2>2
  <1>3. more[Len(seen) + 1] = k
    OBVIOUS
  <1>4. Loop!ToSet(more) = Loop!ToSet(seen) \cup {k}
    <2>1. DOMAIN more = 1 .. Len(seen) + 1 /\ DOMAIN seen = 1 .. Len(seen)
      BY <1>1
    <2> HIDE DEF more
    <2>2. 1 .. Len(seen) + 1 = (1 .. Len(seen)) \cup {Len(seen) + 1}
      BY <1>1
    <2> QED
      BY <1>2, <1>3, <2>1, <2>2 DEF Loop!ToSet
  <1> HIDE DEF more
  <1>5. ASSUME NEW i \in 1 .. Len(more), NEW j \in 1 .. Len(more), i < j
        PROVE  IF forward THEN more[i] < more[j] ELSE more[i] > more[j]
    <2>1. i \in 1 .. Len(seen)
      BY <1>1, <1>5
    <2>2. CASE j \in 1 .. Len(seen)
      BY <1>2, <1>5, <2>1, <2>2 DEF InTurns
    <2>3. CASE j = Len(seen) + 1
      BY <1>2, <1>3, <2>1, <2>3
    <2> QED
      BY <1>1, <2>2, <2>3
  <1> QED
    BY <1>1, <1>4, <1>5 DEF more

\* A round, to the next entry or back to the one before.
LEMMA RoundAhead ==
  ASSUME Loop!KeysAssumption, Loop!PositionAssumption, LoopInv, forward, holds,
         it.current \in keys,
         seen' = Append(seen, it.current),
         it' = [it EXCEPT !.current = Loop!Increment(it.current)],
         UNCHANGED <<keys, holds, forward, assigned, stop>>, loop' = loop
  PROVE  IteratorIs' /\ SeenIs'
  <1> DEFINE c == it.current
             n == Loop!Increment(c)
             K == {j \in keys : j > c}
  <1>1. keys \subseteq Keys /\ Keys \subseteq Int /\ c \in Int /\ c # PastEnd /\ PastEnd \notin Keys
    BY DEF LoopInv, LoopFixed, Loop!KeysAssumption, Loop!PositionAssumption
  <1>2. (K = {} => n = PastEnd) /\ (K # {} => n \in K /\ \A j \in K : n <= j)
    <2>1. K \in SUBSET keys
      OBVIOUS
    <2> QED
      BY <1>1, <2>1, LowestOrEnd DEF Loop!Increment
  <1>3. it'.current = n /\ it'.isNull = it.isNull
    BY DEF LoopInv, IteratorIs
  <1>4. IteratorIs'
    <2>1. n \in keys \cup {PastEnd}
      BY <1>2
    <2> QED
      BY <1>3, <2>1 DEF LoopInv, IteratorIs
  <1>5. Onward' = Onward \ {c} /\ c \in Onward
    <2>1. Onward = {k \in keys : k >= c}
      BY <1>1 DEF Onward
    <2>2. Onward' = {k \in keys : n # PastEnd /\ k >= n}
      BY <1>3 DEF Onward
    <2>3. \A k \in keys : (n # PastEnd /\ k >= n) <=> (k >= c /\ k # c)
      BY <1>1, <1>2
    <2> HIDE DEF n, c
    <2> QED
      BY <1>1, <2>1, <2>2, <2>3 DEF c
  <1>6. Unvisited' = Unvisited \ {c} /\ c \in Unvisited /\ Visited' = Visited \cup {c}
    BY <1>5 DEF Unvisited, Visited, Onward
  <1>7. Cardinality(Unvisited') = Cardinality(Unvisited) - 1 /\ Cardinality(Unvisited) \in Nat
    <2>1. Unvisited \in SUBSET keys
      BY DEF Unvisited, Onward
    <2>2. IsFiniteSet(Unvisited) /\ Cardinality(Unvisited) \in Nat
      BY <1>1, <2>1, KeysFinite
    <2> QED
      BY <1>6, <2>2, FS_RemoveElement
  <1>8. \A j \in Loop!ToSet(seen) : j < c
    BY <1>1 DEF LoopInv, SeenIs, Visited, Onward
  <1>9. /\ seen' \in Seq(Keys) /\ Len(seen') = Len(seen) + 1
        /\ Loop!ToSet(seen') = Loop!ToSet(seen) \cup {c} /\ InTurns'
    BY <1>1, <1>8, SeenMore DEF LoopInv, LoopFixed, SeenIs, InTurns
  <1>10. Loop!ToSet(seen) = Visited /\ Len(seen) + Cardinality(Unvisited) = Cardinality(keys)
         /\ Len(seen) \in Nat
    BY DEF LoopInv, SeenIs
  <1>11. Cardinality(keys) \in Nat
    BY <1>1, KeysFinite
  <1>12. SeenIs'
    <2>1. Loop!ToSet(seen') = Visited'
      BY <1>6, <1>9, <1>10
    <2>2. Len(seen') + Cardinality(Unvisited') = Cardinality(keys)
      BY <1>7, <1>9, <1>10
    <2> QED
      BY <1>9, <2>1, <2>2 DEF SeenIs
  <1> QED
    BY <1>4, <1>12

LEMMA RoundBack ==
  ASSUME Loop!KeysAssumption, Loop!PositionAssumption, LoopInv, ~forward, holds,
         it.current # Loop!Lowest(keys),
         seen' = Append(seen, Loop!Decrement(it.current)),
         it' = [it EXCEPT !.current = Loop!Decrement(it.current)],
         UNCHANGED <<keys, holds, forward, assigned, stop>>, loop' = loop
  PROVE  IteratorIs' /\ SeenIs'
  <1> DEFINE c == it.current
             K == IF c = PastEnd THEN keys ELSE {j \in keys : j < c}
             n == Loop!Decrement(c)
  <1>1. /\ keys \subseteq Keys /\ Keys \subseteq Int /\ PastEnd \notin Keys
        /\ c \in keys \cup {PastEnd}
    BY DEF LoopInv, LoopFixed, IteratorIs, Loop!KeysAssumption, Loop!PositionAssumption
  <1>2. keys # {} /\ Loop!Lowest(keys) \in keys /\ \A j \in keys : Loop!Lowest(keys) <= j
    <2>1. keys # {}
      BY <1>1 DEF Loop!Lowest
    <2> QED
      BY <1>1, <2>1, LowestOrEnd
  <1>3. K # {} /\ K \in SUBSET keys
    <2>1. CASE c = PastEnd
      BY <1>2, <2>1
    <2>2. CASE c # PastEnd
      <3>1. Loop!Lowest(keys) \in K
        BY <1>1, <1>2, <2>2
      <3> QED
        BY <2>2, <3>1
    <2> QED
      BY <2>1, <2>2
  <1>4. n \in K /\ \A j \in K : j <= n
    BY <1>1, <1>3, KeysFinite, TopIs DEF Loop!Decrement
  <1>5. it'.current = n /\ it'.isNull = it.isNull
    BY DEF LoopInv, IteratorIs
  <1>6. IteratorIs'
    <2>1. n \in keys
      BY <1>3, <1>4
    <2> QED
      BY <1>5, <2>1 DEF LoopInv, IteratorIs
  <1>7. Onward' = Onward \cup {n} /\ n \notin Onward /\ n \in keys /\ \A j \in Onward : j > n
    <2>0. n \in keys /\ n # PastEnd
      BY <1>1, <1>3, <1>4
    <2>1. Onward = {k \in keys : c # PastEnd /\ k >= c}
      BY DEF Onward
    <2>2. Onward' = {k \in keys : n # PastEnd /\ k >= n}
      BY <1>5 DEF Onward
    <2>3. \A k \in keys : k >= n <=> ((c # PastEnd /\ k >= c) \/ k = n)
      BY <1>1, <1>4, <2>0
    <2>4. \A k \in keys : c # PastEnd /\ k >= c => k > n
      BY <1>1, <1>4, <2>0
    <2> HIDE DEF n, c
    <2> QED
      BY <1>1, <2>0, <2>1, <2>2, <2>3, <2>4
  <1> HIDE DEF n, K
  <1>8. Unvisited' = Unvisited \ {n} /\ n \in Unvisited /\ Visited' = Visited \cup {n}
    BY <1>7 DEF Unvisited, Visited
  <1>9. Cardinality(Unvisited') = Cardinality(Unvisited) - 1 /\ Cardinality(Unvisited) \in Nat
    <2>1. Unvisited \in SUBSET keys
      BY DEF Unvisited, Onward
    <2>2. IsFiniteSet(Unvisited) /\ Cardinality(Unvisited) \in Nat
      BY <1>1, <2>1, KeysFinite
    <2> QED
      BY <1>8, <2>2, FS_RemoveElement
  <1>10. Loop!ToSet(seen) = Visited /\ Len(seen) + Cardinality(Unvisited) = Cardinality(keys)
         /\ Len(seen) \in Nat
    BY DEF LoopInv, SeenIs
  <1>11. \A j \in Loop!ToSet(seen) : j > n
    BY <1>7, <1>10 DEF Visited
  <1>12. /\ seen' \in Seq(Keys) /\ Len(seen') = Len(seen) + 1
         /\ Loop!ToSet(seen') = Loop!ToSet(seen) \cup {n} /\ InTurns'
    BY <1>1, <1>7, <1>11, SeenMore DEF LoopInv, LoopFixed, SeenIs, InTurns, n
  <1>13. Cardinality(keys) \in Nat
    BY <1>1, KeysFinite
  <1>14. SeenIs'
    <2>1. Loop!ToSet(seen') = Visited'
      BY <1>8, <1>10, <1>12
    <2>2. Len(seen') + Cardinality(Unvisited') = Cardinality(keys)
      BY <1>9, <1>10, <1>12, <1>13
    <2> QED
      BY <1>12, <2>1, <2>2 DEF SeenIs
  <1> QED
    BY <1>6, <1>14

LEMMA IsNullIs ==
  ASSUME LoopInv
  PROVE  /\ it.isNull \in BOOLEAN
         /\ holds /\ ~assigned => it.isNull = FALSE
         /\ ~holds => it.isNull = TRUE
  <1> DEFINE b == assigned \/ ~holds
  <1>1. it.isNull = b
    BY DEF LoopInv, IteratorIs
  <1>2. b \in BOOLEAN /\ (holds /\ ~assigned => b = FALSE) /\ (~holds => b = TRUE)
    BY DEF LoopInv, LoopFixed
  <1> HIDE DEF b
  <1> QED
    BY <1>1, <1>2

LEMMA LoopNext ==
  ASSUME Loop!KeysAssumption, Loop!PositionAssumption, LoopInv, [Loop!Next]_(Loop!vars)
  PROVE  LoopInv'
  <1>1. CASE UNCHANGED Loop!vars
    BY <1>1 DEF Loop!vars, LoopInv, LoopFixed, IteratorIs, SeenIs, LoopEnded, InTurns, Visited,
        Unvisited, Onward,
       Loop!EndOf, Loop!BeginOf
  <1>2. CASE Loop!Leave
    <2>1. UNCHANGED <<keys, holds, forward, assigned, it, stop, seen>> /\ loop' = "done"
      BY <1>2 DEF Loop!Leave
    <2>2. LoopFixed' /\ IteratorIs' /\ SeenIs'
      BY <2>1 DEF LoopInv, LoopFixed, IteratorIs, SeenIs, InTurns, Visited, Unvisited, Onward,
          Loop!EndOf, Loop!BeginOf
    <2>3. Loop!ToSet(seen) = keys
      <3>1. CASE ~holds
        BY <3>1 DEF LoopInv, SeenIs, LoopFixed
      <3>2. CASE holds
        <4>1. ~it.isNull /\ it.current = stop.current
          <5>1. Loop!IsEqual(it, stop) /\ stop.isNull = FALSE
            BY <1>2, <3>2 DEF Loop!Leave, LoopInv, LoopFixed, Loop!EndOf, Loop!BeginOf, Loop!At
          <5> QED
            BY <5>1 DEF Loop!IsEqual
        <4>2. CASE forward
          BY <3>2, <4>1, <4>2 DEF LoopInv, LoopFixed, SeenIs, Visited, Onward, Loop!EndOf, Loop!At
        <4>3. CASE ~forward
          <5>1. it.current = Loop!Lowest(keys)
            BY <3>2, <4>1, <4>3 DEF LoopInv, LoopFixed, Loop!BeginOf, Loop!At
          <5>2. Onward = keys
            <6>1. keys # {} => Loop!Lowest(keys) \in keys /\ \A j \in keys : Loop!Lowest(keys) <= j
              BY LowestOrEnd DEF LoopInv, LoopFixed
            <6> QED
              BY <5>1, <6>1 DEF Onward, LoopInv, LoopFixed, Loop!KeysAssumption,
                  Loop!PositionAssumption
          <5> QED
            BY <3>2, <4>3, <5>2 DEF LoopInv, SeenIs, Visited
        <4> QED
          BY <4>2, <4>3
      <3> QED
        BY <3>1, <3>2 DEF LoopInv, LoopFixed
    <2> QED
      BY <2>1, <2>2, <2>3 DEF LoopInv, LoopEnded
  <1>3. CASE Loop!Round
    <2>1. UNCHANGED <<keys, holds, forward, assigned, stop>> /\ loop = "loop"
        /\ ~Loop!IsEqual(it, stop)
      BY <1>3 DEF Loop!Round
    <2>2. LoopFixed'
      BY <2>1 DEF LoopInv, LoopFixed, Loop!EndOf, Loop!BeginOf
    <2>3. holds
      <3> SUFFICES ASSUME ~holds PROVE FALSE
        OBVIOUS
      <3> QED
        BY <2>1 DEF LoopInv, LoopFixed, IteratorIs, Loop!IsEqual, Loop!EndOf, Loop!BeginOf,
            Loop!DefaultIterator
    <2>4. keys # {} => Loop!Lowest(keys) \in keys /\ \A j \in keys : Loop!Lowest(keys) <= j
      BY LowestOrEnd DEF LoopInv, LoopFixed
    <2>5. CASE Loop!Undefined
      <3>1. UNCHANGED <<it, seen>> /\ loop' = "undefined"
        BY <1>3, <2>5 DEF Loop!Round
      <3>2. IteratorIs' /\ SeenIs'
        BY <2>1, <3>1 DEF LoopInv, IteratorIs, SeenIs, InTurns, Visited, Unvisited, Onward
      <3>3. it.current # Nowhere
        BY <2>3 DEF LoopInv, LoopFixed, IteratorIs, Loop!KeysAssumption, Loop!PositionAssumption
      <3>4. Visited = keys /\ it.current = stop.current
        <4>1. CASE forward
          BY <2>3, <2>5, <3>3, <4>1 DEF Loop!Undefined, Visited, Onward, LoopInv, LoopFixed,
              Loop!EndOf, Loop!At
        <4>2. CASE ~forward
          <5>1. it.current = Loop!Lowest(keys)
            BY <2>5, <3>3, <4>2 DEF Loop!Undefined
          <5>2. Onward = keys
            BY <2>4, <5>1 DEF Onward, LoopInv, LoopFixed, Loop!KeysAssumption,
                Loop!PositionAssumption
          <5> QED
            BY <2>3, <4>2, <5>1, <5>2 DEF Visited, LoopInv, LoopFixed, Loop!BeginOf, Loop!At
        <4> QED
          BY <4>1, <4>2
      <3>5. assigned
        <4> SUFFICES ASSUME ~assigned PROVE FALSE
          OBVIOUS
        <4>1. it.isNull = FALSE
          BY <2>3, IsNullIs
        <4> QED
          BY <2>1, <3>4, <4>1 DEF Loop!IsEqual
      <3>6. Loop!ToSet(seen) = keys
        BY <2>3, <3>4 DEF LoopInv, SeenIs
      <3> QED
        BY <2>1, <2>2, <2>3, <3>1, <3>2, <3>5, <3>6 DEF LoopInv, LoopEnded
    <2>6. CASE ~Loop!Undefined
      <3>1. /\ it' = [it EXCEPT !.current = IF forward THEN Loop!Increment(it.current) ELSE Loop!Decrement(it.current)]
            /\ seen' = Append(seen, IF forward THEN it.current ELSE Loop!Decrement(it.current))
            /\ loop' = loop
        BY <1>3, <2>6 DEF Loop!Round
      <3>2. IteratorIs' /\ SeenIs'
        <4>1. CASE forward
          <5>1. it.current \in keys
            BY <2>3, <2>6, <4>1 DEF Loop!Undefined, LoopInv, IteratorIs
          <5> QED
            BY <2>1, <2>3, <3>1, <4>1, <5>1, RoundAhead
        <4>2. CASE ~forward
          <5>1. it.current # Loop!Lowest(keys)
            BY <2>6, <4>2 DEF Loop!Undefined
          <5> QED
            BY <2>1, <2>3, <3>1, <4>2, <5>1, RoundBack
        <4> QED
          BY <4>1, <4>2
      <3> QED
        BY <2>1, <2>2, <3>1, <3>2 DEF LoopInv, LoopEnded
    <2> QED
      BY <2>5, <2>6
  <1> QED
    BY <1>1, <1>2, <1>3 DEF Loop!Next

\* What the loop still has to do is what operator- counts.
LEMMA LeftIs ==
  ASSUME Loop!KeysAssumption, Loop!PositionAssumption, LoopInv, loop = "loop", ~(assigned /\ holds)
  PROVE  Cardinality(Unvisited) =
         IF forward THEN Loop!Distance(it, stop) ELSE Loop!Distance(stop, it)
  <1>1. CASE ~holds
    <2>1. it.isNull /\ stop.isNull
      <3>1. it.isNull
        BY <1>1, IsNullIs
      <3>2. stop.isNull
        BY <1>1 DEF LoopInv, LoopFixed, Loop!EndOf, Loop!BeginOf, Loop!DefaultIterator
      <3> QED
        BY <3>1, <3>2
    <2>2. Unvisited = {}
      BY <1>1 DEF LoopInv, LoopFixed, Unvisited, Onward
    <2> QED
      BY <2>1, <2>2, FS_EmptySet DEF Loop!Distance
  <1>2. CASE holds
    <2>1. it.isNull = FALSE
      BY <1>2, IsNullIs
    <2>2. CASE forward
      <3>1. Loop!Distance(it, stop) = Loop!Cardinality(Unvisited)
        BY <1>2, <2>1, <2>2 DEF Loop!Distance, LoopInv, LoopFixed, Loop!EndOf, Loop!At,
            Unvisited, Onward
      <3> QED
        BY <2>2, <3>1, SameNames
    <2>3. CASE ~forward
      <3>1. keys # {} => Loop!Lowest(keys) \in keys /\ \A j \in keys : Loop!Lowest(keys) <= j
        BY LowestOrEnd DEF LoopInv, LoopFixed
      <3>2. stop = [current |-> Loop!Lowest(keys), isNull |-> FALSE]
        BY <1>2, <2>3 DEF LoopInv, LoopFixed, Loop!BeginOf, Loop!At
      <3> DEFINE S == {k \in keys : (stop.current # PastEnd /\ k >= stop.current)
                                    /\ (it.current = PastEnd \/ k < it.current)}
      <3>3. Loop!Distance(stop, it) = Loop!Cardinality(S)
        BY <2>1, <3>2 DEF Loop!Distance
      <3>4. \A k \in keys : /\ stop.current # PastEnd /\ k >= stop.current
                            /\ (it.current = PastEnd \/ k < it.current)
                                 <=> ~(it.current # PastEnd /\ k >= it.current)
        BY <1>2, <3>1, <3>2 DEF LoopInv, LoopFixed, IteratorIs, Loop!KeysAssumption,
            Loop!PositionAssumption
      <3>5. S = Unvisited
        BY <2>3, <3>4 DEF Unvisited, Onward
      <3> QED
        BY <2>3, <3>3, <3>5, SameNames
    <2> QED
      BY <2>2, <2>3
  <1> QED
    BY <1>1, <1>2 DEF LoopInv, LoopFixed

\* Any finite container: the loop visits each entry once, in order, and what is
\* left of it is the distance to its end (json_valueiterator.inl).
THEOREM LoopRight == ValuesSpec => [](Loop!TypeOK /\ Loop!VisitsAll /\ Loop!CountsDown)
  <1>0. Loop!KeysAssumption /\ Loop!PositionAssumption
    BY ValuesAssumption
  <1>1. ValuesInit => LoopInv
    BY <1>0, LoopInit DEF ValuesInit
  <1>2. LoopInv /\ [NextValues]_<<part, values>> => LoopInv'
    <2>1. [NextValues]_<<part, values>> => [Loop!Next]_(Loop!vars)
      BY DEF NextValues, NextContainer, NextLoop, Loops, NextOwner, values, iterator, Loop!vars
    <2> QED
      BY <1>0, <2>1, LoopNext
  <1>3. LoopInv => Loop!TypeOK /\ Loop!VisitsAll /\ Loop!CountsDown
    <2> SUFFICES ASSUME LoopInv PROVE Loop!TypeOK /\ Loop!VisitsAll /\ Loop!CountsDown
      OBVIOUS
    <2>1. Loop!TypeOK
      <3>1. stop.current \in Keys \cup {PastEnd, Nowhere} /\ stop.isNull \in BOOLEAN
        <4>1. Loop!Lowest(keys) \in keys \cup {PastEnd}
          BY <1>0, LowestOrEnd DEF LoopInv, LoopFixed
        <4> QED
          BY <4>1 DEF LoopInv, LoopFixed, Loop!EndOf, Loop!BeginOf, Loop!At, Loop!DefaultIterator
      <3>2. it.current \in Keys \cup {PastEnd, Nowhere} /\ it.isNull \in BOOLEAN
        <4>1. it.current \in Keys \cup {PastEnd, Nowhere}
          BY DEF LoopInv, LoopFixed, IteratorIs
        <4> QED
          BY <4>1, IsNullIs
      <3>3. Loop!ToSet(seen) \subseteq Keys
        BY DEF LoopInv, LoopFixed, SeenIs, Visited, Onward
      <3> QED
        BY <3>1, <3>2, <3>3 DEF Loop!TypeOK, LoopInv, LoopEnded
    <2>2. Loop!VisitsAll
      BY DEF Loop!VisitsAll, LoopInv, LoopEnded, SeenIs, InTurns
    <2>3. Loop!CountsDown
      <3> SUFFICES ASSUME loop = "loop", ~(assigned /\ holds)
                   PROVE  Loop!Cardinality(keys) - Len(seen)
                            = IF forward THEN Loop!Distance(it, stop) ELSE Loop!Distance(stop, it)
        BY DEF Loop!CountsDown
      <3>1. Len(seen) + Cardinality(Unvisited) = Cardinality(keys) /\ Len(seen) \in Nat
        BY DEF LoopInv, SeenIs
      <3>2. Unvisited \in SUBSET keys /\ keys \subseteq Keys
        BY DEF Unvisited, Onward, LoopInv, LoopFixed
      <3>3. Cardinality(Unvisited) \in Nat /\ Cardinality(keys) \in Nat
        BY <1>0, <3>2, KeysFinite
      <3>4. Cardinality(Unvisited) =
             IF forward THEN Loop!Distance(it, stop) ELSE Loop!Distance(stop, it)
        BY <1>0, LeftIs
      <3>5. Loop!Cardinality(keys) = Cardinality(keys)
        BY SameNames
      <3> QED
        BY <3>1, <3>3, <3>4, <3>5
    <2> QED
      BY <2>1, <2>2, <2>3
  <1> QED
    BY <1>1, <1>2, <1>3, PTL DEF ValuesSpec

-----------------------------------------------------------------------------
(* The order of Values *)

\* less orders the members of S strictly, and any two of them.
Ordered(less, S) ==
    /\ \A a \in S : ~less[<<a, a>>]
    /\ \A a, b \in S : a # b => (less[<<a, b>>] <=> ~less[<<b, a>>])
    /\ \A a, b, c \in S : less[<<a, b>>] /\ less[<<b, c>>] => less[<<a, c>>]

\* Maps from integers to E, as containers have them.
MapsTo(E) == UNION {[K -> E] : K \in {L \in SUBSET Int : IsFiniteSet(L)}}

\* Two maps have the same entry for a key, or none.
SameAt(a, b, k) ==
    /\ k \in DOMAIN a <=> k \in DOMAIN b
    /\ k \in DOMAIN a => a[k] = b[k]

\* What the pair decides that differs first, at k.
LessAt(less, a, b, k) ==
    IF k \in DOMAIN a \cap DOMAIN b THEN less[<<a[k], b[k]>>]
    ELSE IF k \in DOMAIN a THEN \E j \in DOMAIN b : j > k
    ELSE ~\E j \in DOMAIN a : j > k

FirstDiffers(a, b, k) ==
    /\ k \in Int /\ ~SameAt(a, b, k)
    /\ \A j \in Int : j < k => SameAt(a, b, j)

LEMMA MapIs ==
  ASSUME NEW E, NEW a \in MapsTo(E)
  PROVE  /\ DOMAIN a \in SUBSET Int /\ IsFiniteSet(DOMAIN a)
         /\ \A k \in DOMAIN a : a[k] \in E
         /\ a = [k \in DOMAIN a |-> a[k]]
  BY DEF MapsTo

LEMMA SameMap ==
  ASSUME NEW E, NEW a \in MapsTo(E), NEW b \in MapsTo(E), \A k \in Int : SameAt(a, b, k)
  PROVE  a = b
  <1>1. DOMAIN a = DOMAIN b /\ \A k \in DOMAIN a : a[k] = b[k]
    BY MapIs DEF SameAt
  <1> QED
    BY <1>1, MapIs

LEMMA FirstExists ==
  ASSUME NEW E, NEW a \in MapsTo(E), NEW b \in MapsTo(E), a # b
  PROVE  \E k : FirstDiffers(a, b, k)
  <1> DEFINE D == {k \in DOMAIN a \cup DOMAIN b : ~SameAt(a, b, k)}
  <1>1. DOMAIN a \cup DOMAIN b \in SUBSET Int /\ IsFiniteSet(DOMAIN a \cup DOMAIN b)
    BY MapIs, FS_Union
  <1>2. D \in SUBSET Int /\ IsFiniteSet(D)
    BY <1>1, FS_Subset
  <1>3. D # {}
    <2>1. PICK k \in Int : ~SameAt(a, b, k)
      BY SameMap
    <2>2. k \in D
      BY <2>1 DEF SameAt
    <2> QED
      BY <2>2
  <1>4. PICK k \in D : \A j \in D : k <= j
    BY <1>2, <1>3, EndsOf
  <1>5. ASSUME NEW j \in Int, j < k PROVE SameAt(a, b, j)
    <2>1. j \notin D
      BY <1>2, <1>4, <1>5
    <2> QED
      BY <2>1 DEF SameAt
  <1> QED
    BY <1>2, <1>4, <1>5 DEF FirstDiffers

LEMMA FirstIsOne ==
  ASSUME NEW a, NEW b, NEW k, NEW j, FirstDiffers(a, b, k), FirstDiffers(a, b, j)
  PROVE  k = j
  BY DEF FirstDiffers

LEMMA FirstBoth ==
  ASSUME NEW a, NEW b, NEW k, FirstDiffers(a, b, k)
  PROVE  FirstDiffers(b, a, k)
  BY DEF FirstDiffers, SameAt

\* operator< of std::map, where it is asked of maps that differ.
LEMMA MapLessAt ==
  ASSUME NEW E, NEW less, Ordered(less, E), NEW a \in MapsTo(E), NEW b \in MapsTo(E),
         NEW k, FirstDiffers(a, b, k)
  PROVE  Order!MapLess(less, a, b) <=> LessAt(less, a, b, k)
  <1> DEFINE differs(j) == j \in DOMAIN a \cap DOMAIN b => less[<<a[j], b[j]>>]
                 \/ less[<<b[j], a[j]>>]
             D == {j \in DOMAIN a \cup DOMAIN b : differs(j)}
  <1>1. DOMAIN a \cup DOMAIN b \in SUBSET Int
    BY MapIs
  <1>2. \A j \in DOMAIN a \cup DOMAIN b : differs(j) <=> ~SameAt(a, b, j)
    <2> TAKE j \in DOMAIN a \cup DOMAIN b
    <2>1. CASE j \in DOMAIN a \cap DOMAIN b
      <3>1. a[j] \in E /\ b[j] \in E
        BY <2>1, MapIs
      <3> QED
        BY <2>1, <3>1 DEF SameAt, Ordered
    <2>2. CASE j \notin DOMAIN a \cap DOMAIN b
      BY <2>2 DEF SameAt
    <2> QED
      BY <2>1, <2>2
  <1>3. k \in D
    BY <1>2 DEF FirstDiffers, SameAt
  <1>4. \A j \in D : k <= j
    BY <1>1, <1>2 DEF FirstDiffers
  <1>5. Order!First(D) = k
    <2>1. \A j \in D : j \in Int
      BY <1>1
    <2> HIDE DEF D
    <2> QED
      BY <1>3, <1>4, <2>1 DEF Order!First
  <1>6. Order!MapLess(less, a, b) <=> D # {} /\ LessAt(less, a, b, Order!First(D))
    BY Zenon DEF Order!MapLess, LessAt
  <1> HIDE DEF D
  <1> QED
    BY <1>3, <1>5, <1>6

LEMMA MapLessSame ==
  ASSUME NEW E, NEW less, Ordered(less, E), NEW a \in MapsTo(E)
  PROVE  ~Order!MapLess(less, a, a)
  <1>1. \A j \in DOMAIN a : ~less[<<a[j], a[j]>>]
    BY MapIs DEF Ordered
  <1> QED
    BY <1>1 DEF Order!MapLess

LEMMA MapLessOne ==
  ASSUME NEW E, NEW less, Ordered(less, E), NEW a \in MapsTo(E), NEW b \in MapsTo(E), a # b
  PROVE  Order!MapLess(less, a, b) <=> ~Order!MapLess(less, b, a)
  <1>1. PICK k : FirstDiffers(a, b, k)
    BY FirstExists
  <1>2. FirstDiffers(b, a, k)
    BY <1>1, FirstBoth
  <1>3. LessAt(less, a, b, k) <=> ~LessAt(less, b, a, k)
    <2>1. CASE k \in DOMAIN a \cap DOMAIN b
      <3>1. a[k] \in E /\ b[k] \in E /\ a[k] # b[k]
        BY <1>1, <2>1, MapIs DEF FirstDiffers, SameAt
      <3> QED
        BY <2>1, <3>1 DEF LessAt, Ordered
    <2>2. CASE k \notin DOMAIN a \cap DOMAIN b
      <3>1. k \in DOMAIN a \cup DOMAIN b
        BY <1>1 DEF FirstDiffers, SameAt
      <3> QED
        BY <2>2, <3>1 DEF LessAt
    <2> QED
      BY <2>1, <2>2
  <1> QED
    BY <1>1, <1>2, <1>3, MapLessAt

LEMMA MapLessOn ==
  ASSUME NEW E, NEW less, Ordered(less, E), NEW a \in MapsTo(E), NEW b \in MapsTo(E),
      NEW c \in MapsTo(E),
         Order!MapLess(less, a, b), Order!MapLess(less, b, c)
  PROVE  Order!MapLess(less, a, c)
  <1>1. a # b /\ b # c
    BY MapLessSame
  <1>2. PICK k : FirstDiffers(a, b, k)
    BY <1>1, FirstExists
  <1>3. PICK l : FirstDiffers(b, c, l)
    BY <1>1, FirstExists
  <1>4. LessAt(less, a, b, k) /\ LessAt(less, b, c, l)
    BY <1>2, <1>3, MapLessAt
  <1>5. /\ DOMAIN a \in SUBSET Int /\ DOMAIN b \in SUBSET Int /\ DOMAIN c \in SUBSET Int
        /\ k \in Int /\ l \in Int
    BY <1>2, <1>3, MapIs DEF FirstDiffers
  <1>6. CASE k < l
    <2>1. \A j \in Int : j <= k => SameAt(b, c, j)
      BY <1>3, <1>5, <1>6 DEF FirstDiffers
    <2>2. FirstDiffers(a, c, k)
      BY <1>2, <1>5, <2>1 DEF FirstDiffers, SameAt
    <2>3. LessAt(less, a, c, k)
      <3>1. CASE k \in DOMAIN b
        <4>1. k \in DOMAIN c /\ c[k] = b[k]
          BY <1>5, <2>1, <3>1 DEF SameAt
        <4> QED
          BY <1>4, <3>1, <4>1 DEF LessAt
      <3>2. CASE k \notin DOMAIN b
        <4>1. k \in DOMAIN a /\ k \notin DOMAIN c
          BY <1>2, <1>5, <2>1, <3>2 DEF SameAt, FirstDiffers
        <4>2. PICK j \in DOMAIN b : j > k
          BY <1>4, <3>2, <4>1 DEF LessAt
        <4>3. \E i \in DOMAIN c : i > k
          <5>1. CASE j < l
            BY <1>3, <1>5, <4>2, <5>1 DEF FirstDiffers, SameAt
          <5>2. CASE l \in DOMAIN c
            BY <1>6, <5>2
          <5>3. CASE ~(j < l) /\ l \notin DOMAIN c
            <6>1. l \in DOMAIN b
              BY <1>3, <5>3 DEF FirstDiffers, SameAt
            <6>2. PICK i \in DOMAIN c : i > l
              BY <1>4, <5>3, <6>1 DEF LessAt
            <6> QED
              BY <1>5, <1>6, <6>2
          <5> QED
            BY <5>1, <5>2, <5>3
        <4> QED
          BY <4>1, <4>3 DEF LessAt
      <3> QED
        BY <3>1, <3>2
    <2> QED
      BY <2>2, <2>3, MapLessAt
  <1>7. CASE l < k
    <2>1. \A j \in Int : j <= l => SameAt(a, b, j)
      BY <1>2, <1>5, <1>7 DEF FirstDiffers
    <2>2. FirstDiffers(a, c, l)
      BY <1>3, <1>5, <2>1 DEF FirstDiffers, SameAt
    <2>3. LessAt(less, a, c, l)
      <3>1. CASE l \in DOMAIN b
        <4>1. l \in DOMAIN a /\ a[l] = b[l]
          BY <1>5, <2>1, <3>1 DEF SameAt
        <4> QED
          BY <1>4, <3>1, <4>1 DEF LessAt
      <3>2. CASE l \notin DOMAIN b
        <4>1. l \notin DOMAIN a /\ l \in DOMAIN c
          BY <1>3, <1>5, <2>1, <3>2 DEF SameAt, FirstDiffers
        <4>2. \A j \in DOMAIN b : ~(j > l)
          BY <1>4, <3>2, <4>1 DEF LessAt
        <4>3. ASSUME NEW i \in DOMAIN a, i > l PROVE FALSE
          <5>1. k \notin DOMAIN b
            BY <1>5, <1>7, <4>2
          <5>2. k \in DOMAIN a
            BY <1>2, <5>1 DEF FirstDiffers, SameAt
          <5>3. PICK j \in DOMAIN b : j > k
            BY <1>4, <5>1, <5>2 DEF LessAt
          <5> QED
            BY <1>5, <1>7, <4>2, <5>3
        <4> QED
          BY <4>1, <4>3 DEF LessAt
      <3> QED
        BY <3>1, <3>2
    <2> QED
      BY <2>2, <2>3, MapLessAt
  <1>8. CASE k = l
    <2>1. \A j \in Int : j < k => SameAt(a, c, j)
      BY <1>2, <1>3, <1>8 DEF FirstDiffers, SameAt
    <2>2. k \in DOMAIN b
      <3> SUFFICES ASSUME k \notin DOMAIN b PROVE FALSE
        OBVIOUS
      <3>1. k \in DOMAIN a /\ k \in DOMAIN c
        BY <1>2, <1>3, <1>8 DEF FirstDiffers, SameAt
      <3> QED
        BY <1>4, <1>8, <3>1 DEF LessAt
    <2>3. CASE k \in DOMAIN a \cap DOMAIN c
      <3>1. a[k] \in E /\ b[k] \in E /\ c[k] \in E
        BY <2>2, <2>3, MapIs
      <3>2. less[<<a[k], b[k]>>] /\ less[<<b[k], c[k]>>]
        BY <1>4, <1>8, <2>2, <2>3 DEF LessAt
      <3>3. less[<<a[k], c[k]>>] /\ a[k] # c[k]
        BY <3>1, <3>2 DEF Ordered
      <3>4. FirstDiffers(a, c, k) /\ LessAt(less, a, c, k)
        BY <1>5, <2>1, <2>3, <3>3 DEF FirstDiffers, SameAt, LessAt
      <3> QED
        BY <3>4, MapLessAt
    <2>4. CASE k \in DOMAIN a /\ k \notin DOMAIN c
      <3>1. \E j \in DOMAIN c : j > k
        BY <1>4, <1>8, <2>2, <2>4 DEF LessAt
      <3>2. FirstDiffers(a, c, k) /\ LessAt(less, a, c, k)
        BY <1>5, <2>1, <2>4, <3>1 DEF FirstDiffers, SameAt, LessAt
      <3> QED
        BY <3>2, MapLessAt
    <2>5. CASE k \notin DOMAIN a
      <3>1. \A j \in DOMAIN a : ~(j > k)
        BY <1>4, <2>2, <2>5 DEF LessAt
      <3>2. CASE k \in DOMAIN c
        <4>1. FirstDiffers(a, c, k) /\ LessAt(less, a, c, k)
          BY <1>5, <2>1, <2>5, <3>1, <3>2 DEF FirstDiffers, SameAt, LessAt
        <4> QED
          BY <4>1, MapLessAt
      <3>3. CASE k \notin DOMAIN c
        <4>1. PICK j \in DOMAIN c : j > k
          BY <1>4, <1>8, <2>2, <3>3 DEF LessAt
        <4>2. a # c
          BY <3>1, <4>1
        <4>3. PICK m : FirstDiffers(a, c, m)
          BY <4>2, FirstExists
        <4>4. m \in Int /\ m > k
          BY <1>5, <2>1, <2>5, <3>3, <4>3 DEF FirstDiffers, SameAt
        <4>5. m \notin DOMAIN a
          BY <3>1, <4>4
        <4>6. \A i \in DOMAIN a : ~(i > m)
          BY <1>5, <3>1, <4>4
        <4>7. LessAt(less, a, c, m)
          BY <4>5, <4>6 DEF LessAt
        <4> QED
          BY <4>3, <4>7, MapLessAt
      <3> QED
        BY <3>2, <3>3
    <2> QED
      BY <2>3, <2>4, <2>5
  <1> QED
    BY <1>5, <1>6, <1>7, <1>8

\* The values whose elements are of E.
Scalars == {"int", "uint", "real", "string", "boolean"}
ValuesOf(E) ==
    {[type |-> "null", n |-> 0]} \cup [type : Scalars, n : Int]
    \cup [type : {"array", "object"}, map : MapsTo(E)]

LEMMA OrderNames ==
  ASSUME NEW S
  PROVE  Order!Cardinality(S) = Cardinality(S)
  BY DEF Order!Cardinality, Cardinality

LEMMA ContainersOrdered ==
  ASSUME NEW E, NEW less, Ordered(less, E),
         NEW a \in [type : {"array", "object"}, map : MapsTo(E)],
         NEW b \in [type : {"array", "object"}, map : MapsTo(E)],
         NEW c \in [type : {"array", "object"}, map : MapsTo(E)]
  PROVE  /\ ~Order!ContainerLess(less, a, a)
         /\ a.map # b.map => (Order!ContainerLess(less, a, b) <=> ~Order!ContainerLess(less, b, a))
         /\ Order!ContainerLess(less, a, b) /\ Order!ContainerLess(less, b, c)
              => Order!ContainerLess(less, a, c)
  <1> DEFINE size(v) == Cardinality(DOMAIN v.map)
  <1>1. a.map \in MapsTo(E) /\ b.map \in MapsTo(E) /\ c.map \in MapsTo(E)
    OBVIOUS
  <1>2. size(a) \in Nat /\ size(b) \in Nat /\ size(c) \in Nat
    BY <1>1, MapIs, FS_CardinalityType
  <1>3. ASSUME NEW v, NEW w, size(v) \in Nat, size(w) \in Nat
        PROVE  Order!ContainerLess(less, v, w)
                 <=> size(v) < size(w) \/ (size(v) = size(w) /\ Order!MapLess(less, v.map, w.map))
    <2>1. Order!ContainerLess(less, v, w) <=>
             IF size(v) - size(w) # 0 THEN size(v) - size(w) < 0
             ELSE Order!MapLess(less, v.map, w.map)
      <3>1. Order!Cardinality(DOMAIN v.map) = size(v) /\ Order!Cardinality(DOMAIN w.map) = size(w)
        BY OrderNames
      <3> QED
        BY <3>1, Zenon DEF Order!ContainerLess
    <2> HIDE DEF size
    <2> QED
      BY <1>3, <2>1
  <1>4. /\ Order!ContainerLess(less, a, b) <=> size(a) < size(b)
             \/ (size(a) = size(b) /\ Order!MapLess(less, a.map, b.map))
        /\ Order!ContainerLess(less, b, a) <=> size(b) < size(a)
             \/ (size(b) = size(a) /\ Order!MapLess(less, b.map, a.map))
        /\ Order!ContainerLess(less, b, c) <=> size(b) < size(c)
             \/ (size(b) = size(c) /\ Order!MapLess(less, b.map, c.map))
        /\ Order!ContainerLess(less, a, c) <=> size(a) < size(c)
             \/ (size(a) = size(c) /\ Order!MapLess(less, a.map, c.map))
        /\ Order!ContainerLess(less, a, a) <=> size(a) < size(a)
             \/ (size(a) = size(a) /\ Order!MapLess(less, a.map, a.map))
    BY <1>2, <1>3, Zenon
  <1> HIDE DEF size
  <1>5. ~Order!MapLess(less, a.map, a.map)
    BY <1>1, MapLessSame
  <1>6. a.map # b.map => (Order!MapLess(less, a.map, b.map) <=> ~Order!MapLess(less, b.map, a.map))
    BY <1>1, MapLessOne
  <1>7. Order!MapLess(less, a.map, b.map) /\ Order!MapLess(less, b.map, c.map)
      => Order!MapLess(less, a.map, c.map)
    BY <1>1, MapLessOn
  <1> QED
    BY <1>2, <1>4, <1>5, <1>6, <1>7

LEMMA RankIs ==
  /\ \A t \in Scalars \cup {"null", "array", "object"} : Order!Rank[t] \in Int
  /\ \A t, u \in Scalars \cup {"null", "array", "object"} : t # u => Order!Rank[t] # Order!Rank[u]
  BY DEF Order!Rank, Scalars

LEMMA NumbersCompare ==
  ASSUME NEW a, NEW b, a.n \in Int, b.n \in Int
  PROVE  Order!Comparable(a, b)
  <1>1. NaN \notin Int
    BY ValuesAssumption DEF Order!MaxIntAssumption
  <1> QED
    BY <1>1 DEF Order!Comparable

LEMMA LessIs ==
  ASSUME NEW E, NEW less, NEW a \in ValuesOf(E), NEW b \in ValuesOf(E)
  PROVE  /\ a.type \in Scalars \cup {"null", "array", "object"}
         /\ a.type = "null" => a = [type |-> "null", n |-> 0]
         /\ a.type \in Scalars => a = [type |-> a.type, n |-> a.n] /\ a.n \in Int
         /\ a.type \in {"array", "object"} =>
               a \in [type : {"array", "object"}, map : MapsTo(E)]
                   /\ a = [type |-> a.type, map |-> a.map]
         /\ a.type # b.type => (Order!Less(less, a, b) <=> Order!Rank[a.type] < Order!Rank[b.type])
         /\ a.type = b.type /\ a.type = "null" => ~Order!Less(less, a, b)
         /\ a.type = b.type /\ a.type \in Scalars => (Order!Less(less, a, b) <=> a.n < b.n)
         /\ a.type = b.type /\ a.type \in {"array", "object"} =>
               (Order!Less(less, a, b) <=> Order!ContainerLess(less, a, b))
  <1>1. /\ a.type \in Scalars \cup {"null", "array", "object"}
        /\ a.type = "null" => a = [type |-> "null", n |-> 0]
        /\ a.type \in Scalars => a = [type |-> a.type, n |-> a.n] /\ a.n \in Int
        /\ a.type \in {"array", "object"} =>
               a \in [type : {"array", "object"}, map : MapsTo(E)]
                   /\ a = [type |-> a.type, map |-> a.map]
    BY DEF ValuesOf, Scalars
  <1>2. a.type # b.type => (Order!Less(less, a, b) <=> Order!Rank[a.type] < Order!Rank[b.type])
    BY Zenon DEF Order!Less
  <1>3. a.type = b.type /\ a.type = "null" => ~Order!Less(less, a, b)
    BY DEF Order!Less, Order!IsContainer, Order!Containers
  <1>4. a.type = b.type /\ a.type \in Scalars => (Order!Less(less, a, b) <=> a.n < b.n)
    <2>1. a.type = b.type /\ a.type \in Scalars => Order!Comparable(a, b)
      <3>1. a.type = b.type /\ a.type \in Scalars => a.n \in Int /\ b.n \in Int
        BY DEF ValuesOf, Scalars
      <3> QED
        BY <3>1, NumbersCompare
    <2> QED
      BY <2>1 DEF Order!Less, Scalars, Order!IsContainer, Order!Containers
  <1>5. a.type = b.type /\ a.type \in {"array", "object"} =>
               (Order!Less(less, a, b) <=> Order!ContainerLess(less, a, b))
    BY DEF Order!Less, Order!IsContainer, Order!Containers
  <1> QED
    BY <1>1, <1>2, <1>3, <1>4, <1>5

\* What orders the elements orders the values.
LEMMA LessOrdered ==
  ASSUME NEW E, NEW less, Ordered(less, E),
         NEW a \in ValuesOf(E), NEW b \in ValuesOf(E), NEW c \in ValuesOf(E)
  PROVE  /\ ~Order!Less(less, a, a)
         /\ a # b => (Order!Less(less, a, b) <=> ~Order!Less(less, b, a))
         /\ Order!Less(less, a, b) /\ Order!Less(less, b, c) => Order!Less(less, a, c)
  <1> DEFINE T == Scalars \cup {"null", "array", "object"}
  <1>1. a.type \in T /\ b.type \in T /\ c.type \in T
    BY LessIs
  <1>2. /\ Order!Rank[a.type] \in Int /\ Order!Rank[b.type] \in Int /\ Order!Rank[c.type] \in Int
        /\ a.type # b.type => Order!Rank[a.type] # Order!Rank[b.type]
        /\ a.type # c.type => Order!Rank[a.type] # Order!Rank[c.type]
        /\ b.type # c.type => Order!Rank[b.type] # Order!Rank[c.type]
    BY <1>1, RankIs
  <1>3. ~Order!Less(less, a, a)
    <2>1. CASE a.type = "null"
      BY <2>1, LessIs
    <2>2. CASE a.type \in Scalars
      <3>1. a.n \in Int /\ (Order!Less(less, a, a) <=> a.n < a.n)
        BY <2>2, LessIs
      <3> QED
        BY <3>1
    <2>3. CASE a.type \in {"array", "object"}
      <3>1. a \in [type : {"array", "object"}, map : MapsTo(E)]
        BY <2>3, LessIs
      <3>2. ~Order!ContainerLess(less, a, a)
        BY <3>1, ContainersOrdered
      <3> QED
        BY <2>3, <3>2, LessIs
    <2> QED
      BY <1>1, <2>1, <2>2, <2>3
  <1>4. ASSUME a # b PROVE Order!Less(less, a, b) <=> ~Order!Less(less, b, a)
    <2>1. CASE a.type # b.type
      <3>1. /\ Order!Less(less, a, b) <=> Order!Rank[a.type] < Order!Rank[b.type]
            /\ Order!Less(less, b, a) <=> Order!Rank[b.type] < Order!Rank[a.type]
        BY <2>1, LessIs
      <3> QED
        BY <1>2, <2>1, <3>1
    <2>2. CASE a.type = b.type /\ a.type = "null"
      BY <1>4, <2>2, LessIs
    <2>3. CASE a.type = b.type /\ a.type \in Scalars
      <3>1. /\ Order!Less(less, a, b) <=> a.n < b.n
            /\ Order!Less(less, b, a) <=> b.n < a.n
            /\ a.n \in Int /\ b.n \in Int
            /\ a = [type |-> a.type, n |-> a.n] /\ b = [type |-> b.type, n |-> b.n]
        BY <2>3, LessIs
      <3>2. a.n # b.n
        BY <1>4, <2>3, <3>1
      <3> QED
        BY <3>1, <3>2
    <2>4. CASE a.type = b.type /\ a.type \in {"array", "object"}
      <3>1. /\ Order!Less(less, a, b) <=> Order!ContainerLess(less, a, b)
            /\ Order!Less(less, b, a) <=> Order!ContainerLess(less, b, a)
            /\ a \in [type : {"array", "object"}, map : MapsTo(E)]
            /\ b \in [type : {"array", "object"}, map : MapsTo(E)]
            /\ a = [type |-> a.type, map |-> a.map] /\ b = [type |-> b.type, map |-> b.map]
        BY <2>4, LessIs
      <3>2. a.map # b.map
        BY <1>4, <2>4, <3>1
      <3>3. Order!ContainerLess(less, a, b) <=> ~Order!ContainerLess(less, b, a)
        BY <3>1, <3>2, ContainersOrdered
      <3> QED
        BY <3>1, <3>3
    <2> QED
      BY <1>1, <2>1, <2>2, <2>3, <2>4
  <1>5. ASSUME Order!Less(less, a, b), Order!Less(less, b, c) PROVE Order!Less(less, a, c)
    <2>1. CASE a.type = b.type /\ b.type = c.type
      <3>1. CASE a.type = "null"
        BY <1>5, <2>1, <3>1, LessIs
      <3>2. CASE a.type \in Scalars
        <4>1. /\ a.n < b.n /\ b.n < c.n
              /\ a.n \in Int /\ b.n \in Int /\ c.n \in Int
              /\ Order!Less(less, a, c) <=> a.n < c.n
          <5>1. a.n < b.n /\ a.n \in Int
            BY <1>5, <2>1, <3>2, LessIs
          <5>2. b.n < c.n /\ b.n \in Int
            BY <1>5, <2>1, <3>2, LessIs
          <5>3. c.n \in Int
            BY <2>1, <3>2, LessIs
          <5>4. Order!Less(less, a, c) <=> a.n < c.n
            BY <2>1, <3>2, LessIs
          <5> QED
            BY <5>1, <5>2, <5>3, <5>4
        <4> QED
          BY <4>1
      <3>3. CASE a.type \in {"array", "object"}
        <4>1. /\ a \in [type : {"array", "object"}, map : MapsTo(E)]
              /\ b \in [type : {"array", "object"}, map : MapsTo(E)]
              /\ c \in [type : {"array", "object"}, map : MapsTo(E)]
          BY <2>1, <3>3, LessIs
        <4>2. Order!ContainerLess(less, a, b)
          BY <1>5, <2>1, <3>3, LessIs
        <4>3. Order!ContainerLess(less, b, c)
          BY <1>5, <2>1, <3>3, LessIs
        <4>4. Order!ContainerLess(less, a, c)
          BY <4>1, <4>2, <4>3, ContainersOrdered
        <4> QED
          BY <2>1, <3>3, <4>4, LessIs
      <3> QED
        BY <1>1, <3>1, <3>2, <3>3
    <2>2. CASE ~(a.type = b.type /\ b.type = c.type)
      <3>1. a.type # b.type => Order!Rank[a.type] < Order!Rank[b.type]
        BY <1>5, LessIs
      <3>2. b.type # c.type => Order!Rank[b.type] < Order!Rank[c.type]
        BY <1>5, LessIs
      <3>3. Order!Rank[a.type] < Order!Rank[c.type]
        BY <1>2, <2>2, <3>1, <3>2
      <3>4. a.type # c.type
        BY <1>2, <3>3
      <3> QED
        BY <3>3, <3>4, LessIs
    <2> QED
      BY <2>1, <2>2
  <1> QED
    BY <1>3, <1>4, <1>5

LEMMA EqualIs ==
  ASSUME NEW E, NEW equal, \A a, b \in E : equal[<<a, b>>] <=> a = b,
         NEW a \in ValuesOf(E), NEW b \in ValuesOf(E)
  PROVE  Order!Equal(equal, a, b) <=> a = b
  <1>1. CASE a.type # b.type
    BY <1>1 DEF Order!Equal
  <1>2. CASE a.type = b.type /\ a.type = "null"
    <2>1. a = b
      BY <1>2, LessIs
    <2> QED
      BY <1>2, <2>1 DEF Order!Equal, Order!IsContainer, Order!Containers
  <1>3. CASE a.type = b.type /\ a.type \in Scalars
    <2>1. a = [type |-> a.type, n |-> a.n] /\ b = [type |-> b.type, n |-> b.n]
      BY <1>3, LessIs
    <2>2. Order!Equal(equal, a, b) <=> a.n = b.n
      <3>1. Order!Comparable(a, b)
        BY <1>3, LessIs, NumbersCompare
      <3> QED
        BY <1>3, <3>1 DEF Order!Equal, Scalars, Order!IsContainer, Order!Containers
    <2> QED
      BY <1>3, <2>1, <2>2
  <1>4. CASE a.type = b.type /\ a.type \in {"array", "object"}
    <2>1. /\ a.map \in MapsTo(E) /\ b.map \in MapsTo(E)
          /\ a = [type |-> a.type, map |-> a.map] /\ b = [type |-> b.type, map |-> b.map]
      BY <1>4, LessIs
    <2>2. Order!Equal(equal, a, b) <=>
             DOMAIN a.map = DOMAIN b.map /\ \A k \in DOMAIN a.map : equal[<<a.map[k], b.map[k]>>]
      BY <1>4 DEF Order!Equal, Order!IsContainer, Order!Containers
    <2>3. Order!Equal(equal, a, b) <=>
             DOMAIN a.map = DOMAIN b.map /\ \A k \in DOMAIN a.map : a.map[k] = b.map[k]
      <3>1. \A k \in DOMAIN a.map : a.map[k] \in E
        BY <2>1, MapIs
      <3>2. \A k \in DOMAIN b.map : b.map[k] \in E
        BY <2>1, MapIs
      <3> QED
        BY <2>2, <3>1, <3>2, ZenonT(60)
    <2>4. Order!Equal(equal, a, b) <=> a.map = b.map
      <3>1. a.map = [k \in DOMAIN a.map |-> a.map[k]]
        BY <2>1, MapIs
      <3>2. b.map = [k \in DOMAIN b.map |-> b.map[k]]
        BY <2>1, MapIs
      <3> HIDE DEF Order!Equal
      <3>3. (DOMAIN a.map = DOMAIN b.map /\ \A k \in DOMAIN a.map : a.map[k] = b.map[k])
          => a.map = b.map
        BY <3>1, <3>2
      <3> QED
        BY <2>3, <3>3
    <2> QED
      BY <1>4, <2>1, <2>4
  <1>5. a.type \in Scalars \cup {"null", "array", "object"}
    BY LessIs
  <1> QED
    BY <1>1, <1>2, <1>3, <1>4, <1>5

-----------------------------------------------------------------------------
(* The values that are compared and converted *)

LEMMA FewAre == Order!Few \subseteq ValuesOf({})
  <1>1. Order!NullLeaf \in ValuesOf({})
    BY DEF Order!NullLeaf, ValuesOf
  <1>2. ASSUME NEW t \in Scalars, NEW N \in SUBSET Int
      PROVE Order!Numbers(t, N) \subseteq ValuesOf({})
    BY <1>2 DEF Order!Numbers, ValuesOf
  <1>3. {-1, 1} \in SUBSET Int /\ {-1, 2} \in SUBSET Int /\ {0, 1} \in SUBSET Int
      /\ {1} \in SUBSET Int
    OBVIOUS
  <1>4. "int" \in Scalars /\ "real" \in Scalars /\ "string" \in Scalars /\ "boolean" \in Scalars
    BY DEF Scalars
  <1>5. /\ Order!Numbers("int", {-1, 1}) \subseteq ValuesOf({})
             /\ Order!Numbers("real", {-1, 2}) \subseteq ValuesOf({})
        /\ Order!Numbers("string", {0, 1}) \subseteq ValuesOf({})
             /\ Order!Numbers("boolean", {1}) \subseteq ValuesOf({})
    BY <1>2, <1>3, <1>4, Zenon
  <1> QED
    BY <1>1, <1>5 DEF Order!Few

LEMMA MoreValues ==
  ASSUME NEW E
  PROVE  ValuesOf({}) \cap ([type : {"null"} \cup Scalars, n : Int]) \subseteq ValuesOf(E)
  BY DEF ValuesOf

LEMMA FewAmong ==
  ASSUME NEW E
  PROVE  Order!Few \subseteq ValuesOf(E)
  <1>1. Order!Few \subseteq [type : {"null"} \cup Scalars, n : Int]
    BY DEF Order!Few, Order!Numbers, Order!NullLeaf, Scalars
  <1> QED
    BY <1>1, FewAre, MoreValues

LEMMA MapsAre ==
  ASSUME NEW E, NEW F \in SUBSET E, NEW K \in SUBSET {0, 1}, NEW m \in [K -> F]
  PROVE  m \in MapsTo(E)
  <1>1. IsFiniteSet({0, 1})
    <2>1. IsFiniteSet({0})
      BY FS_Singleton
    <2>2. IsFiniteSet({0} \cup {1})
      BY <2>1, FS_AddElement
    <2>3. {0, 1} = {0} \cup {1}
      OBVIOUS
    <2> QED
      BY <2>2, <2>3
  <1>2. IsFiniteSet(K) /\ K \in SUBSET Int
    <2>1. IsFiniteSet(K)
      BY <1>1, FS_Subset
    <2>2. K \in SUBSET Int
      OBVIOUS
    <2> QED
      BY <2>1, <2>2
  <1>3. m \in [K -> E]
    OBVIOUS
  <1> QED
    BY <1>2, <1>3 DEF MapsTo

LEMMA MadeAre ==
  ASSUME NEW E, NEW M, M \subseteq MapsTo(E), NEW t \in {"array", "object"}
  PROVE  Order!Made(t, M) \subseteq ValuesOf(E)
  BY DEF Order!Made, ValuesOf

LEMMA LeavesFew ==
  Order!NullLeaf \in Order!Few /\ [type |-> "int", n |-> 1] \in Order!Few
  BY DEF Order!Few, Order!Numbers

LEMMA SmallAre ==
  ASSUME NEW E, Order!Few \subseteq E
  PROVE  Order!Small \subseteq ValuesOf(E) /\ Order!Flat \subseteq ValuesOf(E)
  <1> DEFINE F == {Order!NullLeaf, [type |-> "int", n |-> 1]}
             G == {[type |-> "int", n |-> 1]}
  <1>1. F \in SUBSET E /\ G \in SUBSET E
    BY LeavesFew
  <1>2. Order!Maps(F) \subseteq MapsTo(E) /\ Order!Maps(G) \subseteq MapsTo(E)
    <2> HIDE DEF F, G
    <2> QED
      BY <1>1, MapsAre DEF Order!Maps
  <1>3. Order!Made("array", Order!Maps(F)) \subseteq ValuesOf(E)
      /\ Order!Made("object", Order!Maps(G)) \subseteq ValuesOf(E)
    BY <1>2, MadeAre
  <1> QED
    BY <1>3, Zenon DEF Order!Small, Order!Flat

Elems == Order!Few \cup Order!Flat
Deep == Elems \cup Order!Nested

LEMMA NestedAre == Order!Nested \subseteq ValuesOf(Elems)
  <1>1. Order!Small \cup {Order!NullLeaf} \in SUBSET Elems /\ Order!Small \in SUBSET Elems
    BY LeavesFew DEF Elems, Order!Flat
  <1> DEFINE A == [{0} -> Order!Small]
             B == {m \in [{0, 1} -> Order!Small \cup {Order!NullLeaf}] : m[0] = Order!NullLeaf
                 /\ m[1] # Order!NullLeaf}
  <1>2. A \subseteq MapsTo(Elems)
    <2>1. {0} \in SUBSET {0, 1}
      OBVIOUS
    <2> QED
      BY <1>1, <2>1, MapsAre
  <1>3. B \subseteq MapsTo(Elems)
    <2>1. {0, 1} \in SUBSET {0, 1}
      OBVIOUS
    <2> QED
      BY <1>1, <2>1, MapsAre
  <1>4. Order!Made("array", A \cup B) \subseteq ValuesOf(Elems)
    BY <1>2, <1>3, MadeAre
  <1> QED
    BY <1>4, Zenon DEF Order!Nested

LEMMA LevelsAre ==
  /\ Order!Few \subseteq ValuesOf({}) /\ Elems \subseteq ValuesOf(Order!Few)
  /\ Deep \subseteq ValuesOf(Elems)
  <1>1. Order!Few \subseteq Elems
    BY DEF Elems
  <1> QED
    BY <1>1, FewAre, FewAmong, SmallAre, NestedAre DEF Elems, Deep

\* What is worked out at one level is an order, or equality, at the next one.
LEMMA NextLevel ==
  ASSUME NEW E, NEW less, Ordered(less, E), NEW S \in SUBSET ValuesOf(E)
  PROVE  Ordered([p \in S \X S |-> Order!Less(less, p[1], p[2])], S)
  <1> DEFINE f == [p \in S \X S |-> Order!Less(less, p[1], p[2])]
  <1>1. \A a, b \in S : f[<<a, b>>] = Order!Less(less, a, b)
    OBVIOUS
  <1> HIDE DEF f
  <1>2. \A a, b, c \in S : /\ ~Order!Less(less, a, a)
                           /\ a # b => (Order!Less(less, a, b) <=> ~Order!Less(less, b, a))
                           /\ Order!Less(less, a, b) /\ Order!Less(less, b, c)
                                => Order!Less(less, a, c)
    BY LessOrdered
  <1> QED
    BY <1>1, <1>2 DEF Ordered, f

LEMMA NextEqual ==
  ASSUME NEW E, NEW equal, \A a, b \in E : equal[<<a, b>>] <=> a = b, NEW S \in SUBSET ValuesOf(E)
  PROVE  \A a, b \in S : [p \in S \X S |-> Order!Equal(equal, p[1], p[2])][<<a, b>>] <=> a = b
  <1> DEFINE f == [p \in S \X S |-> Order!Equal(equal, p[1], p[2])]
  <1>1. \A a, b \in S : f[<<a, b>>] = Order!Equal(equal, a, b)
    OBVIOUS
  <1> HIDE DEF f
  <1>2. \A a, b \in S : Order!Equal(equal, a, b) <=> a = b
    BY EqualIs
  <1> QED
    BY <1>1, <1>2 DEF f

LEMMA OrderedIs ==
  /\ \A a, b \in Deep : Order!Eq(a, b) <=> a = b
  /\ \A a, b, c \in Deep : /\ ~Order!Lt(a, a)
                           /\ a # b => (Order!Lt(a, b) <=> ~Order!Lt(b, a))
                           /\ Order!Lt(a, b) /\ Order!Lt(b, c) => Order!Lt(a, c)
  <1>1. Ordered(<< >>, {}) /\ \A a, b \in {} : << >>[<<a, b>>] <=> a = b
    BY DEF Ordered
  <1>2. Ordered(Order!LeafLess, Order!Few)
    BY <1>1, LevelsAre, NextLevel DEF Order!LeafLess
  <1>3. Ordered(Order!FlatLess, Elems)
    BY <1>2, LevelsAre, NextLevel DEF Order!FlatLess, Elems
  <1>4. \A a, b \in Order!Few : Order!LeafEqual[<<a, b>>] <=> a = b
    BY <1>1, LevelsAre, NextEqual DEF Order!LeafEqual
  <1>5. \A a, b \in Elems : Order!FlatEqual[<<a, b>>] <=> a = b
    BY <1>4, LevelsAre, NextEqual DEF Order!FlatEqual, Elems
  <1>6. \A a, b \in Deep : Order!Eq(a, b) <=> a = b
    BY <1>5, LevelsAre, EqualIs DEF Order!Eq
  <1>7. \A a, b, c \in Deep : /\ ~Order!Lt(a, a)
                              /\ a # b => (Order!Lt(a, b) <=> ~Order!Lt(b, a))
                              /\ Order!Lt(a, b) /\ Order!Lt(b, c) => Order!Lt(a, c)
    BY <1>3, LevelsAre, LessOrdered DEF Order!Lt
  <1> QED
    BY <1>6, <1>7

\* A real is cut towards zero.
LEMMA CutIs ==
  ASSUME NEW n \in Int
  PROVE  /\ Order!Cut(n) \in Int /\ n - 2 * Order!Cut(n) \in {-1, 0, 1}
         /\ n >= 0 => n - 2 * Order!Cut(n) \in {0, 1}
  BY DEF Order!Cut

LEMMA AllAre ==
  ASSUME Order!MaxIntAssumption, NEW v \in Order!All
  PROVE  \/ v = [type |-> "null", n |-> 0]
         \/ v = [type |-> "int", n |-> v.n] /\ v.n \in Order!MinInt .. OrderMax
         \/ v = [type |-> "uint", n |-> v.n] /\ v.n \in 0 .. Order!MaxUInt
         \/ v = [type |-> "real", n |-> v.n] /\ v.n \in Int \cup {NaN}
         \/ v = [type |-> "string", n |-> v.n] /\ v.n \in Int
         \/ v = [type |-> "boolean", n |-> v.n] /\ v.n \in {0, 1}
  <1>1. Order!MinInt \in Int /\ Order!MaxUInt \in Int
    BY DEF Order!MaxIntAssumption, Order!MinInt, Order!MaxUInt
  <1> QED
    BY <1>1 DEF Order!All, Order!Numbers, Order!NullLeaf, Order!NotANumber

Converts(v) ==
    /\ Order!IsConvertibleTo(v, "uint") /\ Order!Number(v) =>
           Order!AsUInt(v) # Throws /\ Order!Twice(v) - 2 * Order!AsUInt(v) \in {0, 1}
    /\ Order!IsConvertibleTo(v, "real") /\ Order!Number(v) => Order!AsDouble(v) = Order!Twice(v)
    /\ Order!IsConvertibleTo(v, "int") /\ Order!Number(v)
         /\ v # [type |-> "uint", n |-> OrderMax] =>
           Order!AsInt(v) # Throws /\ Order!Twice(v) - 2 * Order!AsInt(v) \in {-1, 0, 1}
    /\ Order!IsConvertibleTo(v, "boolean") /\ Order!Number(v) =>
           (Order!AsBool(v) <=> Order!Twice(v) # 0)
    /\ Order!IsConvertibleTo(v, "string") /\ Order!AsString(v) = << >> =>
           Order!IsConvertibleTo(v, "null") \/ v.type \in {"int", "uint", "real"}
    /\ Order!IsConvertibleTo(v, "null") => ~Order!AsBool(v)

Refuses(v) ==
    Order!Number(v) =>
        /\ Order!AsInt(v) = Throws => Order!Twice(v) \notin 2 * Order!MinInt .. 2 * (OrderMax - 1)
        /\ Order!AsUInt(v) = Throws => Order!Twice(v) \notin 0 .. 2 * Order!MaxUInt

LEMMA ConvertsIs ==
  ASSUME Order!MaxIntAssumption, NEW v \in Order!All \cup Order!Flat
  PROVE  Converts(v) /\ Refuses(v)
  <1>0. /\ OrderMax \in Nat /\ OrderMax > 0 /\ Throws \notin Int /\ NaN \notin Int /\ Throws # NaN
        /\ Order!MinInt = -OrderMax - 1 /\ Order!MaxUInt = 2 * OrderMax + 1
    BY DEF Order!MaxIntAssumption, Order!MinInt, Order!MaxUInt
  <1> USE DEF Converts, Refuses, Order!IsConvertibleTo, Order!Number, Order!AsUInt, Order!AsInt,
      Order!AsDouble, Order!AsString, Order!Twice, Order!AsBool, Order!IsContainer, Order!Containers
  <1>1. CASE v = [type |-> "null", n |-> 0]
    BY <1>0, <1>1
  <1>2. CASE v = [type |-> "int", n |-> v.n] /\ v.n \in Order!MinInt .. OrderMax
    BY <1>0, <1>2
  <1>3. CASE v = [type |-> "uint", n |-> v.n] /\ v.n \in 0 .. Order!MaxUInt
    BY <1>0, <1>3
  <1>4. CASE v = [type |-> "real", n |-> v.n] /\ v.n \in Int
    <2>1. /\ Order!Cut(v.n) \in Int /\ v.n - 2 * Order!Cut(v.n) \in {-1, 0, 1}
          /\ v.n >= 0 => v.n - 2 * Order!Cut(v.n) \in {0, 1}
      BY <1>4, CutIs
    <2> QED
      BY <1>0, <1>4, <2>1
  <1>8. CASE v = [type |-> "real", n |-> v.n] /\ v.n = NaN
    BY <1>0, <1>8
  <1>5. CASE v = [type |-> "string", n |-> v.n] /\ v.n \in Int
    BY <1>0, <1>5
  <1>6. CASE v = [type |-> "boolean", n |-> v.n] /\ v.n \in {0, 1}
    BY <1>0, <1>6
  <1>7. CASE v \in Order!Flat
    <2>1. v.type \in {"array", "object"}
      BY <1>7 DEF Order!Flat, Order!Small, Order!Made
    <2> QED
      BY <2>1
  <1> QED
    BY <1>1, <1>2, <1>3, <1>4, <1>5, <1>6, <1>7, <1>8, AllAre

\* A NaN is neither less than a real, nor equal to it, nor to itself; among the
\* other types it stands with the reals.
LEMMA NaNIs ==
  ASSUME NEW y \in Order!Few \cup {Order!NotANumber}
  PROVE  LET x == Order!NotANumber
         IN  /\ ~Order!Eq(x, y)
             /\ IF y.type = "real" THEN ~Order!Lt(x, y) /\ ~Order!Lt(y, x)
                ELSE Order!Lt(x, y) <=> ~Order!Lt(y, x)
  <1> DEFINE x == Order!NotANumber
  <1>1. x.type = "real" /\ x.n = NaN
    BY DEF Order!NotANumber
  <1> HIDE DEF x
  <1>2. CASE y.type = "real"
    <2>1. ~Order!Comparable(x, y) /\ ~Order!Comparable(y, x)
      BY <1>1 DEF Order!Comparable
    <2> QED
      BY <1>1, <1>2, <2>1
      DEF Order!Eq, Order!Lt, Order!Equal, Order!Less, Order!IsContainer, Order!Containers, x
  <1>3. CASE y.type # "real"
    <2>1. y.type \in Scalars \cup {"null", "array", "object"}
      BY <1>3, FewAre, LessIs DEF Order!NotANumber
    <2>2. Order!Rank[x.type] \in Int /\ Order!Rank[y.type] \in Int
          /\ Order!Rank[x.type] # Order!Rank[y.type]
      BY <1>1, <1>3, <2>1, RankIs DEF Scalars
    <2>3. /\ Order!Lt(x, y) <=> Order!Rank[x.type] < Order!Rank[y.type]
          /\ Order!Lt(y, x) <=> Order!Rank[y.type] < Order!Rank[x.type]
      BY <1>1, <1>3, Zenon DEF Order!Lt, Order!Less
    <2>4. ~Order!Eq(x, y)
      BY <1>1, <1>3 DEF Order!Eq, Order!Equal
    <2>5. Order!Lt(x, y) \/ Order!Lt(y, x)
      BY <2>2, <2>3
    <2>6. ~(Order!Lt(x, y) /\ Order!Lt(y, x))
      BY <2>2, <2>3
    <2> QED
      BY <1>3, <2>4, <2>5, <2>6 DEF x
  <1> QED
    BY <1>2, <1>3 DEF x

\* Values of any of the types but NaN, in containers of containers: operator<
\* orders them and operator== is equality.  For any limits of the integers,
\* what may be converted is, but for the two cases that ConvertsAsPromised
\* names, and what throws is out of the range (json_value.cpp).
THEOREM OrderRight ==
    ValuesSpec => [](part = "order" => Order!TotalOrder /\ Order!ConvertsAsPromised
        /\ Order!ThrowsOutOfRange)
  <1> DEFINE Inv == part = "order" => Order!Init
  <1>0. Order!MaxIntAssumption
    BY ValuesAssumption
  <1>1. ValuesInit => Inv
    BY DEF ValuesInit
  <1>2. Inv /\ [NextValues]_<<part, values>> => Inv'
    <2>1. [NextValues]_<<part, values>> => UNCHANGED <<part, mode, lhs, rhs, third>>
      BY DEF NextValues, NextContainer, NextLoop, Loops, NextOwner, values, order
    <2> QED
      BY <2>1 DEF Order!Init
  <1>3. Order!Init => Order!TotalOrder /\ Order!ConvertsAsPromised /\ Order!ThrowsOutOfRange
    <2> SUFFICES ASSUME Order!Init PROVE Order!TotalOrder /\ Order!ConvertsAsPromised
        /\ Order!ThrowsOutOfRange
      OBVIOUS
    <2>1. CASE mode = "order"
      <3>1. lhs \in Deep /\ rhs \in Deep /\ third \in Deep
        BY <2>1 DEF Order!Init, Deep, Elems, Order!Flat
      <3> QED
        BY <2>1, <3>1, OrderedIs DEF Order!TotalOrder, Order!ConvertsAsPromised,
            Order!ThrowsOutOfRange
    <2>3. CASE mode = "nan"
      BY <2>3, NaNIs DEF Order!Init, Order!TotalOrder, Order!ConvertsAsPromised,
          Order!ThrowsOutOfRange
    <2>2. CASE mode = "convert"
      <3>1. lhs \in Order!All \cup Order!Flat
        BY <2>2 DEF Order!Init
      <3>2. Converts(lhs) /\ Refuses(lhs)
        BY <1>0, <3>1, ConvertsIs
      <3> QED
        BY <2>2, <3>2 DEF Order!TotalOrder, Order!ConvertsAsPromised, Order!ThrowsOutOfRange,
            Converts, Refuses
    <2> QED
      BY <2>1, <2>2, <2>3 DEF Order!Init
  <1> QED
    BY <1>1, <1>2, <1>3, PTL DEF ValuesSpec

-----------------------------------------------------------------------------
(* The owners of blocks *)

Blocks == Nat \ {0}

\* A heap that nothing was freed wrongly of.
Sound(h) == h = [live |-> h.live, faults |-> {}] /\ h.live \in SUBSET Blocks /\ IsFiniteSet(h.live)

\* From h to k the blocks O have been given up for the blocks P; the others
\* are as they were.
Turns(h, O, k, P) ==
    /\ Sound(h) /\ Sound(k) /\ O \subseteq h.live
    /\ k.live = (h.live \ O) \cup P /\ P \cap (h.live \ O) = {}

LEMMA FreshIs ==
  ASSUME NEW h, Sound(h)
  PROVE  Owner!Fresh(h) \in Blocks /\ Owner!Fresh(h) \notin h.live
  <1> DEFINE n == Cardinality(h.live)
             R == 1 .. n + 1
  <1>1. IsFiniteSet(h.live) /\ n \in Nat
    BY FS_CardinalityType DEF Sound
  <1>2. \E b \in R : b \notin h.live
    <2> SUFFICES ASSUME R \subseteq h.live PROVE FALSE
      OBVIOUS
    <2>1. Cardinality(R) <= n
      BY <1>1, FS_Subset
    <2>2. Cardinality(R) = n + 1
      <3>1. 1 \in Int /\ n + 1 \in Int /\ ~(1 > n + 1) /\ (n + 1) - 1 + 1 = n + 1
        BY <1>1
      <3> HIDE DEF n
      <3>2. Cardinality(R) = IF 1 > n + 1 THEN 0 ELSE (n + 1) - 1 + 1
        BY <3>1, FS_Interval
      <3> QED
        BY <3>1, <3>2
    <2> QED
      BY <1>1, <2>1, <2>2
  <1>3. Owner!Cardinality(h.live) = n
    BY DEF Owner!Cardinality, Cardinality
  <1>4. Owner!Fresh(h) = CHOOSE b \in R : b \notin h.live
    BY <1>3 DEF Owner!Fresh
  <1>5. Owner!Fresh(h) \in R /\ Owner!Fresh(h) \notin h.live
    BY <1>2, <1>4
  <1> QED
    BY <1>1, <1>5 DEF Blocks

LEMMA UsedTurns ==
  ASSUME NEW h, Sound(h)
  PROVE  Turns(h, {}, Owner!Used(h), {Owner!Fresh(h)})
  <1> DEFINE f == Owner!Fresh(h)
             k == Owner!Used(h)
  <1>1. f \in Blocks /\ f \notin h.live
    BY FreshIs
  <1>2. k = [live |-> h.live \cup {f}, faults |-> {}]
    BY DEF Sound, Owner!Used
  <1>3. IsFiniteSet(h.live \cup {f})
    BY FS_AddElement DEF Sound
  <1> HIDE DEF f, k
  <1>4. Sound(k)
    BY <1>1, <1>2, <1>3 DEF Sound
  <1>5. Turns(h, {}, k, {f})
    BY <1>1, <1>2, <1>4 DEF Turns
  <1> QED
    BY <1>5 DEF f, k

LEMMA FreeTurns ==
  ASSUME NEW h, Sound(h), NEW b \in h.live \cup {0}
  PROVE  Turns(h, {b} \ {0}, Owner!Free(h, b), {})
  <1>1. CASE b = 0
    <2>1. Owner!Free(h, b) = h
      BY <1>1 DEF Owner!Free, Owner!Null, Sound, Blocks
    <2> QED
      BY <1>1, <2>1 DEF Turns
  <1>2. CASE b # 0
    <2>1. Owner!Free(h, b) = [live |-> h.live \ {b}, faults |-> {}]
      BY <1>2 DEF Owner!Free, Owner!Null, Sound
    <2>2. IsFiniteSet(h.live \ {b})
      BY FS_RemoveElement DEF Sound
    <2>3. Sound(Owner!Free(h, b))
      BY <2>1, <2>2 DEF Sound
    <2> QED
      BY <1>2, <2>1, <2>3 DEF Turns
  <1> QED
    BY <1>1, <1>2

LEMMA Follow ==
  ASSUME NEW h, NEW k, NEW l, NEW O, NEW P, NEW Q, Turns(h, O, k, P), Turns(k, P, l, Q)
  PROVE  Turns(h, O, l, Q)
  BY DEF Turns

\* What is not among the blocks given up stays.
LEMMA Aside ==
  ASSUME NEW h, NEW k, NEW O, NEW P, Turns(h, O, k, P), NEW F, F \subseteq h.live, F \cap O = {}
  PROVE  Turns(h, O \cup F, k, P \cup F) /\ F \cap P = {} /\ F \subseteq k.live
  BY DEF Turns

LEMMA Stays ==
  ASSUME NEW h, Sound(h), NEW O, O \subseteq h.live
  PROVE  Turns(h, O, h, O)
  BY DEF Turns

-----------------------------------------------------------------------------
\* What a leaf, a name, a member and a Value own.
OwnLeaf(l) == {Owner!BlockOf(l), l.info, l.text} \ {0}
OwnName(name) == {Owner!NameBlock(name)} \ {0}
OwnMember(m) == OwnName(m.name) \cup OwnLeaf(m.leaf)
OwnMembers(ms) == IF ms = << >> THEN {} ELSE OwnMember(ms[1])
Own(v) == OwnLeaf(v.self) \cup OwnMembers(v.members)

Leaves == [type : {"null", "number", "string", "object"}, at : Nat \cup {-1}, allocated : BOOLEAN,
           info : Nat, text : Nat]

\* A leaf that owns each of its blocks once, and reads what it owns, or a
\* static string.
LeafFine(l) ==
    /\ l \in Leaves
    /\ l.text # 0 => l.info # 0
    /\ l.type \in {"null", "number"} => l.at = 0
    /\ l.type = "object" => l.at \in Blocks
    /\ l.type = "string" => IF l.allocated THEN l.at \in Nat ELSE l.at \in {0, -1}
    /\ l.info # 0 => l.info # l.text /\ l.info # Owner!BlockOf(l)
    /\ l.text # 0 => l.text # Owner!BlockOf(l)

NameFine(name) ==
    \/ name.policy = "duplicate" /\ name.at \in Blocks
    \/ name.policy = "noDuplication" /\ name.at = -1

MemberFine(m) ==
    /\ m = [name |-> m.name, leaf |-> m.leaf] /\ NameFine(m.name) /\ LeafFine(m.leaf)
    /\ m.leaf.type # "object" /\ OwnName(m.name) \cap OwnLeaf(m.leaf) = {}

Fine(v) ==
    /\ v = [self |-> v.self, members |-> v.members] /\ LeafFine(v.self)
    /\ v.members # << >> =>
          /\ v.members = <<v.members[1]>> /\ MemberFine(v.members[1]) /\ v.self.type = "object"
          /\ OwnLeaf(v.self) \cap OwnMember(v.members[1]) = {}

LEMMA OwnAre ==
  /\ \A l : LeafFine(l) => OwnLeaf(l) \subseteq Blocks
  /\ \A v : Fine(v) => Own(v) \subseteq Blocks
  <1>1. \A l : LeafFine(l) => OwnLeaf(l) \subseteq Blocks
    BY DEF LeafFine, Leaves, OwnLeaf, Owner!BlockOf, Owner!Null, Blocks
  <1>2. \A name : NameFine(name) => OwnName(name) \subseteq Blocks
    BY DEF NameFine, OwnName, Owner!NameBlock, Owner!Null, Blocks
  <1>3. ASSUME NEW v, Fine(v) PROVE Own(v) \subseteq Blocks
    <2>1. OwnLeaf(v.self) \subseteq Blocks
      BY <1>1, <1>3 DEF Fine
    <2>2. v.members # << >> => OwnMember(v.members[1]) \subseteq Blocks
      BY <1>1, <1>2, <1>3 DEF Fine, MemberFine, OwnMember
    <2> QED
      BY <2>1, <2>2 DEF Own, OwnMembers
  <1> QED
    BY <1>1, <1>3

-----------------------------------------------------------------------------
(* What frees *)

LEMMA CommentsDropped ==
  ASSUME NEW h, Sound(h), NEW l, LeafFine(l), {l.info, l.text} \ {0} \subseteq h.live
  PROVE  Turns(h, {l.info, l.text} \ {0}, Owner!DropComments(h, l), {})
  <1> DEFINE k == Owner!Free(h, l.text)
  <1>1. Turns(h, {l.text} \ {0}, k, {})
    BY FreeTurns
  <1> HIDE DEF k
  <1>2. l.info \in k.live \cup {0} /\ Sound(k)
    BY <1>1 DEF Turns, LeafFine
  <1>3. Turns(k, {l.info} \ {0}, Owner!Free(k, l.info), {})
    BY <1>2, FreeTurns
  <1>4. Owner!DropComments(h, l) = Owner!Free(k, l.info)
    BY DEF Owner!DropComments, k
  <1> QED
    BY <1>1, <1>3, <1>4 DEF Turns

LEMMA LeafDropped ==
  ASSUME NEW h, Sound(h), NEW l, LeafFine(l), l.type # "object", OwnLeaf(l) \subseteq h.live
  PROVE  Turns(h, OwnLeaf(l), Owner!DropLeaf(h, l), {})
  <1> DEFINE b == Owner!BlockOf(l)
             k == IF l.type = "string" /\ l.allocated THEN Owner!Free(h, l.at) ELSE h
  <1>1. b = IF l.type = "string" /\ l.allocated THEN l.at ELSE 0
    BY DEF Owner!BlockOf, Owner!Null
  <1>2. b \in h.live \cup {0}
    BY DEF OwnLeaf
  <1>3. Turns(h, {b} \ {0}, k, {})
    BY <1>1, <1>2, FreeTurns, Stays
  <1> HIDE DEF k
  <1>4. {l.info, l.text} \ {0} \subseteq k.live /\ Sound(k)
    BY <1>3 DEF Turns, LeafFine, OwnLeaf
  <1>5. Turns(k, {l.info, l.text} \ {0}, Owner!DropComments(k, l), {})
    BY <1>4, CommentsDropped
  <1>6. Owner!DropLeaf(h, l) = Owner!DropComments(k, l)
    BY DEF Owner!DropLeaf, k
  <1>7. OwnLeaf(l) = ({b} \ {0}) \cup ({l.info, l.text} \ {0})
    BY DEF OwnLeaf
  <1> HIDE DEF b
  <1> QED
    BY <1>3, <1>5, <1>6, <1>7 DEF Turns

LEMMA NameDropped ==
  ASSUME NEW h, Sound(h), NEW name, NameFine(name), OwnName(name) \subseteq h.live
  PROVE  Turns(h, OwnName(name), Owner!DropName(h, name), {})
  <1>1. CASE name.policy = "duplicate"
    <2>1. Owner!NameBlock(name) = name.at /\ Owner!DropName(h, name) = Owner!Free(h, name.at)
      BY <1>1 DEF Owner!NameBlock, Owner!DropName
    <2>2. name.at \in h.live \cup {0}
      BY <2>1 DEF OwnName
    <2> QED
      BY <2>1, <2>2, FreeTurns DEF OwnName
  <1>2. CASE name.policy # "duplicate"
    <2>1. OwnName(name) = {} /\ Owner!DropName(h, name) = h
      BY <1>2 DEF Owner!NameBlock, Owner!DropName, OwnName, Owner!Null
    <2> QED
      BY <2>1, Stays
  <1> QED
    BY <1>1, <1>2

LEMMA MemberDropped ==
  ASSUME NEW h, Sound(h), NEW m, MemberFine(m), OwnMember(m) \subseteq h.live
  PROVE  Turns(h, OwnMember(m), Owner!DropMember(h, m), {})
  <1> DEFINE k == Owner!DropName(h, m.name)
  <1>1. Turns(h, OwnName(m.name), k, {})
    BY NameDropped DEF MemberFine, OwnMember
  <1> HIDE DEF k
  <1>2. OwnLeaf(m.leaf) \subseteq k.live /\ Sound(k)
    BY <1>1 DEF Turns, MemberFine, OwnMember
  <1>3. Turns(k, OwnLeaf(m.leaf), Owner!DropLeaf(k, m.leaf), {})
    BY <1>2, LeafDropped DEF MemberFine
  <1>4. Owner!DropMember(h, m) = Owner!DropLeaf(k, m.leaf)
    BY DEF Owner!DropMember, k
  <1> QED
    BY <1>1, <1>3, <1>4 DEF Turns, OwnMember

\* ~Value frees what the Value owns, each block once.
LEMMA ValueDropped ==
  ASSUME NEW h, Sound(h), NEW v, Fine(v), Own(v) \subseteq h.live
  PROVE  Turns(h, Own(v), Owner!Drop(h, v), {})
  <1>1. CASE v.self.type # "object"
    <2>1. v.members = << >>
      BY <1>1 DEF Fine
    <2>2. Own(v) = OwnLeaf(v.self)
      BY <2>1 DEF Own, OwnMembers
    <2>3. Owner!Drop(h, v) = Owner!DropLeaf(h, v.self)
      BY <1>1 DEF Owner!Drop
    <2> QED
      BY <1>1, <2>2, <2>3, LeafDropped DEF Fine
  <1>2. CASE v.self.type = "object"
    <2> DEFINE h1 == IF v.members = << >> THEN h ELSE Owner!DropMember(h, v.members[1])
               h2 == Owner!Free(h1, v.self.at)
    <2>1. Turns(h, OwnMembers(v.members), h1, {})
      <3>1. CASE v.members = << >>
        BY <3>1, Stays DEF OwnMembers
      <3>2. CASE v.members # << >>
        <4>1. MemberFine(v.members[1]) /\ OwnMember(v.members[1]) \subseteq h.live
          BY <3>2 DEF Fine, Own, OwnMembers
        <4>2. Turns(h, OwnMember(v.members[1]), Owner!DropMember(h, v.members[1]), {})
          BY <4>1, MemberDropped
        <4> QED
          BY <3>2, <4>2 DEF OwnMembers
      <3> QED
        BY <3>1, <3>2
    <2> HIDE DEF h1
    <2>2. LeafFine(v.self) /\ OwnLeaf(v.self) \cap OwnMembers(v.members) = {}
      BY DEF Fine, OwnMembers
    <2>3. OwnLeaf(v.self) \subseteq h1.live /\ Sound(h1)
      BY <2>1, <2>2 DEF Turns, Own
    <2>4. Owner!BlockOf(v.self) = v.self.at
      BY <1>2 DEF Owner!BlockOf
    <2>5. Turns(h1, {v.self.at} \ {0}, h2, {})
      <3>1. v.self.at \in h1.live \cup {0}
        BY <2>3, <2>4 DEF OwnLeaf
      <3> QED
        BY <2>3, <3>1, FreeTurns
    <2> HIDE DEF h2
    <2>6. {v.self.info, v.self.text} \ {0} \subseteq h2.live /\ Sound(h2)
      BY <2>2, <2>3, <2>4, <2>5 DEF Turns, LeafFine, OwnLeaf
    <2>7. Turns(h2, {v.self.info, v.self.text} \ {0}, Owner!DropComments(h2, v.self), {})
      BY <2>2, <2>6, CommentsDropped
    <2>8. Owner!Drop(h, v) = Owner!DropComments(h2, v.self)
      BY <1>2 DEF Owner!Drop, h1, h2
    <2>9. OwnLeaf(v.self) = ({v.self.at} \ {0}) \cup ({v.self.info, v.self.text} \ {0})
      BY <2>4 DEF OwnLeaf
    <2>10. Turns(h1, OwnLeaf(v.self), Owner!Drop(h, v), {})
      BY <2>5, <2>7, <2>8, <2>9 DEF Turns
    <2> QED
      BY <2>1, <2>2, <2>10 DEF Turns, Own
  <1> QED
    BY <1>1, <1>2

-----------------------------------------------------------------------------
(* What copies *)

LEMMA CommentsCopied ==
  ASSUME NEW h, Sound(h), NEW l, LeafFine(l)
  PROVE  LET c == Owner!CopyComments(h, l) IN
         /\ Turns(h, {}, c.heap, {c.info, c.text} \ {0})
         /\ c.info \in Nat /\ c.text \in Nat /\ (c.text # 0 => c.info # 0)
              /\ (c.info # 0 => c.info # c.text)
  <1> DEFINE c == Owner!CopyComments(h, l)
             k == Owner!Used(h)
  <1>1. Turns(h, {}, k, {Owner!Fresh(h)}) /\ Owner!Fresh(h) \in Blocks
    BY UsedTurns, FreshIs
  <1>2. Turns(k, {}, Owner!Used(k), {Owner!Fresh(k)}) /\ Owner!Fresh(k) \in Blocks
      /\ Owner!Fresh(k) \notin k.live
    BY <1>1, UsedTurns, FreshIs DEF Turns
  <1>3. CASE l.info = 0
    <2>1. c = [heap |-> h, info |-> 0, text |-> 0]
      BY <1>3 DEF Owner!CopyComments, Owner!Null
    <2>2. Turns(h, {}, h, {})
      BY Stays
    <2> QED
      BY <2>1, <2>2
  <1>4. CASE l.info # 0 /\ l.text = 0
    <2>1. c = [heap |-> k, info |-> Owner!Fresh(h), text |-> 0]
      BY <1>4 DEF Owner!CopyComments, Owner!Null
    <2> HIDE DEF k, c
    <2> QED
      BY <1>1, <2>1 DEF Turns, Blocks, c
  <1>5. CASE l.info # 0 /\ l.text # 0
    <2>1. c = [heap |-> Owner!Used(k), info |-> Owner!Fresh(h), text |-> Owner!Fresh(k)]
      BY <1>5 DEF Owner!CopyComments, Owner!Null
    <2> HIDE DEF k, c
    <2> QED
      BY <1>1, <1>2, <2>1 DEF Turns, Blocks, c
  <1> QED
    BY <1>3, <1>4, <1>5

\* What a leaf like l may hold: a block b, or none, or a static string.
Suits(l, at, allocated, b) ==
    /\ b = IF l.type = "object" \/ (l.type = "string" /\ allocated) THEN at ELSE 0
    /\ l.type \in {"null", "number"} => at = 0
    /\ l.type = "object" => at \in Blocks
    /\ l.type = "string" => IF allocated THEN at \in Nat ELSE at \in {0, -1}

\* A new leaf of the type of l, with the block b and comments of its own.
LikeLeaf(h, new, l, b) ==
    /\ LeafFine(new.made) /\ new.made.type = l.type /\ Owner!BlockOf(new.made) = b
    /\ Turns(h, {}, new.heap, {new.made.info, new.made.text} \ {0})

\* A leaf copied, but for its block: what it gets for that is at, and comments.
LEMMA WithCopied ==
  ASSUME NEW h, Sound(h), NEW l, LeafFine(l), NEW at \in Nat \cup {-1}, NEW allocated \in BOOLEAN,
         NEW b \in h.live \cup {0}, Suits(l, at, allocated, b)
  PROVE  LikeLeaf(h, Owner!CopyWith(Owner!CopyComments(h, l), l, at, allocated), l, b)
  <1> DEFINE c == Owner!CopyComments(h, l)
             new == Owner!CopyWith(c, l, at, allocated)
             w == new.made
  <1>1. /\ Turns(h, {}, c.heap, {c.info, c.text} \ {0})
        /\ c.info \in Nat /\ c.text \in Nat /\ (c.text # 0 => c.info # 0)
             /\ (c.info # 0 => c.info # c.text)
    BY CommentsCopied
  <1> HIDE DEF c
  <1>2. /\ new.heap = c.heap /\ w \in Leaves
        /\ w.type = l.type /\ w.at = at /\ w.allocated = allocated /\ w.info = c.info
             /\ w.text = c.text
    BY <1>1 DEF Owner!CopyWith, LeafFine, Leaves
  <1>3. Owner!BlockOf(w) = b
    BY <1>2 DEF Owner!BlockOf, Owner!Null, Suits
  <1>4. c.info # b \/ c.info = 0
    BY <1>1 DEF Turns
  <1>5. c.text # b \/ c.text = 0
    BY <1>1 DEF Turns
  <1> HIDE DEF new
  <1>6. LeafFine(w)
    BY <1>1, <1>2, <1>3, <1>4, <1>5 DEF LeafFine, Leaves, Suits
  <1> QED
    BY <1>1, <1>2, <1>3, <1>6 DEF new, c, LikeLeaf

LEMMA LeafCopied ==
  ASSUME NEW h, Sound(h), NEW l, LeafFine(l), l.type # "object", NEW g \in BOOLEAN
  PROVE  LET new == Owner!CopyLeaf(h, l, g) IN
         /\ LeafFine(new.made) /\ new.made.type = l.type
         /\ Turns(h, {}, new.heap, OwnLeaf(new.made))
  <1> DEFINE new == Owner!CopyLeaf(h, l, g)
  <1>1. CASE l.type = "string" /\ l.at # 0
    <2> DEFINE k == Owner!Used(h)
               f == Owner!Fresh(h)
    <2>1. Turns(h, {}, k, {f}) /\ f \in Blocks
      BY UsedTurns, FreshIs
    <2>2. new = Owner!CopyWith(Owner!CopyComments(k, l), l, f, TRUE)
      BY <1>1 DEF Owner!CopyLeaf, Owner!CopiesString, Owner!Null
    <2> HIDE DEF new, k, f
    <2>3. Sound(k) /\ f \in k.live
      BY <2>1 DEF Turns
    <2>4. /\ LeafFine(new.made) /\ new.made.type = l.type /\ Owner!BlockOf(new.made) = f
          /\ Turns(k, {}, new.heap, {new.made.info, new.made.text} \ {0})
      <3>1. f \in Nat \cup {-1} /\ TRUE \in BOOLEAN /\ f \in k.live \cup {0}
        BY <2>1, <2>3 DEF Blocks
      <3>2. Suits(l, f, TRUE, f)
        BY <1>1, <2>1 DEF Suits, Blocks
      <3> QED
        BY <2>2, <2>3, <3>1, <3>2, WithCopied, ZenonT(60) DEF LikeLeaf
    <2>5. OwnLeaf(new.made) = {f} \cup ({new.made.info, new.made.text} \ {0})
      BY <2>1, <2>4 DEF OwnLeaf, Blocks
    <2>6. Turns(h, {}, new.heap, OwnLeaf(new.made))
      BY <2>1, <2>4, <2>5 DEF Turns
    <2> QED
      BY <2>4, <2>6 DEF new
  <1>2. CASE ~(l.type = "string" /\ l.at # 0)
    <2>1. new = Owner!CopyWith(Owner!CopyComments(h, l), l, l.at, g)
      BY <1>2 DEF Owner!CopyLeaf, Owner!CopiesString, Owner!Null
    <2>2. l.at = 0
      BY <1>2 DEF LeafFine, Leaves
    <2> HIDE DEF new
    <2>3. /\ LeafFine(new.made) /\ new.made.type = l.type /\ Owner!BlockOf(new.made) = 0
          /\ Turns(h, {}, new.heap, {new.made.info, new.made.text} \ {0})
      <3>1. l.at \in Nat \cup {-1} /\ 0 \in h.live \cup {0} /\ Suits(l, l.at, g, 0)
        BY <2>2 DEF Suits
      <3> DEFINE w == Owner!CopyWith(Owner!CopyComments(h, l), l, l.at, g)
      <3>2. LikeLeaf(h, w, l, 0)
        BY <3>1, WithCopied, Zenon
      <3> HIDE DEF w
      <3> QED
        BY <2>1, <3>2 DEF LikeLeaf, w
    <2>4. OwnLeaf(new.made) = {new.made.info, new.made.text} \ {0}
      BY <2>3 DEF OwnLeaf
    <2> QED
      BY <2>3, <2>4 DEF new
  <1> QED
    BY <1>1, <1>2

\* A name that is given to a call, or a Value's own.
KeyFine(name) ==
    name.policy \in {"duplicate", "duplicateOnCopy"}
        \/ (name.policy = "noDuplication" /\ name.at = -1)

LEMMA NameCopied ==
  ASSUME NEW h, Sound(h), NEW name, KeyFine(name)
  PROVE  LET new == Owner!CopyName(h, name) IN
         /\ NameFine(new.made) /\ Turns(h, {}, new.heap, OwnName(new.made))
  <1> DEFINE new == Owner!CopyName(h, name)
  <1>1. CASE name.policy = "noDuplication"
    <2>1. new = [heap |-> h, made |-> name] /\ Owner!NameBlock(name) = 0
      BY <1>1 DEF Owner!CopyName, Owner!NameBlock, Owner!Null
    <2>2. Turns(h, {}, h, {})
      BY Stays
    <2> QED
      BY <1>1, <2>1, <2>2 DEF KeyFine, NameFine, OwnName
  <1>2. CASE name.policy # "noDuplication"
    <2>1. new = [heap |-> Owner!Used(h), made |-> [at |-> Owner!Fresh(h), policy |-> "duplicate"]]
      BY <1>2 DEF Owner!CopyName, Owner!CopiedPolicy
    <2>2. Turns(h, {}, Owner!Used(h), {Owner!Fresh(h)}) /\ Owner!Fresh(h) \in Blocks
      BY UsedTurns, FreshIs
    <2>3. OwnName(new.made) = {Owner!Fresh(h)}
      BY <2>1, <2>2 DEF OwnName, Owner!NameBlock, Blocks
    <2> QED
      BY <2>1, <2>2, <2>3 DEF NameFine
  <1> QED
    BY <1>1, <1>2

LEMMA MemberCopied ==
  ASSUME NEW h, Sound(h), NEW m, KeyFine(m.name), LeafFine(m.leaf), m.leaf.type # "object",
      NEW g \in BOOLEAN
  PROVE  LET new == Owner!CopyMember(h, m, g) IN
         /\ new.made = <<new.made[1]>> /\ MemberFine(new.made[1])
         /\ Turns(h, {}, new.heap, OwnMember(new.made[1]))
  <1> DEFINE name == Owner!CopyName(h, m.name)
             leaf == Owner!CopyLeaf(name.heap, m.leaf, g)
             new == Owner!CopyMember(h, m, g)
  <1>1. NameFine(name.made) /\ Turns(h, {}, name.heap, OwnName(name.made))
    BY NameCopied
  <1> HIDE DEF name
  <1>2. /\ LeafFine(leaf.made) /\ leaf.made.type = m.leaf.type
        /\ Turns(name.heap, {}, leaf.heap, OwnLeaf(leaf.made))
    <2>1. Sound(name.heap)
      BY <1>1 DEF Turns
    <2> QED
      BY <2>1, LeafCopied, Zenon
  <1> HIDE DEF leaf
  <1>3. new = [heap |-> leaf.heap, made |-> <<[name |-> name.made, leaf |-> leaf.made]>>]
    BY DEF Owner!CopyMember, Owner!Pair, name, leaf
  <1> HIDE DEF new
  <1> DEFINE w == [name |-> name.made, leaf |-> leaf.made]
  <1>4. w.name = name.made /\ w.leaf = leaf.made
    OBVIOUS
  <1>5. OwnName(w.name) \cap OwnLeaf(w.leaf) = {} /\ Turns(h, {}, leaf.heap, OwnMember(w))
    BY <1>1, <1>2, <1>4 DEF Turns, OwnMember
  <1>6. MemberFine(w)
    BY <1>1, <1>2, <1>5 DEF MemberFine
  <1>7. new.made = <<w>> /\ new.heap = leaf.heap
    BY <1>3
  <1> HIDE DEF w
  <1> QED
    BY <1>5, <1>6, <1>7 DEF new

\* A copy owns blocks of its own, and is all there.
LEMMA ValueCopied ==
  ASSUME NEW h, Sound(h), NEW v, Fine(v), NEW g \in BOOLEAN
  PROVE  LET new == Owner!Copy(h, v, g) IN
         /\ Fine(new.made) /\ new.made.self.type = v.self.type
         /\ Turns(h, {}, new.heap, Own(new.made))
  <1> DEFINE new == Owner!Copy(h, v, g)
  <1>1. CASE v.self.type # "object"
    <2> DEFINE leaf == Owner!CopyLeaf(h, v.self, g)
    <2>1. /\ LeafFine(leaf.made) /\ leaf.made.type = v.self.type
          /\ Turns(h, {}, leaf.heap, OwnLeaf(leaf.made))
      BY <1>1, LeafCopied DEF Fine
    <2>2. new = [heap |-> leaf.heap, made |-> [self |-> leaf.made, members |-> << >>]]
      BY <1>1 DEF Owner!Copy, Owner!Holding, Owner!With
    <2> HIDE DEF leaf, new
    <2>3. new.heap = leaf.heap /\ new.made = [self |-> leaf.made, members |-> << >>]
          /\ new.made.self = leaf.made /\ new.made.members = << >>
      BY <2>2
    <2>4. Own(new.made) = OwnLeaf(leaf.made)
      BY <2>3 DEF Own, OwnMembers
    <2>5. Fine(new.made)
      BY <2>1, <2>3 DEF Fine
    <2> QED
      BY <2>1, <2>3, <2>4, <2>5 DEF new
  <1>2. CASE v.self.type = "object"
    <2> DEFINE k == Owner!Used(h)
               f == Owner!Fresh(h)
               ms == Owner!CopyMembers(k, v.members, g)
               self == Owner!CopyWith(Owner!CopyComments(ms.heap, v.self), v.self, f, g)
    <2>1. Turns(h, {}, k, {f}) /\ f \in Blocks
      BY UsedTurns, FreshIs
    <2>2. new = [heap |-> self.heap, made |-> [self |-> self.made, members |-> ms.made]]
      BY <1>2 DEF Owner!Copy, Owner!CopyObject, Owner!Holding, Owner!With
    <2> HIDE DEF k, f
    <2>3. Sound(k) /\ f \in k.live
      BY <2>1 DEF Turns
    <2>4. /\ Turns(k, {}, ms.heap, OwnMembers(ms.made))
          /\ ms.made # << >> => ms.made = <<ms.made[1]>> /\ MemberFine(ms.made[1])
      <3>1. CASE v.members = << >>
        <4>1. ms = [heap |-> k, made |-> << >>]
          BY <3>1 DEF Owner!CopyMembers
        <4>2. Turns(k, {}, k, {})
          BY <2>3, Stays
        <4> HIDE DEF ms
        <4> QED
          BY <4>1, <4>2 DEF OwnMembers
      <3>2. CASE v.members # << >>
        <4>1. ms = Owner!CopyMember(k, v.members[1], g)
          BY <3>2 DEF Owner!CopyMembers
        <4>2. /\ KeyFine(v.members[1].name) /\ LeafFine(v.members[1].leaf)
              /\ v.members[1].leaf.type # "object"
          BY <3>2 DEF Fine, MemberFine, NameFine, KeyFine
        <4>3. /\ ms.made = <<ms.made[1]>> /\ MemberFine(ms.made[1])
              /\ Turns(k, {}, ms.heap, OwnMember(ms.made[1]))
          BY <2>3, <4>1, <4>2, MemberCopied
        <4>4. ms.made # << >>
          BY <4>3
        <4> QED
          BY <4>3, <4>4 DEF OwnMembers
      <3> QED
        BY <3>1, <3>2
    <2> HIDE DEF ms
    <2>5. Sound(ms.heap) /\ f \in ms.heap.live
      BY <2>3, <2>4 DEF Turns
    <2>6. /\ LeafFine(self.made) /\ self.made.type = "object" /\ Owner!BlockOf(self.made) = f
          /\ Turns(ms.heap, {}, self.heap, {self.made.info, self.made.text} \ {0})
      <3>1. f \in Nat \cup {-1} /\ f \in ms.heap.live \cup {0} /\ LeafFine(v.self)
        BY <2>1, <2>5 DEF Blocks, Fine
      <3>2. Suits(v.self, f, g, f)
        BY <1>2, <2>1 DEF Suits
      <3>3. LikeLeaf(ms.heap, self, v.self, f)
        BY <2>5, <3>1, <3>2, WithCopied, Zenon
      <3> HIDE DEF self
      <3> QED
        BY <1>2, <3>3 DEF LikeLeaf
    <2> HIDE DEF self, new
    <2>7. /\ new.heap = self.heap /\ new.made = [self |-> self.made, members |-> ms.made]
          /\ new.made.self = self.made /\ new.made.members = ms.made
      BY <2>2
    <2>8. OwnLeaf(self.made) = {f} \cup ({self.made.info, self.made.text} \ {0})
      BY <2>1, <2>6 DEF OwnLeaf, Blocks
    <2>9. OwnLeaf(self.made) \cap OwnMembers(ms.made) = {}
      <3>1. f \notin OwnMembers(ms.made)
        BY <2>3, <2>4 DEF Turns
      <3>2. OwnMembers(ms.made) \subseteq ms.heap.live
        BY <2>4 DEF Turns
      <3>3. ({self.made.info, self.made.text} \ {0}) \cap ms.heap.live = {}
        BY <2>6 DEF Turns
      <3> QED
        BY <2>8, <3>1, <3>2, <3>3
    <2>10. Fine(new.made)
      BY <2>4, <2>6, <2>7, <2>9 DEF Fine, OwnMembers
    <2>11. Own(new.made) = ({f} \cup OwnMembers(ms.made)) \cup
        ({self.made.info, self.made.text} \ {0})
      BY <2>7, <2>8 DEF Own
    <2>12. Turns(h, {}, ms.heap, {f} \cup OwnMembers(ms.made))
      BY <2>1, <2>4 DEF Turns
    <2>13. Turns(h, {}, self.heap, Own(new.made))
      BY <2>6, <2>11, <2>12 DEF Turns
    <2> QED
      BY <1>2, <2>6, <2>7, <2>10, <2>13 DEF new
  <1> QED
    BY <1>1, <1>2

-----------------------------------------------------------------------------
(* What assigns *)

\* All but the comments changes hands.
LEMMA SwappedIs ==
  ASSUME NEW v, NEW w, Fine(v), Fine(w), Own(v) \cap Own(w) = {}
  PROVE  LET p == Owner!Swapped(v, w)
             q == Owner!Swapped(w, v)
         IN  /\ Fine(p) /\ Fine(q) /\ Own(p) \cap Own(q) = {}
                  /\ Own(p) \cup Own(q) = Own(v) \cup Own(w)
             /\ p.self.type = w.self.type
  <1> DEFINE Notes(l) == {l.info, l.text} \ {0}
             Rest(u) == ({Owner!BlockOf(u.self)} \ {0}) \cup OwnMembers(u.members)
  <1>1. ASSUME NEW a, NEW b, Fine(a), Fine(b), Own(a) \cap Own(b) = {}
        PROVE  LET p == Owner!Swapped(a, b) IN
               Fine(p) /\ Own(p) = Rest(b) \cup Notes(a.self) /\ p.self.type = b.self.type
    <2> DEFINE p == Owner!Swapped(a, b)
    <2>1. /\ p = [self |-> p.self, members |-> p.members] /\ p.members = b.members
          /\ p.self = [b.self EXCEPT !.info = a.self.info, !.text = a.self.text]
      BY DEF Owner!Swapped, Owner!With
    <2> HIDE DEF p
    <2>2. LeafFine(a.self) /\ LeafFine(b.self)
      BY <1>1 DEF Fine
    <2>3. /\ p.self \in Leaves /\ p.self.type = b.self.type /\ p.self.at = b.self.at
          /\ p.self.allocated = b.self.allocated /\ p.self.info = a.self.info
               /\ p.self.text = a.self.text
      BY <2>1, <2>2 DEF LeafFine, Leaves
    <2>4. Owner!BlockOf(p.self) = Owner!BlockOf(b.self)
      BY <2>3 DEF Owner!BlockOf
    <2>5. Notes(a.self) \cap Rest(b) = {}
      BY <1>1 DEF Own, OwnLeaf
    <2>6. LeafFine(p.self)
      <3>1. /\ a.self.info # 0 => a.self.info # Owner!BlockOf(b.self)
            /\ a.self.text # 0 => a.self.text # Owner!BlockOf(b.self)
        BY <2>5
      <3> QED
        BY <2>2, <2>3, <2>4, <3>1 DEF LeafFine
    <2>7. OwnLeaf(p.self) = ({Owner!BlockOf(b.self)} \ {0}) \cup Notes(a.self)
      BY <2>3, <2>4 DEF OwnLeaf
    <2>8. Own(p) = Rest(b) \cup Notes(a.self)
      BY <2>1, <2>7 DEF Own
    <2>9. OwnLeaf(p.self) \cap OwnMembers(b.members) = {}
      <3>1. ({Owner!BlockOf(b.self)} \ {0}) \cap OwnMembers(b.members) = {}
        BY <1>1 DEF Fine, OwnMembers, OwnLeaf
      <3> QED
        BY <2>5, <2>7, <3>1
    <2>10. Fine(p)
      BY <1>1, <2>1, <2>3, <2>6, <2>9 DEF Fine, OwnMembers
    <2> QED
      BY <2>3, <2>8, <2>10 DEF p
  <1> DEFINE p == Owner!Swapped(v, w)
             q == Owner!Swapped(w, v)
  <1>2. Fine(p) /\ Own(p) = Rest(w) \cup Notes(v.self) /\ p.self.type = w.self.type
    BY <1>1
  <1>3. Own(w) \cap Own(v) = {}
    OBVIOUS
  <1>4. Fine(q) /\ Own(q) = Rest(v) \cup Notes(w.self)
    BY <1>1, <1>3
  <1>5. ASSUME NEW u, Fine(u) PROVE Own(u) = Rest(u) \cup Notes(u.self)
      /\ Rest(u) \cap Notes(u.self) = {}
    <2>1. OwnLeaf(u.self) = ({Owner!BlockOf(u.self)} \ {0}) \cup Notes(u.self)
      BY DEF OwnLeaf
    <2>2. ({Owner!BlockOf(u.self)} \ {0}) \cap Notes(u.self) = {}
      BY <1>5 DEF Fine, LeafFine
    <2>3. OwnLeaf(u.self) \cap OwnMembers(u.members) = {}
      BY <1>5 DEF Fine, OwnMembers
    <2> QED
      BY <2>1, <2>2, <2>3 DEF Own
  <1>6. /\ Own(v) = Rest(v) \cup Notes(v.self) /\ Rest(v) \cap Notes(v.self) = {}
        /\ Own(w) = Rest(w) \cup Notes(w.self) /\ Rest(w) \cap Notes(w.self) = {}
    BY <1>5
  <1> HIDE DEF Rest, Notes, p, q
  <1>7. Own(p) \cap Own(q) = {} /\ Own(p) \cup Own(q) = Own(v) \cup Own(w)
    BY <1>2, <1>4, <1>6
  <1> QED
    BY <1>2, <1>4, <1>7 DEF p, q

\* What an operation leaves of blocks O, with the Value it makes.
Makes(h, O, new) == Fine(new.made) /\ Turns(h, O, new.heap, Own(new.made))

LEMMA AssignedIs ==
  ASSUME NEW h, Sound(h), NEW v, Fine(v), Own(v) \subseteq h.live, NEW w, Fine(w), NEW g \in BOOLEAN
  PROVE  LET new == Owner!Assigned(h, v, w, g) IN Makes(h, Own(v), new)
      /\ new.made.self.type = w.self.type
  <1> DEFINE temp == Owner!Copy(h, w, g)
             p == Owner!Swapped(v, temp.made)
             q == Owner!Swapped(temp.made, v)
             new == Owner!Assigned(h, v, w, g)
  <1>1. /\ Fine(temp.made) /\ temp.made.self.type = w.self.type
        /\ Turns(h, {}, temp.heap, Own(temp.made))
    BY ValueCopied
  <1>2. new.heap = Owner!Drop(temp.heap, q) /\ new.made = p
    BY DEF Owner!Assigned, Owner!Exchanged
  <1> HIDE DEF temp, new
  <1>3. Own(v) \cap Own(temp.made) = {}
    BY <1>1 DEF Turns
  <1>4. /\ Fine(p) /\ Fine(q) /\ Own(p) \cap Own(q) = {}
             /\ Own(p) \cup Own(q) = Own(v) \cup Own(temp.made)
        /\ p.self.type = temp.made.self.type
    BY <1>1, <1>3, SwappedIs
  <1> HIDE DEF p, q
  <1>5. Sound(temp.heap) /\ Own(q) \subseteq temp.heap.live
    BY <1>1, <1>4 DEF Turns
  <1>6. Turns(temp.heap, Own(q), Owner!Drop(temp.heap, q), {})
    BY <1>4, <1>5, ValueDropped
  <1>7. Turns(h, Own(v), new.heap, Own(p))
    <2>1. new.heap.live = temp.heap.live \ Own(q) /\ temp.heap.live = h.live \cup Own(temp.made)
      BY <1>1, <1>2, <1>6 DEF Turns
    <2>2. h.live \cap Own(temp.made) = {}
      BY <1>1 DEF Turns
    <2>3. new.heap.live = (h.live \ Own(v)) \cup Own(p)
      BY <1>4, <2>1, <2>2
    <2>4. Own(p) \cap (h.live \ Own(v)) = {}
      BY <1>4, <2>2
    <2> QED
      BY <1>2, <1>6, <2>3, <2>4 DEF Turns
  <1> QED
    BY <1>1, <1>2, <1>4, <1>7 DEF Makes, new

LEMMA ConstructedIs ==
  ASSUME NEW h, Sound(h), NEW k \in Owner!Kinds, NEW g \in BOOLEAN
  PROVE  LET new == Owner!Constructed(h, k, g) IN
         Makes(h, {}, new) /\ (k = "object" => new.made.self.type = "object")
  <1> DEFINE f == Owner!Fresh(h)
             u == Owner!Used(h)
             new == Owner!Constructed(h, k, g)
             l == new.made.self
  <1>1. Turns(h, {}, u, {f}) /\ f \in Blocks
    BY UsedTurns, FreshIs
  <1>2. Turns(h, {}, h, {})
    BY Stays
  <1> HIDE DEF f, u
  <1>3. /\ new.made = [self |-> l, members |-> << >>]
        /\ l \in Leaves /\ l.info = 0 /\ l.text = 0
        /\ \/ new.heap = h /\ l.type \in {"null", "number"} /\ l.at = 0
           \/ new.heap = h /\ l.type = "string" /\ l.allocated = FALSE /\ l.at \in {0, -1}
           \/ new.heap = u /\ l.type = "string" /\ l.allocated = TRUE /\ l.at = f
           \/ new.heap = u /\ l.type = "object" /\ l.at = f
        /\ k = "object" => l.type = "object"
    <2> USE <1>1 DEF Owner!Constructed, Owner!With, Owner!NullValue, Owner!Leaf, Owner!Null,
        Owner!Static, Leaves, Blocks
    <2>1. CASE k = "null"
      BY <2>1
    <2>2. CASE k = "number"
      BY <2>2
    <2>3. CASE k = "no string"
      BY <2>3
    <2>4. CASE k = "string"
      BY <2>4 DEF f, u
    <2>5. CASE k = "static"
      BY <2>5
    <2>6. CASE k = "object"
      BY <2>6 DEF f, u
    <2> QED
      BY <2>1, <2>2, <2>3, <2>4, <2>5, <2>6 DEF Owner!Kinds
  <1> HIDE DEF new, l
  <1>4. LeafFine(l) /\ Turns(h, {}, new.heap, OwnLeaf(l))
    <2>1. CASE new.heap = h /\ l.type \in {"null", "number"} /\ l.at = 0
      <3>1. Owner!BlockOf(l) = 0
        BY <2>1 DEF Owner!BlockOf, Owner!Null
      <3> QED
        BY <1>2, <1>3, <2>1, <3>1 DEF LeafFine, OwnLeaf
    <2>2. CASE new.heap = h /\ l.type = "string" /\ l.allocated = FALSE /\ l.at \in {0, -1}
      <3>1. Owner!BlockOf(l) = 0
        BY <2>2 DEF Owner!BlockOf, Owner!Null
      <3> QED
        BY <1>2, <1>3, <2>2, <3>1 DEF LeafFine, OwnLeaf
    <2>3. CASE new.heap = u /\ (l.type = "object" \/ (l.type = "string" /\ l.allocated = TRUE))
        /\ l.at = f
      <3>1. Owner!BlockOf(l) = f
        BY <2>3 DEF Owner!BlockOf, Owner!Null
      <3>2. OwnLeaf(l) = {f}
        BY <1>1, <1>3, <3>1 DEF OwnLeaf, Blocks
      <3> QED
        BY <1>1, <1>3, <2>3, <3>1, <3>2 DEF LeafFine, Blocks
    <2> QED
      BY <1>3, <2>1, <2>2, <2>3
  <1>5. new.made.self = l /\ new.made.members = << >>
    BY <1>3
  <1>6. Fine(new.made) /\ Own(new.made) = OwnLeaf(l)
    BY <1>3, <1>4, <1>5 DEF Fine, Own, OwnMembers
  <1> QED
    BY <1>3, <1>4, <1>5, <1>6 DEF Makes, new

\* A null that becomes an object.
LEMMA ObjectIs ==
  ASSUME Sound(heap), NEW v, Fine(v), Own(v) \subseteq heap.live,
      v.self.type \in {"null", "object"},
         NEW g \in BOOLEAN
  PROVE  LET new == Owner!AsObject(v, g) IN Makes(heap, Own(v), new)
      /\ new.made.self.type = "object"
  <1> DEFINE empty == Owner!Constructed(heap, "object", g)
             next == Owner!Assigned(empty.heap, v, empty.made, g)
             new == Owner!AsObject(v, g)
  <1>1. CASE v.self.type = "object"
    <2>1. new = [heap |-> heap, made |-> v]
      BY <1>1 DEF Owner!AsObject
    <2>2. Turns(heap, Own(v), heap, Own(v))
      BY Stays
    <2> QED
      BY <1>1, <2>1, <2>2 DEF Makes
  <1>2. CASE v.self.type = "null"
    <2>1. Makes(heap, {}, empty) /\ empty.made.self.type = "object"
      BY ConstructedIs DEF Owner!Kinds
    <2> HIDE DEF empty
    <2>2. /\ Sound(empty.heap) /\ Own(v) \subseteq empty.heap.live /\ Fine(empty.made)
          /\ Own(empty.made) \subseteq empty.heap.live /\ Own(v) \cap Own(empty.made) = {}
      BY <2>1 DEF Makes, Turns
    <2>3. Makes(empty.heap, Own(v), next) /\ next.made.self.type = "object"
      BY <2>1, <2>2, AssignedIs
    <2> HIDE DEF next
    <2>4. Sound(next.heap) /\ Own(empty.made) \subseteq next.heap.live
        /\ Own(empty.made) \cap Own(next.made) = {}
      BY <2>2, <2>3 DEF Makes, Turns
    <2>5. Turns(next.heap, Own(empty.made), Owner!Drop(next.heap, empty.made), {})
      BY <2>2, <2>4, ValueDropped
    <2>6. new = [next EXCEPT !.heap = Owner!Drop(next.heap, empty.made)]
      BY <1>2 DEF Owner!AsObject, empty, next
    <2>7. next = [heap |-> next.heap, made |-> next.made]
      BY DEF next, Owner!Assigned, Owner!Exchanged
    <2>8. new.heap = Owner!Drop(next.heap, empty.made) /\ new.made = next.made
      BY <2>6, <2>7
    <2> HIDE DEF new
    <2>9. Turns(heap, Own(v), new.heap, Own(next.made))
      BY <2>1, <2>3, <2>4, <2>5, <2>8 DEF Makes, Turns
    <2> QED
      BY <2>3, <2>8, <2>9 DEF Makes, new
  <1> QED
    BY <1>1, <1>2

LEMMA InsertedIs ==
  ASSUME NEW o, Sound(o.heap), Fine(o.made), Own(o.made) \subseteq o.heap.live,
      o.made.members = << >>,
         o.made.self.type = "object", NEW name, KeyFine(name), NEW g \in BOOLEAN
  PROVE  Makes(o.heap, Own(o.made), Owner!Inserted(o, name, g))
  <1> DEFINE pair == Owner!CopyName(o.heap, name)
             null == [name |-> pair.made, leaf |-> Owner!NullValue]
             member == Owner!CopyMember(pair.heap, null, g)
             new == Owner!Inserted(o, name, g)
  <1>1. NameFine(pair.made) /\ Turns(o.heap, {}, pair.heap, OwnName(pair.made))
    BY NameCopied
  <1>2. /\ new.heap = Owner!DropName(member.heap, pair.made)
        /\ new.made = [self |-> o.made.self, members |-> member.made]
        /\ new.made.self = o.made.self /\ new.made.members = member.made
    BY DEF Owner!Inserted, Owner!With
  <1> HIDE DEF pair, new
  <1>3. /\ KeyFine(null.name) /\ LeafFine(null.leaf) /\ null.leaf.type # "object"
    BY <1>1 DEF NameFine, KeyFine, LeafFine, Leaves, Owner!NullValue, Owner!Leaf, Owner!Null,
        Owner!BlockOf
  <1>4. Sound(pair.heap)
    BY <1>1 DEF Turns
  <1> HIDE DEF null
  <1>5. /\ member.made = <<member.made[1]>> /\ MemberFine(member.made[1])
        /\ Turns(pair.heap, {}, member.heap, OwnMember(member.made[1]))
    BY <1>3, <1>4, MemberCopied
  <1> HIDE DEF member
  <1>6. Sound(member.heap) /\ OwnName(pair.made) \subseteq member.heap.live
    BY <1>1, <1>5 DEF Turns
  <1>7. Turns(member.heap, OwnName(pair.made), new.heap, {})
    BY <1>1, <1>2, <1>6, NameDropped
  <1> DEFINE M == OwnMember(member.made[1])
  <1>8. Turns(o.heap, {}, new.heap, M)
    <2> HIDE DEF M
    <2>1. Turns(pair.heap, {}, member.heap, M)
      BY <1>5 DEF M
    <2> QED
      BY <1>1, <1>7, <2>1 DEF Turns
  <1>9. OwnLeaf(o.made.self) = Own(o.made) /\ member.made # << >>
    BY <1>5 DEF Own, OwnMembers
  <1>10. Own(new.made) = Own(o.made) \cup M /\ Own(o.made) \cap M = {}
    BY <1>2, <1>8, <1>9 DEF Own, OwnMembers, Turns
  <1> HIDE DEF M
  <1>11. Fine(new.made)
    BY <1>2, <1>5, <1>9, <1>10 DEF Fine, M
  <1>12. Turns(o.heap, Own(o.made), new.heap, Own(new.made))
    BY <1>8, <1>10 DEF Turns
  <1> QED
    BY <1>11, <1>12 DEF Makes, new

LEMMA ResolvedIs ==
  ASSUME Sound(heap), NEW v, Fine(v), Own(v) \subseteq heap.live,
      v.self.type \in {"null", "object"},
         NEW name, KeyFine(name), NEW g \in BOOLEAN
  PROVE  Makes(heap, Own(v), Owner!Resolve(Owner!AsObject(v, g), name, g))
  <1> DEFINE o == Owner!AsObject(v, g)
  <1>1. Makes(heap, Own(v), o) /\ o.made.self.type = "object"
    BY ObjectIs
  <1> HIDE DEF o
  <1>2. CASE o.made.members # << >>
    <2>1. Owner!Resolve(o, name, g) = o
      BY <1>2 DEF Owner!Resolve
    <2> QED
      BY <1>1, <2>1 DEF o
  <1>3. CASE o.made.members = << >>
    <2>1. Owner!Resolve(o, name, g) = Owner!Inserted(o, name, g)
      BY <1>3 DEF Owner!Resolve
    <2>2. Sound(o.heap) /\ Fine(o.made) /\ Own(o.made) \subseteq o.heap.live
      BY <1>1 DEF Makes, Turns
    <2>3. Makes(o.heap, Own(o.made), Owner!Inserted(o, name, g))
      BY <1>1, <1>3, <2>2, InsertedIs
    <2> DEFINE new == Owner!Inserted(o, name, g)
    <2> HIDE DEF new
    <2>4. Makes(heap, Own(v), new)
      BY <1>1, <2>3, Follow DEF Makes, new
    <2> QED
      BY <2>1, <2>4 DEF o, new
  <1> QED
    BY <1>2, <1>3

\* The leaf of a member, as a Value.
LEMMA LeafAsValue ==
  ASSUME NEW l, LeafFine(l)
  PROVE  Fine(Owner!With(l, << >>)) /\ Own(Owner!With(l, << >>)) = OwnLeaf(l)
      /\ Owner!With(l, << >>).self = l
  BY DEF Owner!With, Fine, Own, OwnMembers

LEMMA MemberSetIs ==
  ASSUME NEW h, Sound(h), NEW v, Fine(v), Own(v) \subseteq h.live, v.members # << >>,
         NEW w, Fine(w), w.self.type # "object", NEW g \in BOOLEAN
  PROVE  Makes(h, Own(v),
      Owner!WithLeaf(v, Owner!Assigned(h, Owner!With(v.members[1].leaf, << >>), w, g)))
  <1> DEFINE m == v.members[1]
             leaf == Owner!Assigned(h, Owner!With(m.leaf, << >>), w, g)
             new == Owner!WithLeaf(v, leaf)
             n == [name |-> m.name, leaf |-> leaf.made.self]
             Rest == OwnLeaf(v.self) \cup OwnName(m.name)
  <1>1. /\ v = [self |-> v.self, members |-> v.members] /\ v.members = <<m>> /\ MemberFine(m)
        /\ v.self.type = "object" /\ LeafFine(v.self)
        /\ OwnLeaf(v.self) \cap OwnMember(m) = {}
    BY DEF Fine
  <1>2. /\ m = [name |-> m.name, leaf |-> m.leaf] /\ NameFine(m.name) /\ LeafFine(m.leaf)
        /\ OwnName(m.name) \cap OwnLeaf(m.leaf) = {}
    BY <1>1 DEF MemberFine
  <1>3. Own(v) = Rest \cup OwnLeaf(m.leaf) /\ Rest \cap OwnLeaf(m.leaf) = {}
    BY <1>1, <1>2 DEF Own, OwnMembers, OwnMember
  <1>4. Fine(Owner!With(m.leaf, << >>)) /\ Own(Owner!With(m.leaf, << >>)) = OwnLeaf(m.leaf)
    BY <1>2, LeafAsValue
  <1>5. Makes(h, OwnLeaf(m.leaf), leaf) /\ leaf.made.self.type = w.self.type
    <2>1. Own(Owner!With(m.leaf, << >>)) \subseteq h.live
      BY <1>3, <1>4
    <2>2. Makes(h, Own(Owner!With(m.leaf, << >>)), leaf) /\ leaf.made.self.type = w.self.type
      BY <1>4, <2>1, AssignedIs
    <2> QED
      BY <1>4, <2>2
  <1>6. /\ new.heap = leaf.heap /\ new.made = [v EXCEPT !.members[1].leaf = leaf.made.self]
    BY DEF Owner!WithLeaf
  <1> HIDE DEF leaf, new
  <1>7. LeafFine(leaf.made.self) /\ leaf.made.self.type # "object"
      /\ Own(leaf.made) = OwnLeaf(leaf.made.self)
    BY <1>5 DEF Makes, Fine, Own, OwnMembers
  <1>8. Turns(h, OwnLeaf(m.leaf), new.heap, OwnLeaf(leaf.made.self))
    BY <1>5, <1>6, <1>7 DEF Makes
  <1>9. Rest \cap OwnLeaf(leaf.made.self) = {}
    BY <1>3, <1>8 DEF Turns
  <1>10. new.made = [self |-> v.self, members |-> <<n>>]
    <2>1. [m EXCEPT !.leaf = leaf.made.self] = n
      BY <1>2
    <2>2. [v.members EXCEPT ![1].leaf = leaf.made.self] = <<n>>
      <3>1. [v.members EXCEPT ![1].leaf = leaf.made.self] = [v.members EXCEPT ![1] = [m EXCEPT !.leaf = leaf.made.self]]
        OBVIOUS
      <3> HIDE DEF n, m
      <3>2. [<<m>> EXCEPT ![1] = n] = <<n>>
        OBVIOUS
      <3> QED
        BY <1>1, <2>1, <3>1, <3>2
    <2>3. new.made = [v EXCEPT !.members = [v.members EXCEPT ![1].leaf = leaf.made.self]]
      BY <1>6
    <2> HIDE DEF n
    <2> QED
      BY <1>1, <2>2, <2>3
  <1>11. new.made.self = v.self /\ new.made.members = <<n>> /\ n.name = m.name
      /\ n.leaf = leaf.made.self
    BY <1>10
  <1> HIDE DEF m
  <1>12. OwnMember(n) = OwnName(m.name) \cup OwnLeaf(leaf.made.self)
    BY <1>11 DEF OwnMember
  <1>13. MemberFine(n)
    BY <1>2, <1>7, <1>9, <1>11 DEF MemberFine
  <1>14. OwnLeaf(v.self) \cap OwnMember(n) = {}
    BY <1>1, <1>9, <1>12 DEF OwnMember
  <1> HIDE DEF n
  <1>15. new.made.members[1] = n /\ new.made.members # << >>
    BY <1>11
  <1>16. Fine(new.made)
    BY <1>1, <1>10, <1>11, <1>13, <1>14, <1>15 DEF Fine
  <1>17. Own(new.made) = Rest \cup OwnLeaf(leaf.made.self)
    BY <1>11, <1>12, <1>15 DEF Own, OwnMembers
  <1> HIDE DEF Rest
  <1>18. Turns(h, Own(v), new.heap, Own(new.made))
    <2>1. Rest \subseteq h.live
      BY <1>3
    <2> QED
      BY <1>3, <1>8, <1>9, <1>17, <2>1 DEF Turns
  <1> QED
    BY <1>16, <1>18 DEF Makes, new, leaf, m

LEMMA MemberRemovedIs ==
  ASSUME NEW h, Sound(h), NEW v, Fine(v), Own(v) \subseteq h.live, v.members # << >>,
      NEW g \in BOOLEAN
  PROVE  LET old == Owner!CopyLeaf(h, v.members[1].leaf, g)
             gone == Owner!DropMember(old.heap, v.members[1])
         IN  Makes(h, Own(v),
             [heap |-> Owner!DropLeaf(gone, old.made), made |-> [v EXCEPT !.members = << >>]])
  <1> DEFINE m == v.members[1]
             old == Owner!CopyLeaf(h, m.leaf, g)
             gone == Owner!DropMember(old.heap, m)
             end == Owner!DropLeaf(gone, old.made)
             made == [v EXCEPT !.members = << >>]
  <1>1. /\ v = [self |-> v.self, members |-> v.members] /\ MemberFine(m) /\ LeafFine(v.self)
        /\ OwnLeaf(v.self) \cap OwnMember(m) = {} /\ Own(v) = OwnLeaf(v.self) \cup OwnMember(m)
    BY DEF Fine, Own, OwnMembers
  <1>2. LeafFine(m.leaf) /\ m.leaf.type # "object"
    BY <1>1 DEF MemberFine
  <1>3. LeafFine(old.made) /\ old.made.type = m.leaf.type
      /\ Turns(h, {}, old.heap, OwnLeaf(old.made))
    BY <1>2, LeafCopied
  <1> HIDE DEF old
  <1>4. Sound(old.heap) /\ OwnMember(m) \subseteq old.heap.live
      /\ OwnMember(m) \cap OwnLeaf(old.made) = {}
    BY <1>1, <1>3 DEF Turns
  <1>5. Turns(old.heap, OwnMember(m), gone, {})
    BY <1>1, <1>4, MemberDropped
  <1> HIDE DEF gone
  <1>6. Sound(gone) /\ OwnLeaf(old.made) \subseteq gone.live
    BY <1>3, <1>4, <1>5 DEF Turns
  <1>7. Turns(gone, OwnLeaf(old.made), end, {})
    BY <1>2, <1>3, <1>6, LeafDropped
  <1> HIDE DEF end
  <1>8. made.self = v.self /\ made.members = << >>
      /\ made = [self |-> made.self, members |-> made.members]
    BY <1>1
  <1> HIDE DEF made, m
  <1>9. Fine(made) /\ Own(made) = OwnLeaf(v.self)
    BY <1>1, <1>8 DEF Fine, Own, OwnMembers
  <1>10. Turns(h, Own(v), end, Own(made))
    <2> DEFINE A == OwnLeaf(v.self)
               B == OwnMember(m)
               C == OwnLeaf(old.made)
    <2>1. A \cap B = {} /\ Own(v) = A \cup B /\ Own(made) = A /\ A \cup B \subseteq h.live
      BY <1>1, <1>9
    <2>2. Turns(h, {}, old.heap, C) /\ Turns(old.heap, B, gone, {}) /\ Turns(gone, C, end, {})
      BY <1>3, <1>5, <1>7
    <2> HIDE DEF A, B, C
    <2> QED
      BY <2>1, <2>2 DEF Turns
  <1> DEFINE new == [heap |-> end, made |-> made]
  <1>11. new.heap = end /\ new.made = made
    OBVIOUS
  <1> HIDE DEF new
  <1>12. Makes(h, Own(v), new)
    BY <1>9, <1>10, <1>11 DEF Makes
  <1> QED
    BY <1>12 DEF new, end, gone, old, made, m

LEMMA CommentedIs ==
  ASSUME NEW h, Sound(h), NEW v, Fine(v), Own(v) \subseteq h.live
  PROVE  LET self == Owner!Commented(h, v.self)
         IN  Makes(h, Own(v), [heap |-> self.heap, made |-> [v EXCEPT !.self = self.made]])
  <1> DEFINE l == v.self
             h1 == IF l.info = 0 THEN Owner!Used(h) ELSE h
             i == IF l.info = 0 THEN Owner!Fresh(h) ELSE l.info
             h2 == Owner!Free(h1, l.text)
             t == Owner!Fresh(h2)
             self == Owner!Commented(h, l)
             w == self.made
             b == Owner!BlockOf(l)
             Rest == OwnMembers(v.members) \cup ({b} \ {0})
  <1>1. LeafFine(l) /\ OwnLeaf(l) \cap OwnMembers(v.members) = {}
      /\ v = [self |-> l, members |-> v.members]
    BY DEF Fine, OwnMembers
  <1>2. l \in Leaves /\ l.info \in Nat /\ l.text \in Nat /\ (l.text # 0 => l.info # 0)
    BY <1>1 DEF LeafFine, Leaves
  <1>3. /\ self.heap = Owner!Used(h2)
        /\ w = [l EXCEPT !.info = i, !.text = t]
    BY DEF Owner!Commented, Owner!Cleared, Owner!ReleasesComment, Owner!Null
  <1>4. Turns(h, {l.info} \ {0}, h1, {i}) /\ i \in Blocks
    <2>1. CASE l.info = 0
      <3>1. Turns(h, {}, Owner!Used(h), {Owner!Fresh(h)}) /\ Owner!Fresh(h) \in Blocks
        BY UsedTurns, FreshIs
      <3>2. {l.info} \ {0} = {}
        BY <2>1
      <3> QED
        BY <2>1, <3>1, <3>2
    <2>2. CASE l.info # 0
      <3>1. {l.info} \ {0} = {l.info} /\ {l.info} \subseteq h.live
        BY <2>2 DEF Own, OwnLeaf
      <3>2. Turns(h, {l.info}, h, {l.info})
        BY <3>1, Stays
      <3> QED
        BY <1>2, <2>2, <3>1, <3>2 DEF Blocks
    <2> QED
      BY <2>1, <2>2
  <1>5. /\ Own(v) = Rest \cup ({l.info} \ {0}) \cup ({l.text} \ {0})
        /\ Rest \cap (({l.info} \ {0}) \cup ({l.text} \ {0})) = {}
        /\ ({l.info} \ {0}) \cap ({l.text} \ {0}) = {}
    <2>1. OwnLeaf(l) = ({b} \ {0}) \cup ({l.info} \ {0}) \cup ({l.text} \ {0})
      BY DEF OwnLeaf
    <2>2. /\ ({b} \ {0}) \cap (({l.info} \ {0}) \cup ({l.text} \ {0})) = {}
          /\ ({l.info} \ {0}) \cap ({l.text} \ {0}) = {}
      BY <1>1 DEF LeafFine
    <2> HIDE DEF l, b
    <2> QED
      BY <1>1, <2>1, <2>2 DEF Own, l
  <1> HIDE DEF h1, i
  <1>6. Sound(h1) /\ l.text \in h1.live \cup {0}
    <2>1. {l.text} \ {0} \subseteq h.live
      BY <1>5
    <2> QED
      BY <1>4, <1>5, <2>1 DEF Turns
  <1>7. Turns(h1, {l.text} \ {0}, h2, {})
    BY <1>6, FreeTurns
  <1> HIDE DEF h2
  <1>8. Turns(h2, {}, self.heap, {t}) /\ t \in Blocks
    <2>1. Sound(h2)
      BY <1>7 DEF Turns
    <2> QED
      BY <1>3, <2>1, UsedTurns, FreshIs
  <1> HIDE DEF t
  <1>9. /\ Turns(h, ({l.info} \ {0}) \cup ({l.text} \ {0}), self.heap, {i} \cup {t}) /\ i # t
        /\ Rest \cap ({i} \cup {t}) = {} /\ Turns(h, Own(v), self.heap, Rest \cup ({i} \cup {t}))
    <2> DEFINE I == {l.info} \ {0}
               T == {l.text} \ {0}
    <2>1. /\ Own(v) = Rest \cup I \cup T /\ Rest \cap (I \cup T) = {} /\ I \cap T = {}
               /\ Own(v) \subseteq h.live
      BY <1>5
    <2>2. Turns(h, I, h1, {i}) /\ Turns(h1, T, h2, {}) /\ Turns(h2, {}, self.heap, {t})
      BY <1>4, <1>7, <1>8
    <2> HIDE DEF I, T, Rest, self, l
    <2>3. {i} \cap T = {}
      BY <2>1, <2>2 DEF Turns
    <2>4. Turns(h, I \cup T, self.heap, {i} \cup {t}) /\ i # t
      BY <2>1, <2>2, <2>3 DEF Turns
    <2>5. Rest \cap ({i} \cup {t}) = {} /\ Turns(h, Own(v), self.heap, Rest \cup ({i} \cup {t}))
      BY <2>1, <2>4 DEF Turns
    <2> QED
      BY <2>4, <2>5 DEF I, T
  <1>10. /\ w \in Leaves /\ w.type = l.type /\ w.at = l.at /\ w.allocated = l.allocated
              /\ w.info = i /\ w.text = t
    BY <1>2, <1>3, <1>4, <1>8 DEF Leaves, Blocks
  <1> HIDE DEF self
  <1>11. Owner!BlockOf(w) = b
    BY <1>10 DEF Owner!BlockOf
  <1>12. i # b /\ t # b
    BY <1>4, <1>8, <1>9 DEF Blocks
  <1>13. LeafFine(w)
    BY <1>1, <1>4, <1>9, <1>10, <1>11, <1>12 DEF LeafFine, Blocks
  <1>14. OwnLeaf(w) = ({b} \ {0}) \cup ({i} \cup {t})
    BY <1>4, <1>8, <1>10, <1>11 DEF OwnLeaf, Blocks
  <1> DEFINE made == [v EXCEPT !.self = w]
             new == [heap |-> self.heap, made |-> made]
  <1>15. /\ made = [self |-> w, members |-> v.members] /\ made.self = w /\ made.members = v.members
         /\ new.heap = self.heap /\ new.made = made
    BY <1>1
  <1> HIDE DEF made, new
  <1>16. Own(made) = Rest \cup ({i} \cup {t})
    BY <1>14, <1>15 DEF Own
  <1>17. OwnLeaf(w) \cap OwnMembers(v.members) = {}
    <2>1. ({b} \ {0}) \cap OwnMembers(v.members) = {}
      BY <1>1 DEF OwnLeaf
    <2> QED
      BY <1>9, <1>14, <2>1
  <1>18. Fine(made)
    BY <1>10, <1>13, <1>15, <1>17 DEF Fine, OwnMembers
  <1>19. Makes(h, Own(v), new)
    BY <1>9, <1>15, <1>16, <1>18 DEF Makes
  <1> QED
    BY <1>19 DEF new, made, self

\* A comment that is refused where there was none leaves none.
LEMMA RefusedIs ==
  ASSUME NEW h, Sound(h), NEW v, Fine(v), Own(v) \subseteq h.live, v.self.text = 0
  PROVE  LET self == Owner!Cleared(h, v.self)
         IN  Makes(h, Own(v), [heap |-> self.heap, made |-> [v EXCEPT !.self = self.made]])
  <1> DEFINE l == v.self
             h1 == IF l.info = 0 THEN Owner!Used(h) ELSE h
             i == IF l.info = 0 THEN Owner!Fresh(h) ELSE l.info
             self == Owner!Cleared(h, l)
             w == self.made
             b == Owner!BlockOf(l)
             Rest == OwnMembers(v.members) \cup ({b} \ {0})
             I == {l.info} \ {0}
  <1>1. LeafFine(l) /\ OwnLeaf(l) \cap OwnMembers(v.members) = {}
      /\ v = [self |-> l, members |-> v.members]
    BY DEF Fine, OwnMembers
  <1>2. l \in Leaves /\ l.info \in Nat /\ l.text = 0
    BY <1>1 DEF LeafFine, Leaves
  <1>3. Turns(h, I, h1, {i}) /\ i \in Blocks
    <2>1. CASE l.info = 0
      <3>1. Turns(h, {}, Owner!Used(h), {Owner!Fresh(h)}) /\ Owner!Fresh(h) \in Blocks
        BY UsedTurns, FreshIs
      <3>2. {l.info} \ {0} = {}
        BY <2>1
      <3> QED
        BY <2>1, <3>1, <3>2
    <2>2. CASE l.info # 0
      <3>1. {l.info} \ {0} = {l.info} /\ {l.info} \subseteq h.live
        BY <2>2 DEF Own, OwnLeaf
      <3>2. Turns(h, {l.info}, h, {l.info})
        BY <3>1, Stays
      <3> QED
        BY <1>2, <2>2, <3>1, <3>2 DEF Blocks
    <2> QED
      BY <2>1, <2>2
  <1>4. Own(v) = Rest \cup I /\ Rest \cap I = {}
    <2>1. OwnLeaf(l) = ({b} \ {0}) \cup I
      BY <1>2 DEF OwnLeaf
    <2>2. ({b} \ {0}) \cap I = {}
      BY <1>1 DEF LeafFine
    <2> HIDE DEF l, b
    <2> QED
      BY <1>1, <2>1, <2>2 DEF Own, l
  <1>5. self.heap = h1 /\ w = [l EXCEPT !.info = i]
    <2>1. self.heap = Owner!Free(h1, l.text) /\ w = [l EXCEPT !.info = i]
      BY DEF Owner!Cleared, Owner!ReleasesComment, Owner!Null
    <2> HIDE DEF h1, i, self
    <2>2. 0 \notin h1.live
      BY <1>3 DEF Turns, Sound, Blocks
    <2>3. Owner!Free(h1, l.text) = h1
      BY <1>2, <2>2 DEF Owner!Free, Owner!Null
    <2> QED
      BY <2>1, <2>3
  <1> HIDE DEF h1, i, self
  <1>6. Rest \cap {i} = {} /\ Turns(h, Own(v), h1, Rest \cup {i})
    <2> HIDE DEF I, Rest
    <2> QED
      BY <1>3, <1>4 DEF Turns
  <1>7. /\ w \in Leaves /\ w.type = l.type /\ w.at = l.at /\ w.allocated = l.allocated
        /\ w.info = i /\ w.text = 0
    BY <1>2, <1>3, <1>5 DEF Leaves, Blocks
  <1>8. Owner!BlockOf(w) = b
    BY <1>7 DEF Owner!BlockOf
  <1>9. i # b
    BY <1>3, <1>6 DEF Blocks
  <1>10. LeafFine(w)
    BY <1>1, <1>3, <1>7, <1>8, <1>9 DEF LeafFine, Blocks
  <1>11. OwnLeaf(w) = ({b} \ {0}) \cup {i}
    BY <1>3, <1>7, <1>8 DEF OwnLeaf, Blocks
  <1> DEFINE made == [v EXCEPT !.self = w]
             new == [heap |-> self.heap, made |-> made]
  <1>12. /\ made = [self |-> w, members |-> v.members] /\ made.self = w /\ made.members = v.members
         /\ new.heap = self.heap /\ new.made = made
    BY <1>1
  <1> HIDE DEF made, new
  <1>13. Own(made) = Rest \cup {i}
    BY <1>11, <1>12 DEF Own
  <1>14. OwnLeaf(w) \cap OwnMembers(v.members) = {}
    <2>1. ({b} \ {0}) \cap OwnMembers(v.members) = {}
      BY <1>1 DEF OwnLeaf
    <2> QED
      BY <1>6, <1>11, <2>1
  <1>15. Fine(made)
    BY <1>7, <1>10, <1>12, <1>14, <1>1 DEF Fine, OwnMembers
  <1>16. Makes(h, Own(v), new)
    BY <1>5, <1>6, <1>12, <1>13, <1>15 DEF Makes
  <1> QED
    BY <1>16 DEF new, made, self

-----------------------------------------------------------------------------
(* What the program does, step by step *)

\* Every block in use belongs to one of the Values, and to nobody else.
Shared ==
    /\ \A x \in Owners : Fine(value[x]) /\ Own(value[x]) \subseteq heap.live
    /\ \A x, y \in Owners : x # y => Own(value[x]) \cap Own(value[y]) = {}
    /\ \A b \in heap.live : \E x \in Owners : b \in Own(value[x])

OwnerInv == Sound(heap) /\ value = [x \in Owners |-> value[x]] /\ Shared

\* A Value gives up what it owns for what its new content owns.
LEMMA Replaced ==
  ASSUME OwnerInv, NEW x \in Owners, NEW new, Makes(heap, Own(value[x]), new), Owner!Becomes(x, new)
  PROVE  OwnerInv'
  <1>1. heap' = new.heap /\ value' = [value EXCEPT ![x] = new.made]
    BY DEF Owner!Becomes
  <1>2. /\ value' = [y \in Owners |-> value'[y]] /\ value'[x] = new.made
        /\ \A y \in Owners : y # x => value'[y] = value[y]
    BY <1>1 DEF OwnerInv
  <1>3. /\ Fine(new.made) /\ Sound(heap')
             /\ heap'.live = (heap.live \ Own(value[x])) \cup Own(new.made)
        /\ Own(new.made) \cap (heap.live \ Own(value[x])) = {}
    BY <1>1 DEF Makes, Turns
  <1>4. ASSUME NEW y \in Owners PROVE Fine(value'[y]) /\ Own(value'[y]) \subseteq heap'.live
    <2>1. CASE y = x
      BY <1>2, <1>3, <2>1
    <2>2. CASE y # x
      BY <1>2, <1>3, <2>2 DEF OwnerInv, Shared
    <2> QED
      BY <2>1, <2>2
  <1>5. ASSUME NEW y \in Owners, y # x PROVE Own(value'[y]) \cap Own(value'[x]) = {}
    <2>1. Own(value[y]) \subseteq heap.live \ Own(value[x])
      BY <1>5 DEF OwnerInv, Shared
    <2> QED
      BY <1>2, <1>3, <1>5, <2>1
  <1>6. ASSUME NEW y \in Owners, NEW z \in Owners, y # z
      PROVE Own(value'[y]) \cap Own(value'[z]) = {}
    <2>1. CASE y = x \/ z = x
      BY <1>5, <1>6, <2>1
    <2>2. CASE y # x /\ z # x
      BY <1>2, <1>6, <2>2 DEF OwnerInv, Shared
    <2> QED
      BY <2>1, <2>2
  <1>7. ASSUME NEW b \in heap'.live PROVE \E y \in Owners : b \in Own(value'[y])
    <2>1. CASE b \in Own(new.made)
      BY <1>2, <2>1
    <2>2. CASE b \in heap.live /\ b \notin Own(value[x])
      BY <1>2, <2>2 DEF OwnerInv, Shared
    <2> QED
      BY <1>3, <2>1, <2>2
  <1> QED
    BY <1>2, <1>3, <1>4, <1>6, <1>7 DEF OwnerInv, Shared

\* Until a comment dangles.
UntilDangled == dangled \/ OwnerInv

LEMMA OwnerInit == Owner!Init => OwnerInv
  <1> SUFFICES ASSUME Owner!Init PROVE OwnerInv
    OBVIOUS
  <1>1. heap = [live |-> {}, faults |-> {}]
      /\ value = [x \in Owners |-> Owner!With(Owner!NullValue, << >>)]
    BY DEF Owner!Init
  <1>2. Sound(heap)
    BY <1>1, FS_EmptySet DEF Sound
  <1> DEFINE l == Owner!NullValue
  <1>3. LeafFine(l) /\ OwnLeaf(l) = {}
    BY DEF LeafFine, Leaves, OwnLeaf, Owner!NullValue, Owner!Leaf, Owner!Null, Owner!BlockOf
  <1>4. Fine(Owner!With(l, << >>)) /\ Own(Owner!With(l, << >>)) = {}
    BY <1>3, LeafAsValue
  <1> QED
    BY <1>1, <1>2, <1>4 DEF OwnerInv, Shared

LEMMA OwnerNext == UntilDangled /\ [Owner!Next]_(Owner!vars) => UntilDangled'
  <1>0. dangled /\ [Owner!Next]_(Owner!vars) => dangled'
    BY DEF Owner!Next, Owner!RefuseComment, Owner!vars
  <1> SUFFICES ASSUME OwnerInv, [Owner!Next]_(Owner!vars) PROVE OwnerInv' \/ dangled'
    BY <1>0 DEF UntilDangled
  <1>1. CASE UNCHANGED Owner!vars
    BY <1>1 DEF Owner!vars, OwnerInv, Shared
  <1>2. ASSUME NEW x \in Owners
        PROVE  Sound(heap) /\ Fine(value[x]) /\ Own(value[x]) \subseteq heap.live
    BY DEF OwnerInv, Shared
  <1>3. ASSUME NEW x \in Owners
        PROVE  Turns(heap, Own(value[x]), Owner!Drop(heap, value[x]), {})
            /\ Sound(Owner!Drop(heap, value[x]))
    <2>1. Turns(heap, Own(value[x]), Owner!Drop(heap, value[x]), {})
      BY <1>2, ValueDropped
    <2> QED
      BY <2>1 DEF Turns
  <1>4. ASSUME NEW x \in Owners, Owner!Construct(x) PROVE OwnerInv'
    <2>1. PICK k \in Owner!Kinds,
        g \in BOOLEAN : Owner!Becomes(x, Owner!Constructed(Owner!Drop(heap, value[x]), k, g))
      BY <1>4 DEF Owner!Construct, Owner!Garbage
    <2> DEFINE new == Owner!Constructed(Owner!Drop(heap, value[x]), k, g)
    <2>2. Makes(Owner!Drop(heap, value[x]), {}, new)
      BY <1>3, ConstructedIs
    <2> HIDE DEF new
    <2>3. Makes(heap, Own(value[x]), new)
      BY <1>3, <2>2, Follow DEF Makes
    <2> QED
      BY <2>1, <2>3, Replaced DEF new
  <1>5. ASSUME NEW x \in Owners, NEW y \in Owners, Owner!ConstructCopy(x, y) PROVE OwnerInv'
    <2>1. PICK g \in BOOLEAN : Owner!Becomes(x, Owner!Copy(Owner!Drop(heap, value[x]), value[y], g))
      BY <1>5 DEF Owner!ConstructCopy, Owner!Garbage
    <2> DEFINE new == Owner!Copy(Owner!Drop(heap, value[x]), value[y], g)
    <2>2. Fine(new.made) /\ Turns(Owner!Drop(heap, value[x]), {}, new.heap, Own(new.made))
      BY <1>2, <1>3, ValueCopied
    <2> HIDE DEF new
    <2>3. Makes(heap, Own(value[x]), new)
      BY <1>3, <2>2, Follow DEF Makes
    <2> QED
      BY <2>1, <2>3, Replaced DEF new
  <1>6. ASSUME NEW x \in Owners, NEW y \in Owners, Owner!Assign(x, y) PROVE OwnerInv'
    <2>1. PICK g \in BOOLEAN : Owner!Becomes(x, Owner!Assigned(heap, value[x], value[y], g))
      BY <1>6 DEF Owner!Assign, Owner!Garbage
    <2>2. Makes(heap, Own(value[x]), Owner!Assigned(heap, value[x], value[y], g))
      BY <1>2, AssignedIs
    <2> QED
      BY <2>1, <2>2, Replaced
  <1>7. ASSUME NEW x \in Owners, NEW y \in Owners, Owner!Swap(x, y) PROVE OwnerInv'
    <2> DEFINE p == Owner!Swapped(value[x], value[y])
               q == Owner!Swapped(value[y], value[x])
    <2>1. x # y /\ heap' = heap /\ value' = [value EXCEPT ![x] = p, ![y] = q]
      BY <1>7 DEF Owner!Swap
    <2>2. Own(value[x]) \cap Own(value[y]) = {}
      BY <2>1 DEF OwnerInv, Shared
    <2>3. Fine(p) /\ Fine(q) /\ Own(p) \cap Own(q) = {}
        /\ Own(p) \cup Own(q) = Own(value[x]) \cup Own(value[y])
      BY <1>2, <2>2, SwappedIs
    <2> HIDE DEF p, q
    <2>4. /\ value' = [z \in Owners |-> value'[z]] /\ value'[x] = p /\ value'[y] = q
          /\ \A z \in Owners : z # x /\ z # y => value'[z] = value[z]
      BY <2>1 DEF OwnerInv
    <2>5. ASSUME NEW z \in Owners PROVE Fine(value'[z]) /\ Own(value'[z]) \subseteq heap'.live
      <3>1. CASE z = x \/ z = y
        BY <1>2, <2>1, <2>3, <2>4, <3>1
      <3>2. CASE z # x /\ z # y
        BY <1>2, <2>1, <2>4, <3>2
      <3> QED
        BY <3>1, <3>2
    <2>6. ASSUME NEW z \in Owners, z # x, z # y
          PROVE  Own(value'[z]) \cap Own(value'[x]) = {} /\ Own(value'[z]) \cap Own(value'[y]) = {}
      <3>1. Own(value[z]) \cap (Own(p) \cup Own(q)) = {}
        BY <2>3, <2>6 DEF OwnerInv, Shared
      <3> QED
        BY <2>4, <2>6, <3>1
    <2>7. ASSUME NEW z \in Owners, NEW u \in Owners, z # u
        PROVE Own(value'[z]) \cap Own(value'[u]) = {}
      <3>1. CASE z \in {x, y} /\ u \in {x, y}
        BY <2>3, <2>4, <2>7, <3>1
      <3>2. CASE z \in {x, y} /\ u \notin {x, y}
        BY <2>6, <3>2
      <3>3. CASE z \notin {x, y} /\ u \in {x, y}
        BY <2>6, <3>3
      <3>4. CASE z \notin {x, y} /\ u \notin {x, y}
        BY <2>4, <2>7, <3>4 DEF OwnerInv, Shared
      <3> QED
        BY <3>1, <3>2, <3>3, <3>4
    <2>8. ASSUME NEW b \in heap'.live PROVE \E z \in Owners : b \in Own(value'[z])
      <3>1. PICK z \in Owners : b \in Own(value[z])
        BY <2>1, <2>8 DEF OwnerInv, Shared
      <3>2. CASE z = x \/ z = y
        BY <2>3, <2>4, <3>1, <3>2
      <3>3. CASE z # x /\ z # y
        BY <2>4, <3>1, <3>3
      <3> QED
        BY <3>2, <3>3
    <2>9. Sound(heap')
      BY <2>1 DEF OwnerInv
    <2> QED
      BY <2>4, <2>5, <2>7, <2>8, <2>9 DEF OwnerInv, Shared
  <1>8. ASSUME NEW x \in Owners, Owner!AssignMember(x) PROVE OwnerInv'
    <2> DEFINE w == Owner!With(value[x].members[1].leaf, << >>)
    <2>1. PICK g \in BOOLEAN : Owner!Becomes(x, Owner!Assigned(heap, value[x], w, g))
      BY <1>8 DEF Owner!AssignMember, Owner!Garbage
    <2>2. LeafFine(value[x].members[1].leaf)
      BY <1>2, <1>8 DEF Owner!AssignMember, Fine, MemberFine
    <2>3. Fine(w)
      BY <2>2, LeafAsValue
    <2> HIDE DEF w
    <2>4. Makes(heap, Own(value[x]), Owner!Assigned(heap, value[x], w, g))
      BY <1>2, <2>3, AssignedIs
    <2> QED
      BY <2>1, <2>4, Replaced
  <1>9. ASSUME NEW x \in Owners, Owner!Member(x) PROVE OwnerInv'
    <2>1. PICK key \in {[at |-> -1, policy |-> "noDuplication"],
        [at |-> -2, policy |-> "duplicateOnCopy"]},
               g \in BOOLEAN : Owner!Becomes(x, Owner!Resolve(Owner!AsObject(value[x], g), key, g))
      BY <1>9 DEF Owner!Member, Owner!Garbage, Owner!Static, Owner!Passing
    <2>2. KeyFine(key)
      BY DEF KeyFine
    <2>3. value[x].self.type \in {"null", "object"}
      BY <1>9 DEF Owner!Member
    <2>4. Makes(heap, Own(value[x]), Owner!Resolve(Owner!AsObject(value[x], g), key, g))
      BY <1>2, <2>2, <2>3, ResolvedIs
    <2> QED
      BY <2>1, <2>4, Replaced
  <1>10. ASSUME NEW x \in Owners, NEW y \in Owners, Owner!SetMember(x, y) PROVE OwnerInv'
    <2> DEFINE New(g) == Owner!WithLeaf(value[x],
                             Owner!Assigned(heap, Owner!With(value[x].members[1].leaf, << >>),
                                 value[y], g))
    <2>1. PICK g \in BOOLEAN : Owner!Becomes(x, New(g))
      BY <1>10 DEF Owner!SetMember, Owner!Garbage
    <2>2. value[x].members # << >> /\ value[y].self.type # "object"
      BY <1>10 DEF Owner!SetMember
    <2>3. Makes(heap, Own(value[x]), New(g))
      BY <1>2, <2>2, MemberSetIs
    <2> HIDE DEF New
    <2> QED
      BY <2>1, <2>3, Replaced
  <1>11. ASSUME NEW x \in Owners, Owner!RemoveMember(x) PROVE OwnerInv'
    <2> DEFINE New(g) ==
                 LET old == Owner!CopyLeaf(heap, value[x].members[1].leaf, g)
                     gone == Owner!DropMember(old.heap, value[x].members[1])
                 IN  [heap |-> Owner!DropLeaf(gone, old.made),
                     made |-> [value[x] EXCEPT !.members = << >>]]
    <2>1. PICK g \in BOOLEAN : Owner!Becomes(x, New(g))
      BY <1>11 DEF Owner!RemoveMember, Owner!Garbage
    <2>2. value[x].members # << >>
      BY <1>11 DEF Owner!RemoveMember
    <2>3. Makes(heap, Own(value[x]), New(g))
      BY <1>2, <2>2, MemberRemovedIs
    <2> HIDE DEF New
    <2> QED
      BY <2>1, <2>3, Replaced
  <1>12. ASSUME NEW x \in Owners, Owner!SetComment(x) PROVE OwnerInv'
    <2> DEFINE self == Owner!Commented(heap, value[x].self)
               new == [heap |-> self.heap, made |-> [value[x] EXCEPT !.self = self.made]]
    <2>1. Owner!Becomes(x, new)
      BY <1>12 DEF Owner!SetComment, Owner!BecomesSelf
    <2>2. Makes(heap, Own(value[x]), new)
      BY <1>2, CommentedIs
    <2> HIDE DEF new
    <2> QED
      BY <2>1, <2>2, Replaced
  <1>13. ASSUME NEW x \in Owners, Owner!RefuseComment(x) PROVE OwnerInv' \/ dangled'
    <2>1. CASE value[x].self.text # 0
      BY <1>13, <2>1 DEF Owner!RefuseComment, Owner!Null
    <2>2. CASE value[x].self.text = 0
      <3> DEFINE self == Owner!Cleared(heap, value[x].self)
                 new == [heap |-> self.heap, made |-> [value[x] EXCEPT !.self = self.made]]
      <3>1. Owner!Becomes(x, new)
        BY <1>13 DEF Owner!RefuseComment, Owner!BecomesSelf
      <3>2. Makes(heap, Own(value[x]), new)
        BY <1>2, <2>2, RefusedIs
      <3> HIDE DEF new
      <3> QED
        BY <3>1, <3>2, Replaced
    <2> QED
      BY <2>1, <2>2
  <1> QED
    BY <1>1, <1>4, <1>5, <1>6, <1>7, <1>8, <1>9, <1>10, <1>11, <1>12, <1>13
    DEF Owner!Next, Owner!Operation

\* The places of a Value name what it owns, each block at one place.
LEMMA PlacesAre ==
  ASSUME NEW v, Fine(v)
  PROVE  LET s == Owner!OwnedBy(v) IN
         /\ DOMAIN s \subseteq 1 .. 7
         /\ {s[i] : i \in DOMAIN s} \ {0} = Own(v)
         /\ \A i, j \in DOMAIN s : s[i] = s[j] /\ s[i] # 0 => i = j
  <1> DEFINE b == Owner!BlockOf(v.self)
             s == Owner!OwnedBy(v)
  <1>1. LeafFine(v.self) /\ Own(v) = OwnLeaf(v.self) \cup OwnMembers(v.members)
    BY DEF Fine, Own
  <1>2. OwnLeaf(v.self) = {b, v.self.info, v.self.text} \ {0}
    BY DEF OwnLeaf
  <1>3. /\ v.self.info # 0 => v.self.info # v.self.text /\ v.self.info # b
        /\ v.self.text # 0 => v.self.text # b
    BY <1>1 DEF LeafFine
  <1>4. CASE v.members = << >>
    <2>1. s = <<b, v.self.info, v.self.text>>
      BY <1>4 DEF Owner!OwnedBy
    <2>2. Own(v) = {b, v.self.info, v.self.text} \ {0}
      BY <1>1, <1>2, <1>4 DEF OwnMembers
    <2> HIDE DEF s, b
    <2>3. DOMAIN s = 1 .. 3 /\ s[1] = b /\ s[2] = v.self.info /\ s[3] = v.self.text
      BY <2>1
    <2> QED
      BY <1>3, <2>2, <2>3 DEF s
  <1>5. CASE v.members # << >>
    <2> DEFINE m == v.members[1]
               n == Owner!NameBlock(m.name)
               c == Owner!BlockOf(m.leaf)
    <2>1. s = <<b, v.self.info, v.self.text, n, c, m.leaf.info, m.leaf.text>>
      BY <1>5 DEF Owner!OwnedBy
    <2>2. OwnName(m.name) = {n} \ {0} /\ OwnLeaf(m.leaf) = {c, m.leaf.info, m.leaf.text} \ {0}
      BY DEF OwnName, OwnLeaf
    <2>3. /\ MemberFine(m) /\ OwnMembers(v.members) = OwnName(m.name) \cup OwnLeaf(m.leaf)
          /\ OwnLeaf(v.self) \cap (OwnName(m.name) \cup OwnLeaf(m.leaf)) = {}
      BY <1>5 DEF Fine, OwnMembers, OwnMember
    <2>4. /\ OwnName(m.name) \cap OwnLeaf(m.leaf) = {}
          /\ m.leaf.info # 0 => m.leaf.info # m.leaf.text /\ m.leaf.info # c
          /\ m.leaf.text # 0 => m.leaf.text # c
      BY <2>3 DEF MemberFine, LeafFine
    <2> HIDE DEF s, b, m, n, c
    <2>5. /\ DOMAIN s = 1 .. 7 /\ s[1] = b /\ s[2] = v.self.info /\ s[3] = v.self.text
          /\ s[4] = n /\ s[5] = c /\ s[6] = m.leaf.info /\ s[7] = m.leaf.text
      BY <2>1
    <2>6. {s[i] : i \in DOMAIN s} = {b, v.self.info, v.self.text, n, c, m.leaf.info, m.leaf.text}
      BY <2>5
    <2>7. Own(v) = {b, v.self.info, v.self.text, n, c, m.leaf.info, m.leaf.text} \ {0}
      BY <1>1, <1>2, <2>2, <2>3
    <2>8. ASSUME NEW i \in 1 .. 7, NEW j \in 1 .. 7, s[i] = s[j], s[i] # 0 PROVE i = j
      <3> DEFINE A == {1, 2, 3}
                 B == {5, 6, 7}
      <3>1. i \in A \cup {4} \cup B /\ j \in A \cup {4} \cup B
        OBVIOUS
      <3>2. /\ \A k \in A : s[k] # 0 => s[k] \in OwnLeaf(v.self)
            /\ s[4] # 0 => s[4] \in OwnName(m.name)
            /\ \A k \in B : s[k] # 0 => s[k] \in OwnLeaf(m.leaf)
        BY <1>2, <2>2, <2>5
      <3>3. (i \in A /\ j \in A) \/ (i = 4 /\ j = 4) \/ (i \in B /\ j \in B)
        <4> HIDE DEF A, B
        <4> QED
          BY <2>3, <2>4, <2>8, <3>1, <3>2
      <3>4. CASE i \in A /\ j \in A
        BY <1>3, <2>5, <2>8, <3>4
      <3>5. CASE i \in B /\ j \in B
        BY <2>4, <2>5, <2>8, <3>5
      <3> QED
        BY <3>3, <3>4, <3>5
    <2> QED
      BY <2>5, <2>6, <2>7, <2>8 DEF s
  <1> QED
    BY <1>4, <1>5

LEMMA OneOwnerIs == OwnerInv => Owner!OneOwner
  <1> SUFFICES ASSUME OwnerInv PROVE Owner!OneOwner
    OBVIOUS
  <1> DEFINE At(o) == Owner!OwnedBy(value[o[1]])
  <1>1. ASSUME NEW x \in Owners
        PROVE  /\ DOMAIN Owner!OwnedBy(value[x]) \subseteq 1 .. 7
               /\ {Owner!OwnedBy(value[x])[i] : i \in DOMAIN Owner!OwnedBy(value[x])} \ {0} = Own(value[x])
               /\ \A i, j \in DOMAIN Owner!OwnedBy(value[x]) :
                     Owner!OwnedBy(value[x])[i] = Owner!OwnedBy(value[x])[j]
                         /\ Owner!OwnedBy(value[x])[i] # 0 => i = j
    BY PlacesAre DEF OwnerInv, Shared
  <1>2. ASSUME NEW o \in Owner!Holders
        PROVE  /\ o = <<o[1], o[2]>> /\ o[1] \in Owners
                    /\ o[2] \in DOMAIN Owner!OwnedBy(value[o[1]])
               /\ Owner!Owned(o) = Owner!OwnedBy(value[o[1]])[o[2]] /\ Owner!Owned(o) # 0
               /\ Owner!Owned(o) \in Own(value[o[1]])
    <2>1. /\ o = <<o[1], o[2]>> /\ o[1] \in Owners /\ o[2] \in DOMAIN Owner!OwnedBy(value[o[1]])
          /\ Owner!Owned(o) = Owner!OwnedBy(value[o[1]])[o[2]] /\ Owner!Owned(o) # 0
      BY DEF Owner!Holders, Owner!Owned, Owner!Null
    <2> QED
      BY <1>1, <2>1
  <1>3. ASSUME NEW o \in Owner!Holders, NEW p \in Owner!Holders, Owner!Owned(o) = Owner!Owned(p)
      PROVE o = p
    <2>1. o[1] = p[1]
      BY <1>2, <1>3 DEF OwnerInv, Shared
    <2>2. o[2] = p[2]
      BY <1>1, <1>2, <1>3, <2>1
    <2> QED
      BY <1>2, <2>1, <2>2
  <1>4. \A o \in Owner!Holders : Owner!Owned(o) \in heap.live
    BY <1>2 DEF OwnerInv, Shared
  <1>5. ASSUME NEW b \in heap.live PROVE \E o \in Owner!Holders : Owner!Owned(o) = b
    <2>1. PICK x \in Owners : b \in Own(value[x])
      BY DEF OwnerInv, Shared
    <2>2. b # 0
      BY DEF OwnerInv, Sound, Blocks
    <2>3. PICK i \in DOMAIN Owner!OwnedBy(value[x]) : Owner!OwnedBy(value[x])[i] = b
      BY <1>1, <2>1
    <2>4. <<x, i>> \in Owner!Holders
      BY <1>1, <2>2, <2>3 DEF Owner!Holders, Owner!Null
    <2>5. Owner!Owned(<<x, i>>) = b
      BY <2>3 DEF Owner!Owned
    <2> QED
      BY <2>4, <2>5
  <1> QED
    BY <1>3, <1>4, <1>5 DEF Owner!OneOwner

\* Any number of Values, and any sequence of constructions, copies,
\* assignments (to oneself and to one's child too), swaps, comments, and members
\* made, set and removed, whatever unset bits hold: what is in use has one
\* owner, is freed once, and what is read is there (json_value.cpp).  So it is
\* where a comment is refused, unless there was one before: that one dangles
\* (json_value.cpp:154), and nothing is claimed from there on.
THEOREM OwnersRight ==
    ValuesSpec => [](~dangled =>
        Owner!TypeOK /\ Owner!FreedOnce /\ Owner!OneOwner /\ Owner!ReadsLive)
  <1>1. ValuesInit => UntilDangled
    BY OwnerInit DEF ValuesInit, UntilDangled
  <1>2. UntilDangled /\ [NextValues]_<<part, values>> => UntilDangled'
    <2>1. [NextValues]_<<part, values>> => [Owner!Next]_(Owner!vars)
      BY DEF NextValues, NextContainer, NextLoop, Loops, NextOwner, values, owner, Owner!vars
    <2> QED
      BY <2>1, OwnerNext
  <1>3. OwnerInv => Owner!TypeOK /\ Owner!FreedOnce /\ Owner!OneOwner /\ Owner!ReadsLive
    <2> SUFFICES ASSUME OwnerInv PROVE Owner!TypeOK /\ Owner!FreedOnce /\ Owner!OneOwner
        /\ Owner!ReadsLive
      OBVIOUS
    <2>1. ASSUME NEW l, LeafFine(l) PROVE Owner!LeafOK(l)
      BY <2>1 DEF LeafFine, Leaves, Owner!LeafOK, Owner!Null, Owner!Static, Blocks
    <2>2. ASSUME NEW x \in Owners
          PROVE  /\ LeafFine(value[x].self) /\ OwnLeaf(value[x].self) \subseteq heap.live
                 /\ value[x].members # << >> =>
                       /\ value[x].self.type = "object" /\ LeafFine(value[x].members[1].leaf)
                       /\ NameFine(value[x].members[1].name)
                            /\ OwnName(value[x].members[1].name) \subseteq heap.live
      BY DEF OwnerInv, Shared, Fine, MemberFine, Own, OwnMembers, OwnMember
    <2>3. Owner!TypeOK
      BY <2>1, <2>2 DEF Owner!TypeOK, NameFine, Owner!Policies
    <2>4. Owner!FreedOnce
      BY DEF Owner!FreedOnce, OwnerInv, Sound
    <2>5. Owner!ReadsLive
      <3>1. ASSUME NEW x \in Owners, value[x].self.type = "string"
            PROVE  value[x].self.at \in heap.live \cup {Owner!Null, Owner!Static}
        BY <2>2, <3>1 DEF LeafFine, OwnLeaf, Owner!BlockOf, Owner!Null, Owner!Static
      <3>2. ASSUME NEW x \in Owners, value[x].members # << >>
            PROVE  value[x].members[1].name.at \in heap.live \cup {Owner!Static}
        BY <2>2, <3>2 DEF NameFine, OwnName, Owner!NameBlock, Owner!Static, Blocks
      <3> QED
        BY <3>1, <3>2 DEF Owner!ReadsLive
    <2> QED
      BY <2>3, <2>4, <2>5, OneOwnerIs
  <1>4. UntilDangled =>
          (~dangled => Owner!TypeOK /\ Owner!FreedOnce /\ Owner!OneOwner /\ Owner!ReadsLive)
    BY <1>3 DEF UntilDangled
  <1> QED
    BY <1>1, <1>2, <1>4, PTL DEF ValuesSpec

-----------------------------------------------------------------------------
(* All of it *)

\* What JsonValues checks of a Value in each of its parts, for callers whose
\* indices are below 2^31: no sequence of calls breaks any of it.
THEOREM ValueAlwaysRight ==
  ASSUME Small
  PROVE  ValuesSpec => []ValueIsRight
  <1>1. /\ Val!TypeOK /\ Val!SizeIsHighest
        /\ Loop!TypeOK /\ Loop!VisitsAll /\ Loop!CountsDown
        /\ part = "order" => Order!TotalOrder /\ Order!ConvertsAsPromised /\ Order!ThrowsOutOfRange
        /\ ~dangled => Owner!TypeOK /\ Owner!FreedOnce /\ Owner!OneOwner /\ Owner!ReadsLive
        => ValueIsRight
    BY DEF ValueIsRight
  <1> QED
    BY <1>1, ValueTyped, SizeAlwaysHighest, LoopRight, OrderRight, OwnersRight, PTL
=============================================================================
