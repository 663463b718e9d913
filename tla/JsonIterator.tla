----------------------------- MODULE JsonIterator -----------------------------
(***************************************************************************)
(* Iterators over a Json::Value (daemon/src/json/json_valueiterator.inl,   *)
(* begin and end of json_value.cpp) and the loop that uses them:           *)
(* for ( it = begin(); it != end(); ++it ), or from the end to the begin.  *)
(* A Value that is no container has no map to iterate over; its iterators  *)
(* are default ones, which std::map does not allow to compare: isNull_     *)
(* stands in for that.                                                     *)
(***************************************************************************)
EXTENDS Integers, Sequences, FiniteSets, SequencesExt

CONSTANTS Keys,       \* what containers are keyed by, in their order
          End,        \* the position past the last entry
          Nowhere     \* the position of a default std::map iterator

KeysAssumption == Keys \subseteq Int /\ IsFiniteSet(Keys)
PositionAssumption == End # Nowhere /\ {End, Nowhere} \cap Keys = {}

VARIABLES map,       \* the keys of *value_.map_, or {} of none
          holds,     \* whether there is a map
          forward,   \* the direction of the loop
          assigned,  \* whether it assigns its start to an iterator it has
                     \* (ValueIterator::operator=), or makes one of it
          it, stop,  \* iterators: [current, isNull]
          seen,      \* the keys of the loop's rounds
          pc

vars == <<map, holds, forward, assigned, it, stop, seen, pc>>

DefaultIterator == [current |-> Nowhere, isNull |-> TRUE]
At(position) == [current |-> position, isNull |-> FALSE]

Lowest(K) == IF K = {} THEN End ELSE CHOOSE k \in K : \A j \in K : k <= j
Highest(K) == CHOOSE k \in K : \A j \in K : j <= k
BeginOf == IF holds THEN At(Lowest(map)) ELSE DefaultIterator
EndOf == IF holds THEN At(End) ELSE DefaultIterator

\* copy takes over the position alone.
Copied(to, from) == [to EXCEPT !.current = from.current]
Given(from) == IF assigned THEN Copied(DefaultIterator, from) ELSE from

Init ==
    /\ holds \in BOOLEAN /\ map \in SUBSET Keys /\ (~holds => map = {})
    /\ forward \in BOOLEAN /\ assigned \in BOOLEAN
    /\ it = Given(IF forward THEN BeginOf ELSE EndOf)
    /\ stop = IF forward THEN EndOf ELSE BeginOf
    /\ seen = << >> /\ pc = "loop"

IsEqual(a, b) == IF a.isNull THEN b.isNull ELSE a.current = b.current

Increment(k) == Lowest({j \in map : j > k})
Decrement(k) == Highest(IF k = End THEN map ELSE {j \in map : j < k})

\* Behind the last entry, and before the first, there is nothing to go to.
Undefined == IF forward THEN it.current \in {End, Nowhere} ELSE it.current \in {Nowhere, Lowest(map)}

Round ==
    /\ pc = "loop" /\ ~IsEqual(it, stop)
    /\ IF Undefined THEN pc' = "undefined" /\ UNCHANGED <<it, seen>>
       ELSE LET next == IF forward THEN Increment(it.current) ELSE Decrement(it.current)
            IN  /\ it' = [it EXCEPT !.current = next]
                /\ seen' = Append(seen, IF forward THEN it.current ELSE next)
                /\ UNCHANGED pc
    /\ UNCHANGED <<map, holds, forward, assigned, stop>>

Leave ==
    /\ pc = "loop" /\ IsEqual(it, stop) /\ pc' = "done"
    /\ UNCHANGED <<map, holds, forward, assigned, it, stop, seen>>

Next == Round \/ Leave
Spec == Init /\ [][Next]_vars /\ WF_vars(Next)

\* operator-, from a to b: the steps that the loop of computeDistance takes.
Distance(a, b) ==
    IF a.isNull /\ b.isNull THEN 0
    ELSE Cardinality({k \in map : (a.current # End /\ k >= a.current)
                                  /\ (b.current = End \/ k < b.current)})

-----------------------------------------------------------------------------
TypeOK ==
    /\ {it.current, stop.current} \subseteq Keys \cup {End, Nowhere}
    /\ {it.isNull, stop.isNull} \subseteq BOOLEAN
    /\ ToSet(seen) \subseteq Keys /\ pc \in {"loop", "done", "undefined"}

\* The loop visits each entry of the map once, in order, whatever kind of Value
\* it is asked of, and none of a Value without a map; it steps past no end.  The
\* exception is an iterator that was assigned: copy leaves isNull_ as it was,
\* and it equals no end of a map.
VisitsAll ==
    /\ pc = "undefined" => assigned /\ holds
    /\ \A i, j \in 1 .. Len(seen) : i < j => IF forward THEN seen[i] < seen[j]
                                                        ELSE seen[i] > seen[j]
    /\ pc # "loop" => ToSet(seen) = map

\* What is left of the loop is the distance to its end.
CountsDown ==
    pc = "loop" /\ ~(assigned /\ holds) => Cardinality(map) - Len(seen) =
                      IF forward THEN Distance(it, stop) ELSE Distance(stop, it)

\* The loop comes to an end.
LoopEnds == <>(pc # "loop")
=============================================================================
