------------------------------- MODULE JsonArray -------------------------------
(***************************************************************************)
(* What value.h promises of a Value that is an array, "an ordered list of  *)
(* Value": a sequence that grows by nulls, up to the element that is asked *)
(* for, and that resize enlarges or truncates.  One thing is not as it     *)
(* promises: a null that was never asked for cannot be the last element    *)
(* that a truncation leaves.                                               *)
(***************************************************************************)
EXTENDS Integers, Sequences

CONSTANTS Elements, Null,
          Indices   \* the indices and sizes that callers pass


VARIABLES kind,   \* "null", "array", "other" for the other types, or "aborted"
          list    \* its elements

vars == <<kind, list>>

Init == kind = "null" /\ list = << >>

\* With as many elements as asked for, the new ones null.
Sized(n) == [i \in 1 .. n |-> IF i <= Len(list) THEN list[i] ELSE Null]
Longer(n) == IF n > Len(list) THEN n ELSE Len(list)

\* A null becomes an array at the first use as one.
AsArray == kind \in {"null", "array"} /\ kind' = "array"

\* operator[] and, where it is assigned to, an element.
At(i) == AsArray /\ list' = Sized(Longer(i + 1))
AtSet(i, x) == AsArray /\ list' = [Sized(Longer(i + 1)) EXCEPT ![i + 1] = x]
AppendElement(x) == AsArray /\ list' = Append(list, x)
Resize(n) == AsArray /\ list' = Sized(n)

\* A truncation that would end at nulls leaves them out, or ends the process.
ResizeToNull(n) ==
    /\ kind = "array" /\ 0 < n /\ n < Len(list) /\ list[n] = Null
    /\ \/ kind' = "aborted" /\ UNCHANGED list
       \/ /\ UNCHANGED kind
          /\ \E m \in 0 .. n - 1 : /\ \A i \in m + 1 .. n : list[i] = Null
                                  /\ list' = Sized(m)
Clear == kind = "array" /\ list' = << >> /\ UNCHANGED kind
Assign == kind' \in {"null", "array", "other"} /\ list' = << >>

Next ==
    \/ \E i \in Indices :
         At(i) \/ Resize(i) \/ ResizeToNull(i) \/ \E x \in Elements : AtSet(i, x)
    \/ \E x \in Elements : AppendElement(x)
    \/ Clear \/ Assign

Spec == Init /\ [][Next]_vars
=============================================================================
