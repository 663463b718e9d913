------------------------------ MODULE JsonValues ------------------------------
(* Json::Value, in the parts that share no state: as a container, as what a   *)
(* loop iterates over, as what is compared and converted, and as an owner of  *)
(* memory.  A behaviour is about one of them at most; the others stay in      *)
(* their initial state.                                                       *)
EXTENDS Integers

CONSTANTS
    Elements, NullElement, Half, Indices, MemberNames, MaxSize, \* of JsonValue
    Keys, PastEnd, Nowhere,                                     \* of JsonIterator
    OrderMax, NaN, Throws,                                           \* of JsonOrder
    Owners, MaxSteps                                            \* of JsonOwnership

VARIABLES
    part,     \* what the behaviour is about
    kind, map, outcome,
    keys, holds, forward, assigned, it, stop, seen, loop,
    mode, lhs, rhs, third,
    heap, value, dangled, steps

container == <<kind, map, outcome>>
iterator == <<keys, holds, forward, assigned, it, stop, seen, loop>>
order == <<mode, lhs, rhs, third>>
owner == <<heap, value, dangled, steps>>
values == <<container, iterator, order, owner>>

Val == INSTANCE JsonValue WITH Null <- NullElement, Names <- MemberNames, type <- kind

Loop == INSTANCE JsonIterator WITH End <- PastEnd, map <- keys, pc <- loop

Order == INSTANCE MCOrder WITH MaxInt <- OrderMax, x <- lhs, y <- rhs, z <- third

Owner == INSTANCE JsonOwnership WITH Vars <- Owners

ASSUME ValuesAssumption ==
    /\ Val!ElementsAssumption /\ Val!HalfAssumption /\ Val!IndicesAssumption
    /\ Val!MaxSizeAssumption /\ Val!NamesAssumption
    /\ Loop!KeysAssumption /\ Loop!PositionAssumption
    /\ Order!MaxIntAssumption /\ Owner!MaxStepsAssumption

-----------------------------------------------------------------------------
ValuesInit ==
    /\ Val!Init
    /\ (part # "loop" => holds = TRUE /\ keys = {} /\ forward = TRUE /\ assigned = FALSE) /\ Loop!Init
    /\ IF part = "order" THEN Order!Init
       ELSE mode = "none" /\ lhs = NullElement /\ rhs = NullElement /\ third = NullElement
    /\ Owner!Init

\* A step of one part.
Loops(A) == part = "loop" /\ A /\ UNCHANGED <<part, container, order, owner>>

NextContainer ==
    part = "container" /\ Val!Next /\ UNCHANGED <<part, iterator, order, owner>>
NextLoop == Loops(Loop!Next)
NextOwner ==
    part = "owner" /\ Owner!Next /\ UNCHANGED <<part, container, iterator, order>>

NextValues == NextContainer \/ NextLoop \/ NextOwner

ValuesSpec == ValuesInit /\ [][NextValues]_<<part, values>>

-----------------------------------------------------------------------------
\* A Value is the list that value.h promises of it.
ImplementsArray == Val!ImplementsArray

\* A loop over a Value visits what is in it.  Values other than NaN are ordered;
\* what isConvertibleTo allows is done, but for maxInt as a uint, which asInt
\* refuses, and for a number as a string, which asString makes empty.  Over
\* copies, swaps, assignments to oneself and comments that are refused every
\* block has one owner, who frees it once: until a comment is refused where
\* there was one (json_value.cpp:154), which is then freed again.
ValueIsRight ==
    /\ part = "container" => Val!TypeOK /\ Val!SizeIsHighest
    /\ part = "loop" => Loop!TypeOK /\ Loop!VisitsAll /\ Loop!CountsDown
    /\ part = "order" => Order!TotalOrder /\ Order!ConvertsAsPromised /\ Order!ThrowsOutOfRange
    /\ part = "owner" /\ ~dangled =>
          Owner!TypeOK /\ Owner!FreedOnce /\ Owner!OneOwner /\ Owner!ReadsLive
=============================================================================
