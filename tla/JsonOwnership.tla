----------------------------- MODULE JsonOwnership -----------------------------
(***************************************************************************)
(* Who owns what a Json::Value points to (daemon/src/json/json_value.cpp): *)
(* its string, its map with the names of the members, and its comments.    *)
(* Whether a string is the Value's own stands in the bit allocated_, which *)
(* the constructors of numbers and null strings do not set; whether a name *)
(* is the CZString's own, in index_.                                       *)
(*                                                                         *)
(* A program works on a few Values, each with one member at most.  An      *)
(* operation runs its parts, temporaries included, one after the other on  *)
(* a heap; an operator with a heap returns it with what it has made.       *)
(***************************************************************************)
EXTENDS Integers, FiniteSets

CONSTANTS Vars,       \* the Values of the program
          MaxSteps    \* bound: how many operations it makes

MaxStepsAssumption == MaxSteps \in Nat

VARIABLES
    heap,    \* [live, faults]: the blocks in use, and what was freed wrongly
    value,   \* of each of Vars
    dangled, \* whether a comment was refused where there was one
    steps    \* how many operations there were

vars == <<heap, value, dangled, steps>>

Null == 0        \* no block
Static == -1     \* a string that is there throughout
Passing == -2    \* the caller's string, there for the call alone

\* new, malloc, and what frees their blocks; nothing is done to free a null.
Fresh(h) == CHOOSE b \in 1 .. Cardinality(h.live) + 1 : b \notin h.live
Used(h) == [h EXCEPT !.live = @ \cup {Fresh(h)}]
Free(h, b) ==
    CASE b = Null -> h
      [] b \in h.live -> [h EXCEPT !.live = @ \ {b}]
      [] OTHER -> [h EXCEPT !.faults = @ \cup {b}]

\* What nothing was assigned to.
Garbage == BOOLEAN

-----------------------------------------------------------------------------
(* Names: CZString *)

Policies == {"noDuplication", "duplicate", "duplicateOnCopy"}

CopiedPolicy(name) == IF name.policy = "noDuplication" THEN "noDuplication" ELSE "duplicate"

CopyName(h, name) ==
    IF name.policy = "noDuplication" THEN [heap |-> h, made |-> name]
    ELSE [heap |-> Used(h), made |-> [at |-> Fresh(h), policy |-> CopiedPolicy(name)]]

DropName(h, name) == IF name.policy = "duplicate" THEN Free(h, name.at) ELSE h

-----------------------------------------------------------------------------
(* Values without members: [type, at, allocated, info, text] *)

Leaf(type, at, allocated) ==
    [type |-> type, at |-> at, allocated |-> allocated, info |-> Null, text |-> Null]

NullValue == Leaf("null", Null, FALSE)

CopyComments(h, v) ==
    IF v.info = Null THEN [heap |-> h, info |-> Null, text |-> Null]
    ELSE IF v.text = Null THEN [heap |-> Used(h), info |-> Fresh(h), text |-> Null]
    ELSE [heap |-> Used(Used(h)), info |-> Fresh(h), text |-> Fresh(Used(h))]

DropComments(h, v) == Free(Free(h, v.text), v.info)

\* Slip: a string that the other one does not own is shared.
ShareStatic(v) == v.type = "string" /\ v.allocated

\* A copy owns its string, whether or not the other one does.
CopiesString(v) == v.type = "string" /\ v.at # Null

CopyWith(notes, v, at, allocated) ==
    [heap |-> notes.heap,
     made |-> [v EXCEPT !.at = at, !.allocated = allocated, !.info = notes.info, !.text = notes.text]]

CopyLeaf(h, v, g) ==
    IF CopiesString(v) THEN CopyWith(CopyComments(Used(h), v), v, Fresh(h), TRUE)
    ELSE CopyWith(CopyComments(h, v), v, v.at, g)

DropLeaf(h, v) ==
    DropComments(IF v.type = "string" /\ v.allocated THEN Free(h, v.at) ELSE h, v)

-----------------------------------------------------------------------------
(* Values: a leaf with its members, << >> or <<[name, leaf]>>; at is map_ *)

With(v, members) == [self |-> v, members |-> members]

Pair(name, leaf) == [heap |-> leaf.heap, made |-> << [name |-> name.made, leaf |-> leaf.made] >>]

CopyMember(h, m, g) ==
    LET name == CopyName(h, m.name) IN Pair(name, CopyLeaf(name.heap, m.leaf, g))

CopyMembers(h, members, g) ==
    IF members = << >> THEN [heap |-> h, made |-> << >>] ELSE CopyMember(h, members[1], g)

DropMember(h, m) == DropLeaf(DropName(h, m.name), m.leaf)

Holding(self, members) == [heap |-> self.heap, made |-> With(self.made, members)]

\* Value::Value( const Value & )
CopyObject(h, v, members, g) ==
    Holding(CopyWith(CopyComments(members.heap, v), v, Fresh(h), g), members.made)

Copy(h, v, g) ==
    IF v.self.type # "object" THEN Holding(CopyLeaf(h, v.self, g), << >>)
    ELSE CopyObject(h, v.self, CopyMembers(Used(h), v.members, g), g)

\* Value::~Value()
Drop(h, v) ==
    IF v.self.type # "object" THEN DropLeaf(h, v.self)
    ELSE LET h1 == IF v.members = << >> THEN h ELSE DropMember(h, v.members[1])
         IN  DropComments(Free(h1, v.self.at), v.self)

\* a after swap with b: all but the comments.
Swapped(a, b) ==
    With([b.self EXCEPT !.info = a.self.info, !.text = a.self.text], b.members)

\* operator=: copy, swap, and the end of the temporary.
Exchanged(temp, v) ==
    [heap |-> Drop(temp.heap, Swapped(temp.made, v)), made |-> Swapped(v, temp.made)]

Assigned(h, v, w, g) == Exchanged(Copy(h, w, g), v)

\* The constructors, of a type, a number, a string and a StaticString.
Constructed(h, kind, g) ==
    CASE kind = "null" -> [heap |-> h, made |-> With(NullValue, << >>)]
      [] kind = "number" -> [heap |-> h, made |-> With(Leaf("number", Null, g), << >>)]
      [] kind = "no string" -> [heap |-> h, made |-> With(Leaf("string", Null, FALSE), << >>)]
      [] kind = "string" -> [heap |-> Used(h), made |-> With(Leaf("string", Fresh(h), TRUE), << >>)]
      [] kind = "static" -> [heap |-> h, made |-> With(Leaf("string", Static, FALSE), << >>)]
      [] kind = "object" -> [heap |-> Used(h), made |-> With(Leaf("object", Fresh(h), FALSE), << >>)]

Kinds == {"null", "number", "no string", "string", "static", "object"}

-----------------------------------------------------------------------------
(* What the program does with its Values *)

Init ==
    /\ heap = [live |-> {}, faults |-> {}]
    /\ value = [x \in Vars |-> With(NullValue, << >>)] /\ dangled = FALSE /\ steps = 0

Becomes(x, result) == heap' = result.heap /\ value' = [value EXCEPT ![x] = result.made]

\* The Value's life ends, and another one begins in its place.
Construct(x) ==
    \E kind \in Kinds, g \in Garbage : Becomes(x, Constructed(Drop(heap, value[x]), kind, g))

ConstructCopy(x, y) ==
    /\ x # y
    /\ \E g \in Garbage : Becomes(x, Copy(Drop(heap, value[x]), value[y], g))

Assign(x, y) == \E g \in Garbage : Becomes(x, Assigned(heap, value[x], value[y], g))

Swap(x, y) ==
    /\ value' = [value EXCEPT ![x] = Swapped(value[x], value[y]),
                              ![y] = Swapped(value[y], value[x])]
    /\ x # y /\ UNCHANGED heap

\* The Value assigned to, its own child.
AssignMember(x) ==
    /\ value[x].members # << >>
    /\ \E g \in Garbage :
          Becomes(x, Assigned(heap, value[x], With(value[x].members[1].leaf, << >>), g))

\* resolveReference makes a member: its name is copied into a pair, which is
\* copied into the map.
Inserted(object, name, g) ==
    LET pair == CopyName(object.heap, name)
        member == CopyMember(pair.heap, [name |-> pair.made, leaf |-> NullValue], g)
    IN  [heap |-> DropName(member.heap, pair.made), made |-> With(object.made.self, member.made)]

\* A null becomes an object, by an assignment from a temporary.
AsObject(v, g) ==
    LET empty == Constructed(heap, "object", g)
        new == Assigned(empty.heap, v, empty.made, g)
    IN  IF v.self.type = "null" THEN [new EXCEPT !.heap = Drop(@, empty.made)]
        ELSE [heap |-> heap, made |-> v]

\* operator[], with a StaticString or not.
Resolve(object, name, g) ==
    IF object.made.members # << >> THEN object ELSE Inserted(object, name, g)

Member(x) ==
    /\ value[x].self.type \in {"null", "object"}
    /\ \E key \in {[at |-> Static, policy |-> "noDuplication"],
                    [at |-> Passing, policy |-> "duplicateOnCopy"]}, g \in Garbage :
          Becomes(x, Resolve(AsObject(value[x], g), key, g))

WithLeaf(v, leaf) == [heap |-> leaf.heap, made |-> [v EXCEPT !.members[1].leaf = leaf.made.self]]

\* value[name] = y, where there is that member.
SetMember(x, y) ==
    /\ value[x].members # << >> /\ value[y].self.type # "object"
    /\ \E g \in Garbage :
          Becomes(x, WithLeaf(value[x],
                              Assigned(heap, With(value[x].members[1].leaf, << >>), value[y], g)))

\* removeMember: what it returns is not kept.
RemoveMember(x) ==
    /\ value[x].members # << >>
    /\ \E g \in Garbage :
          LET old == CopyLeaf(heap, value[x].members[1].leaf, g)
              gone == DropMember(old.heap, value[x].members[1])
          IN  Becomes(x, [heap |-> DropLeaf(gone, old.made),
                          made |-> [value[x] EXCEPT !.members = << >>]])

ReleasesComment(h, v) == Free(h, v.text)

\* setComment, up to the test of its text: the old one is freed before it.
Cleared(h, v) ==
    LET h1 == IF v.info = Null THEN Used(h) ELSE h
    IN  [heap |-> ReleasesComment(h1, v),
         made |-> [v EXCEPT !.info = IF @ = Null THEN Fresh(h) ELSE @]]

Commented(h, v) ==
    LET cleared == Cleared(h, v)
    IN  [heap |-> Used(cleared.heap),
         made |-> [cleared.made EXCEPT !.text = Fresh(cleared.heap)]]

BecomesSelf(x, self) ==
    Becomes(x, [heap |-> self.heap, made |-> [value[x] EXCEPT !.self = self.made]])

SetComment(x) == BecomesSelf(x, Commented(heap, value[x].self))

\* A text that does not start with a "/" is refused by an exception: comment_
\* goes on pointing at what was freed.
RefuseComment(x) ==
    /\ BecomesSelf(x, Cleared(heap, value[x].self))
    /\ dangled' = (dangled \/ value[x].self.text # Null)

Operation(x) ==
    \/ Construct(x) \/ AssignMember(x) \/ Member(x) \/ RemoveMember(x) \/ SetComment(x)
    \/ \E y \in Vars : ConstructCopy(x, y) \/ Assign(x, y) \/ Swap(x, y) \/ SetMember(x, y)

Next ==
    /\ steps < MaxSteps /\ steps' = steps + 1
    /\ \E x \in Vars : RefuseComment(x) \/ (Operation(x) /\ UNCHANGED dangled)

Spec == Init /\ [][Next]_vars

-----------------------------------------------------------------------------
\* The block that a leaf has besides its comments, and that of a name, or Null.
BlockOf(v) == IF v.type = "object" \/ (v.type = "string" /\ v.allocated) THEN v.at ELSE Null
NameBlock(name) == IF name.policy = "duplicate" THEN name.at ELSE Null

\* What a Value has to free, one after the other, or Null.
OwnedBy(v) ==
    IF v.members = << >> THEN <<BlockOf(v.self), v.self.info, v.self.text>>
    ELSE LET m == v.members[1]
         IN  <<BlockOf(v.self), v.self.info, v.self.text,
               NameBlock(m.name), BlockOf(m.leaf), m.leaf.info, m.leaf.text>>

\* The places of the Values that own a block.
Holders == {o \in Vars \X (1 .. 7) : o[2] \in DOMAIN OwnedBy(value[o[1]])
                                    /\ OwnedBy(value[o[1]])[o[2]] # Null}
Owned(o) == OwnedBy(value[o[1]])[o[2]]

LeafOK(v) ==
    /\ v.type \in {"null", "number", "string", "object"} /\ v.allocated \in BOOLEAN
    /\ {v.at, v.info, v.text} \subseteq Nat \cup {Static}
    /\ v.text # Null => v.info # Null
    /\ v.type \in {"null", "number"} => v.at = Null

TypeOK ==
    \A x \in Vars :
        /\ LeafOK(value[x].self)
        /\ value[x].members # << >> =>
              /\ value[x].self.type = "object" /\ LeafOK(value[x].members[1].leaf)
              /\ value[x].members[1].name.policy \in Policies

\* Nothing is freed twice, and no static string is freed, whatever copies,
\* assignments to oneself or to one's child, swaps and comments there were: as
\* long as none has dangled.  One that has is freed a second time.
FreedOnce == heap.faults = {}

\* Each block has one owner: what two Values own, the end of the first one
\* leaves the second one with; what none owns is lost.
OneOwner ==
    /\ \A o, p \in Holders : Owned(o) = Owned(p) => o = p
    /\ {Owned(o) : o \in Holders} = heap.live

\* A name or string that is read is there: one that is not owned is static.
ReadsLive ==
    \A x \in Vars :
        /\ value[x].self.type = "string" => value[x].self.at \in heap.live \cup {Null, Static}
        /\ value[x].members # << >> =>
              value[x].members[1].name.at \in heap.live \cup {Static}
=============================================================================
