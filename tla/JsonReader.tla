------------------------------ MODULE JsonReader ------------------------------
(***************************************************************************)
(* Json::Reader above its tokens (daemon/src/json/json_reader.cpp): parse, *)
(* readValue, readObject and readArray, the recovery from errors, and the  *)
(* comments that are collected on the way.  The recursion of the code is a *)
(* stack of frames; a Value is named by its path from the root, which is   *)
(* what the pointers of nodes_ and lastValue_ stand for.                   *)
(*                                                                         *)
(* Tokens: brackets, "," and ":"; "a", "b" and "" are strings, "1" stands  *)
(* for the numbers, true and false; "?" is a string or number that does    *)
(* not decode, "!" what is no token; "/**/" and "//" are comments on the   *)
(* line of what stands before them, "\n/**/" stands further down and       *)
(* "/*\n*/" goes over two lines.                                           *)
(***************************************************************************)
EXTENDS Integers, Sequences, SequencesExt, FiniteSets

CONSTANTS
    Calls,            \* the calls of parse: [document, features], where features
                      \* are [allowComments, strictRoot, collect]
    NextTokens(_, _)  \* external: the tokens that may follow in a document, after
                      \* those read so far

CallsAssumption ==
    \A call \in Calls : call.features \in [{"allowComments", "strictRoot", "collect"} -> BOOLEAN]

Strings == {"a", "b", ""}
Scalars == Strings \cup {"1", "null"}
Comments == {"/**/", "//", "\n/**/", "/*\n*/"}
Tokens == Scalars \cup Comments \cup {"{", "}", "[", "]", ",", ":", "?", "!", "end"}
None == << << >> >>   \* no path

VARIABLES
    document,  \* what is read
    features,  \* features_, and the argument collectComments
    doc,       \* history: the tokens read
    pc,        \* which token the code waits for
    frames,    \* the readObject and readArray at work: [in, index, name]
    nodes,     \* nodes_: the path of currentValue
    tree,      \* the Value of each path there is
    attached,  \* the comments set on Values: <<path, placement, comment>>
    before,    \* commentsBefore_
    last,      \* lastValue_, or None
    newline,   \* whether there was one since lastValueEnd_
    errors,    \* how many errors errors_ holds
    success    \* what readValue, and parse, returned

state == <<pc, frames, nodes, tree, errors, success>>
notes == <<attached, before, last, newline>>
vars == <<document, features, doc, state, notes>>

Collecting == features.collect /\ features.allowComments

Fresh ==
    /\ doc = << >>
    /\ pc = "value" /\ frames = << >> /\ nodes = << >>
    /\ tree = [p \in {<< >>} |-> "null"]
    /\ attached = {} /\ before = << >> /\ last = None /\ newline = FALSE
    /\ errors = 0 /\ success = TRUE

Init == Fresh /\ \E call \in Calls : document = call.document /\ features = call.features

-----------------------------------------------------------------------------
(* What the functions share *)

Index(i) == <<i>>
Member(name) == <<"member", name>>
Top == frames[Len(frames)]
Target(frame) == IF frame.in = "array" THEN "]" ELSE "}"
EndSeen == doc # << >> /\ Last(doc) = "end"

\* The token that readToken finds, a comment's effect aside.
Upcoming == IF EndSeen THEN {"end"} ELSE NextTokens(document, doc)
Reads(t) == doc' = IF EndSeen THEN doc ELSE Append(doc, t)

\* operator= of a Value: its members and elements go.
Assigned(type) ==
    [p \in {q \in DOMAIN tree : ~IsStrictPrefix(nodes, q)} |->
        IF p = nodes THEN type ELSE tree[p]]

\* operator[] of the value at hand: a null is made if there is none yet.
Enter(key) ==
    LET child == Append(nodes, key) IN
    /\ nodes' = child
    /\ tree' = [p \in DOMAIN tree \cup {child} |->
                  IF p \in DOMAIN tree THEN tree[p] ELSE "null"]

\* setComment replaces what was set at that place.
Attach(path, place, comment) ==
    {a \in attached : <<a[1], a[2]>> # <<path, place>>} \cup {<<path, place, comment>>}

\* Whether lastValue_ is set: whatever the value and its result was.
Remember(container) == TRUE

\* readValue ends, with the frames that are left: the caller goes on behind
\* the value, or recovers from its error.
Return(ok, left) ==
    /\ frames' = left
    /\ IF left = << >>
       THEN pc' = "end" /\ success' = ok /\ UNCHANGED nodes
       ELSE /\ nodes' = Front(nodes)
            /\ pc' = IF ~ok THEN "recover"
                     ELSE IF Last(left).in = "array" THEN "element end" ELSE "member end"
            /\ UNCHANGED success

Noted(container) ==
    IF Collecting /\ Remember(container)
    THEN last' = nodes /\ newline' = FALSE
    ELSE UNCHANGED <<last, newline>>

\* addErrorAndRecover
Fails ==
    /\ errors' = errors + 1 /\ pc' = "recover"
    /\ UNCHANGED <<frames, nodes, tree, success, notes>>

-----------------------------------------------------------------------------
(* Comments *)

\* Where skipCommentTokens or a loop of its own steps over comments.
SkipsComments ==
    \/ pc \in {"value", "first", "end"} /\ features.allowComments
    \/ pc \in {"name", "member end", "separator", "element end", "recover"}

\* Whether a comment belongs to the value that ended on its line.
Behind(t) == last # None /\ ~newline /\ t \notin {"\n/**/", "/*\n*/"}

\* readComment and addComment.
Comment(t) ==
    /\ t \in Comments
    /\ LET own == <<Len(doc) + 1>> IN
       IF ~Collecting THEN UNCHANGED <<attached, before, newline>>
       ELSE /\ newline' = (newline \/ t # "/**/")
            /\ IF Behind(t)
               THEN attached' = Attach(last, "same line", own) /\ UNCHANGED before
               ELSE before' = before \o own /\ UNCHANGED attached
    /\ UNCHANGED last

SkipComment(t) ==
    /\ SkipsComments /\ Comment(t)
    /\ pc' = CASE pc = "first" -> "value"
               [] pc = "member end" -> "separator"
               [] OTHER -> pc
    /\ UNCHANGED <<frames, nodes, tree, errors, success>>

\* A comment where the code takes it for a wrong token.
WrongComment(t) ==
    /\ pc \in {"value", "first", "colon"} /\ ~SkipsComments /\ Comment(t)
    /\ errors' = errors + 1
    /\ IF pc = "colon" THEN pc' = "recover" /\ UNCHANGED <<frames, nodes, success>>
                       ELSE Return(FALSE, frames)
    /\ UNCHANGED tree

-----------------------------------------------------------------------------
(* readValue, readObject and readArray *)

Containers == [in : {"object", "array"}, index : Nat, name : Strings]
Opened(in) == [in |-> in, index |-> 0, name |-> ""]

\* What was collected before the value goes with it.
PutBefore ==
    IF before = << >> THEN UNCHANGED <<attached, before>>
    ELSE attached' = Attach(nodes, "before", before) /\ before' = << >>

Value(t) ==
    /\ pc \in {"value", "first"} /\ t \notin Comments
    /\ pc = "first" => t # "]"
    /\ PutBefore
    /\ \/ /\ t = "{"
          /\ tree' = Assigned("object") /\ frames' = Append(frames, Opened("object"))
          /\ pc' = "name" /\ UNCHANGED <<nodes, errors, success, last, newline>>
       \/ /\ t = "[" /\ frames' = Append(frames, Opened("array"))
          /\ tree' = Assigned("array") /\ pc' = "opened"
          /\ UNCHANGED <<nodes, errors, success, last, newline>>
       \/ /\ t \in Scalars /\ tree' = Assigned(t)
          /\ Return(TRUE, frames) /\ Noted(FALSE) /\ UNCHANGED errors
       \/ /\ t = "?" /\ errors' = errors + 1
          /\ Return(FALSE, frames) /\ Noted(FALSE) /\ UNCHANGED tree
       \/ /\ t \notin Scalars \cup {"{", "[", "?"} /\ errors' = errors + 1
          /\ Return(FALSE, frames) /\ UNCHANGED <<tree, last, newline>>

\* readArray looks at the next character for an array without elements.
EmptyArray ==
    /\ pc = "opened" /\ "]" \in Upcoming /\ Reads("]")
    /\ Return(TRUE, Front(frames)) /\ Noted(TRUE)
    /\ UNCHANGED <<tree, attached, before, errors>>

FirstElement ==
    /\ pc = "opened" /\ Upcoming # {"]"}
    /\ Enter(Index(0)) /\ pc' = "first"
    /\ UNCHANGED <<doc, frames, errors, success, notes>>

\* Slip: the end of the object is taken after any "," as well.
ClosesAnywhere(t) == t = "}"

\* As long as no name has been read, or the last one was empty.
ClosesEmpty(t) == t = "}" /\ Top.name = ""

Name(t) ==
    /\ pc = "name" /\ t \notin Comments
    /\ \/ /\ ClosesEmpty(t)
          /\ Return(TRUE, Front(frames)) /\ Noted(TRUE)
          /\ UNCHANGED <<tree, attached, before, errors>>
       \/ /\ t \in Strings
          /\ frames' = [frames EXCEPT ![Len(frames)].name = t] /\ pc' = "colon"
          /\ UNCHANGED <<nodes, tree, errors, success, notes>>
       \/ ~ClosesEmpty(t) /\ t \notin Strings /\ Fails

Colon(t) ==
    /\ pc = "colon" /\ t \notin Comments
    /\ \/ /\ t = ":" /\ Enter(Member(Top.name)) /\ pc' = "value"
          /\ UNCHANGED <<frames, errors, success, notes>>
       \/ t # ":" /\ Fails

CloseObject ==
    /\ Return(TRUE, Front(frames)) /\ Noted(TRUE)
    /\ UNCHANGED <<tree, attached, before, errors>>

MemberEnd(t) ==
    /\ pc = "member end" /\ t \notin Comments
    /\ \/ t = "}" /\ CloseObject
       \/ /\ t = "," /\ pc' = "name"
          /\ UNCHANGED <<frames, nodes, tree, errors, success, notes>>
       \/ t \notin {"}", ","} /\ Fails

\* Behind a comment whatever is not the end passes for the separator.
Separator(t) ==
    /\ pc = "separator" /\ t \notin Comments
    /\ \/ t = "}" /\ CloseObject
       \/ /\ t # "}" /\ pc' = "name"
          /\ UNCHANGED <<frames, nodes, tree, errors, success, notes>>

\* index++
NextIndex(frame) == frame.index + 1

\* badTokenType asks for a token of two types at once: each one passes.
ElementEnd(t) ==
    /\ pc = "element end" /\ t \notin Comments
    /\ \/ t = "]" /\ CloseObject
       \/ /\ t # "]" /\ pc' = "value"
          /\ Enter(Index(NextIndex(Top)))
          /\ frames' = [frames EXCEPT ![Len(frames)].index = NextIndex(Top)]
          /\ UNCHANGED <<errors, success, notes>>

\* Slip: only the end that was looked for stops it.
StopsRecovery(t) == t = Target(Top)

\* recoverFromError: until the end of what could not be read.
Recovered(t) == t \in {Target(Top), "end"}

Recover(t) ==
    /\ pc = "recover" /\ t \notin Comments
    /\ \/ Recovered(t) /\ Return(FALSE, Front(frames)) /\ Noted(TRUE)
       \/ ~Recovered(t) /\ UNCHANGED <<pc, frames, nodes, success, last, newline>>
    /\ UNCHANGED <<tree, attached, before, errors>>

-----------------------------------------------------------------------------
(* parse *)

\* isArray and isObject are true of a null as well.
WrongRoot == features.strictRoot /\ tree[<< >>] \notin {"array", "object", "null"}

Verdict == success /\ ~WrongRoot

\* The one token behind the value is not looked at.
End(t) ==
    /\ pc = "end" /\ (t \notin Comments \/ ~features.allowComments)
    /\ pc' = "done"
    /\ attached' = IF before = << >> THEN attached
                                     ELSE Attach(<< >>, "after", before)
    /\ errors' = IF WrongRoot THEN errors + 1 ELSE errors
    /\ success' = Verdict
    /\ UNCHANGED <<frames, nodes, tree, before, last, newline>>

ReadToken(t) ==
    /\ Reads(t)
    /\ \/ SkipComment(t) \/ WrongComment(t) \/ Value(t) \/ Name(t) \/ Colon(t)
       \/ MemberEnd(t) \/ Separator(t) \/ ElementEnd(t) \/ Recover(t) \/ End(t)

Next ==
    /\ EmptyArray \/ FirstElement \/ \E t \in Upcoming : ReadToken(t)
    /\ UNCHANGED <<document, features>>

Spec == Init /\ [][Next]_vars /\ WF_vars(Next)

-----------------------------------------------------------------------------
(* What parse promises *)

Done == pc = "done"

TypeOK ==
    /\ doc \in Seq(Tokens)
    /\ pc \in {"value", "opened", "first", "name", "colon", "member end", "separator",
               "element end", "recover", "end", "done"}
    /\ frames \in Seq(Containers)
    /\ pc \notin {"value", "first", "end", "done"} => frames # << >>
    /\ errors \in Nat /\ success \in BOOLEAN /\ newline \in BOOLEAN

\* parse returns true just if it has reported nothing, over every nesting of
\* returns and recoveries: the caller that logs the messages of a false has one
\* to log, and one that trusts a true has none to miss.
ErrorsReported == Done => (success <=> errors = 0)

\* The pointers that outlive a call stay good: those of nodes_, and lastValue_,
\* which a comment far behind is written through.  A name given twice frees
\* what stood below it, but never the value read last (readValue sets
\* lastValue_ for containers when they end).
PointersLive ==
    /\ \A i \in 0 .. Len(nodes) : SubSeq(nodes, 1, i) \in DOMAIN tree
    /\ last = None \/ last \in DOMAIN tree

\* Each comment is kept once at most, and what is lost is only a comment behind
\* a value that the next one on its line replaced, with no other value between
\* them: reading on, through brackets, separators and the end, drops none
\* (commentsBefore_).
CommentsOnce ==
    /\ \A a, b \in attached : a # b => ToSet(a[3]) \cap ToSet(b[3]) = {}
    /\ (Done /\ success /\ Collecting) =>
         \A k \in 1 .. Len(doc) :
            \/ doc[k] \notin Comments
            \/ \E a \in attached : k \in ToSet(a[3])
            \/ \E a \in attached : /\ a[2] = "same line" /\ k < a[3][1] /\ doc[k] = "/**/"
                                   /\ \A j \in k .. a[3][1] :
                                         doc[j] \in Comments \cup Strings \cup {",", ":"}

\* A comment behind a value on its line is kept at that value: one that starts
\* further down, or goes on there, is not.
PlacedByLine ==
    \A a \in attached : a[2] = "same line" => doc[a[3][1]] \in {"/**/", "//"}

\* Every document ends, errors or not: no loop waits for a bracket that is not
\* there (recoverFromError, readArray).
Terminates == <>Done
=============================================================================
