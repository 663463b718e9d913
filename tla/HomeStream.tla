------------------------------ MODULE HomeStream ------------------------------
(***************************************************************************)
(* What goes over the connections to home (daemon/src/message, and recv    *)
(* and send of main.cpp): the handshake that home sends, and the messages  *)
(* as they are written into the stream, each with its length in front.     *)
(* A connection may break at any place, and a new one may replace it.      *)
(*                                                                         *)
(* A text is a sequence of characters; a name, an event, a result or a     *)
(* property counts as one of them.  Home is external: it reads character   *)
(* by character and cuts the stream by the lengths.                        *)
(***************************************************************************)
EXTENDS Integers, Sequences, SequencesExt

CONSTANTS
    MaxMessages,    \* bound: messages that are queued
    MaxConnects,    \* bound: connections that home opens
    Pieces          \* in how many pieces the handshake may arrive

BoundAssumption == {MaxMessages, MaxConnects, Pieces} \subseteq Nat

VARIABLES
    queued,     \* history: the messages pushed, in order: [type, event, result]
    popped,     \* how many of them were popped
    fd,         \* homeFd: "none", "hello" before the handshake, "open", "reset"
    hello,      \* the pieces of the handshake that home has sent
    complete,   \* whether they are the whole of it
    wire,       \* what send took and home has not read, a text for each call
    rest,       \* what home has read of this connection since the last message
    whole,      \* the messages it has cut from this connection
    before,     \* history: those it cut from earlier ones
    given,      \* history: of how many messages send took something
    base,       \* history: what given was when this connection was made
    connects    \* how many connections there were

vars == <<queued, popped, fd, hello, complete, wire, rest, whole, before, given, base, connects>>
link == <<fd, hello, complete, given, base, connects>>

-----------------------------------------------------------------------------
(* Texts *)

\* A string in quotes, and a name with the value behind its colon.
Quote(s) == <<"'", s, "'">>
Field(name, value) == Quote(name) \o <<":">> \o value

Versions == <<", ">> \o Field("version", Quote("2.1")) \o <<", ">> \o Field("platform", Quote("rk"))

\* OtaMessage::Init and SystemMessage::Init
Data(m) ==
    IF m.type = "SYSTEM_STATUS" THEN <<"{">> \o Tail(Versions) \o <<"}">>
    ELSE <<"{">> \o Field("event", Quote(m.event)) \o <<", ">> \o Field("result", Quote(m.result))
         \o (IF m.result = "SUCCESS" THEN Versions ELSE << >>) \o <<"}">>

Body(m) == <<"{">> \o Field("type", Quote(m.type)) \o <<", ">> \o Field("data", Data(m)) \o <<"}">>

DigitChars == <<"0", "1", "2", "3", "4", "5", "6", "7", "8", "9">>
Number(n) == IF n < 10 THEN <<DigitChars[n + 1]>>
             ELSE <<DigitChars[(n \div 10) + 1], DigitChars[(n % 10) + 1]>>

\* Slip: the length of the data.
JoinDataLength(m) == Number(Len(Data(m))) \o <<":">> \o Body(m)

\* JoinElements: the length of what follows the colon.
JoinElements(m) == Number(Len(Body(m))) \o <<":">> \o Body(m)

Messages == {[type |-> "SYSTEM_STATUS", event |-> "", result |-> ""],
             [type |-> "OTA_UPDATE", event |-> "EVENT_UPGRADE", result |-> "SUCCESS"],
             [type |-> "OTA_UPDATE", event |-> "EVENT_DOWNLOAD", result |-> "FAIL"]}

\* The handshake that is waited for, as a comment of main.cpp has it.
Handshake == <<"{">> \o Field("type", Quote("HANDSHAKE")) \o <<", ">>
             \o Field("data", Quote("ota_client")) \o <<"}">>

\* The length in front of a message, and where the message begins.
LengthAt(s) ==
    LET colon == CHOOSE i \in 1 .. 3 : i <= Len(s) /\ s[i] = ":"
        digit(c) == (CHOOSE d \in 1 .. 10 : DigitChars[d] = c) - 1
    IN  [n |-> IF colon = 2 THEN digit(s[1]) ELSE 10 * digit(s[1]) + digit(s[2]), from |-> colon + 1]

HasLength(s) ==
    \E i \in 2 .. 3 : /\ i <= Len(s) /\ s[i] = ":"
                      /\ \A j \in 1 .. i - 1 : s[j] \in ToSet(DigitChars)

\* A text that home has read is a message with its length.
IsFrame(s) ==
    /\ HasLength(s)
    /\ LengthAt(s).from + LengthAt(s).n - 1 = Len(s)

-----------------------------------------------------------------------------
Init ==
    /\ queued = << >> /\ popped = 0 /\ fd = "none" /\ hello = << >> /\ complete = FALSE
    /\ wire = << >> /\ rest = << >> /\ whole = << >> /\ before = << >> /\ given = 0 /\ base = 0 /\ connects = 0

Push(m) ==
    /\ Len(queued) < MaxMessages /\ queued' = Append(queued, m)
    /\ UNCHANGED <<popped, link, wire, rest, whole, before>>

\* Slip: what was sent last is sent once more.
ConnectAgain ==
    /\ fd # "hello" /\ connects < MaxConnects /\ connects' = connects + 1
    /\ fd' = "hello" /\ hello' = << >> /\ complete' = FALSE
    /\ before' = before \o whole /\ wire' = << >> /\ rest' = << >> /\ whole' = << >>
    /\ popped' = IF popped = 0 THEN 0 ELSE popped - 1
    /\ base' = given /\ UNCHANGED <<queued, given>>

\* A new connection takes the place of the one there is; what was under way on
\* that one and has not arrived is lost.
Connect ==
    /\ fd # "hello" /\ connects < MaxConnects /\ connects' = connects + 1
    /\ fd' = "hello" /\ hello' = << >> /\ complete' = FALSE
    /\ before' = before \o whole /\ wire' = << >> /\ rest' = << >> /\ whole' = << >>
    /\ base' = given /\ UNCHANGED <<queued, popped, given>>

\* Home sends the rest of its handshake, or a part of it.
SaysHello ==
    /\ fd = "hello" /\ ~complete
    /\ LET more == SubSeq(Handshake, Len(FlattenSeq(hello)) + 1, Len(Handshake)) IN
       \/ hello' = Append(hello, more) /\ complete' = TRUE
       \/ /\ Len(hello) + 1 < Pieces /\ UNCHANGED complete
          /\ \E n \in 1 .. Len(more) - 1 : hello' = Append(hello, SubSeq(more, 1, n))
    /\ UNCHANGED <<queued, popped, fd, wire, rest, whole, before, given, base, connects>>

\* handshakeWithHome: one recv, of the pieces that are there by then.
ShakeHands ==
    /\ fd = "hello" /\ hello # << >>
    /\ \E n \in 1 .. Len(hello) :
          fd' = IF FlattenSeq(SubSeq(hello, 1, n)) = Handshake THEN "open" ELSE "none"
    /\ hello' = << >> /\ UNCHANGED <<queued, popped, complete, wire, rest, whole, before, given, base, connects>>

\* Pop, unless send failed: -1 stands for its result then.
PopsIfSent(taken) == IF taken < 0 THEN popped ELSE popped + 1

\* send: all of it, a part if the connection breaks meanwhile, or an error.
Send ==
    /\ fd \in {"open", "reset"} /\ popped < Len(queued)
    /\ LET text == JoinElements(queued[popped + 1]) IN
       \/ fd = "reset" /\ popped' = PopsIfSent(-1) /\ UNCHANGED <<fd, wire, given>>
       \/ /\ fd = "open" /\ given' = given + 1
          /\ \/ wire' = Append(wire, text) /\ popped' = PopsIfSent(Len(text)) /\ UNCHANGED fd
             \/ /\ fd' = "reset"
                /\ \E n \in 1 .. Len(text) - 1 :
                      wire' = Append(wire, SubSeq(text, 1, n)) /\ popped' = PopsIfSent(n)
    /\ UNCHANGED <<queued, hello, complete, rest, whole, before, base, connects>>

\* Home reads the next character.
Arrive ==
    /\ wire # << >>
    /\ LET text == Head(wire)
           read == Append(rest, Head(text))
       IN  /\ wire' = IF Len(text) = 1 THEN Tail(wire) ELSE <<Tail(text)>> \o Tail(wire)
           /\ IF IsFrame(read)
              THEN rest' = << >> /\ whole' = Append(whole, SubSeq(read, LengthAt(read).from, Len(read)))
              ELSE rest' = read /\ UNCHANGED whole
    /\ UNCHANGED <<queued, popped, link, before>>

\* The peer goes, or its host does; a server that waits for the handshake
\* reads nothing then.
Break ==
    /\ \/ fd = "open" /\ fd' = "reset"
       \/ fd = "hello" /\ hello = << >> /\ fd' = "none"
    /\ wire' = << >>
    /\ UNCHANGED <<queued, popped, hello, complete, rest, whole, before, given, base, connects>>

Next ==
    \/ Connect \/ SaysHello \/ ShakeHands \/ Send \/ Arrive \/ Break
    \/ \E m \in Messages : Push(m)

Spec == Init /\ [][Next]_vars /\ WF_vars(ShakeHands) /\ WF_vars(Send) /\ WF_vars(Arrive)

-----------------------------------------------------------------------------
Bodies(s) == [i \in 1 .. Len(s) |-> Body(s[i])]

\* s is what is left of t when some of its members are taken away.
IsSubsequence(s, t) ==
    \E place \in [1 .. Len(s) -> 1 .. Len(t)] :
        /\ \A i \in 1 .. Len(s) : s[i] = t[place[i]]
        /\ \A i \in 1 .. Len(s) : \A j \in 1 .. i - 1 : place[j] < place[i]

\* On a connection what home cuts from the stream are the messages that send
\* took since it was made, each whole, in order and without a gap, wherever the
\* stream ends, and all of them once it has read what they were sent as, while
\* the connection holds; what was popped is what send took, at least in part
\* (JoinElements, send).
FramesAreMessages ==
    /\ popped = given /\ base + Len(whole) <= given
    /\ whole = SubSeq(Bodies(queued), base + 1, base + Len(whole))
    /\ fd = "open" /\ wire = << >> => base + Len(whole) = given /\ rest = << >>

\* Over all the connections no message arrives twice, or after one queued
\* behind it, and none that is still in the queue has arrived.
InOrderOnce ==
    IsSubsequence(before \o whole, SubSeq(Bodies(queued), 1, popped))

\* On a connection that holds, everything that send took nothing of before it
\* was made arrives: a message is lost to a break only, and one it found in the
\* queue is sent on the next connection.
Arrives ==
    <>[](fd = "open") =>
        <>[](wire = << >> /\ whole = SubSeq(Bodies(queued), base + 1, Len(queued)))
=============================================================================
