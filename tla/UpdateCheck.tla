----------------------------- MODULE UpdateCheck -----------------------------
(***************************************************************************)
(* A round of the checker (requireUpdatePackage of daemon/src/main.cpp,    *)
(* HttpClient, RequestParams, RequireResult): the answer is gathered in    *)
(* the pieces libcurl hands over, read, and becomes an offer or nothing.   *)
(* With it the objects a round makes, up to the end of check_thread's      *)
(* loop.  What a task and a download do is OtaUpdate.                      *)
(*                                                                         *)
(* A text is a sequence of pieces, brackets and quotes under their names;  *)
(* "frame" is what a chunked transfer puts between two of them.            *)
(***************************************************************************)
EXTENDS Integers, Sequences, FiniteSetsExt

CONSTANTS
    Md5s,       \* the texts of the md5 the server may send
    MaxRounds   \* bound: rounds

\* What md5sum prints.
HexDigits == {"0", "1", "2", "3", "4", "5", "6", "7", "8", "9", "a", "b", "c", "d", "e", "f"}

CheckAssumption == MaxRounds \in Nat /\ Md5s \subseteq Seq(HexDigits)

VARIABLES
    at,         \* the round: "sleep", "transfer", "answer", "task", "run", "down"
    answer,     \* the answer's body
    pos,        \* how much of it was handed over
    cut,        \* whether the transfer ended before the body did
    buffer,     \* PostRequest's buffer
    overrun,    \* history: whether append took more than the piece
    rr,         \* the RequireResult, or None
    heap,       \* the objects that are live: [class, round]
    round,      \* how many rounds were begun
    quiet       \* history: the rounds of this process that got an offer and no task

vars == <<at, answer, pos, cut, buffer, overrun, rr, heap, round, quiet>>
transfer == <<answer, pos, cut, buffer, overrun>>

-----------------------------------------------------------------------------
(* Texts *)

None == [md5 |-> << >>, status |-> "none"]

\* The status in an answer: a number, none, or a text.
Statuses == {"1", "0", "none", "text"}

Text(status, md5) == <<"open", status, "md5">> \o md5 \o <<"quote", "close">>

Answers == {Text(s, m) : s \in Statuses, m \in Md5s} \cup {<<"html">>, <<"array", "close">>}

\* Slip: the end of the object is not looked for.
ParsedOpen(s) ==
    LET ends == {i \in 4 .. Len(s) : s[i] = "quote"} IN
    IF Len(s) >= 2 /\ s[1] = "array" /\ s[2] = "close" THEN [kind |-> "array"]
    ELSE IF Len(s) > 4 /\ s[1] = "open" /\ s[2] \in Statuses /\ s[3] = "md5" /\ ends # {}
         THEN [kind |-> "object", status |-> s[2], md5 |-> SubSeq(s, 4, Min(ends) - 1)]
         ELSE [kind |-> "fails"]

\* Reader::parse, which leaves what follows the first value unread.
Parsed(s) ==
    LET ends == {i \in 4 .. Len(s) : s[i] = "quote"} IN
    IF Len(s) >= 2 /\ s[1] = "array" /\ s[2] = "close" THEN [kind |-> "array"]
    ELSE IF /\ Len(s) > 4 /\ s[1] = "open" /\ s[2] \in Statuses /\ s[3] = "md5"
            /\ ends # {} /\ Min(ends) < Len(s) /\ s[Min(ends) + 1] = "close"
         THEN [kind |-> "object", status |-> s[2], md5 |-> SubSeq(s, 4, Min(ends) - 1)]
         ELSE [kind |-> "fails"]

\* asInt: a number is converted, null is 0, a text throws.
Throws(status) == status = "text"
Positive(status) == status = "1"

-----------------------------------------------------------------------------
Object(class) == [class |-> class, round |-> round]

Init ==
    /\ at = "sleep" /\ answer = << >> /\ pos = 0 /\ cut = FALSE /\ buffer = << >>
    /\ overrun = FALSE
    /\ rr = None /\ heap = {} /\ round = 0 /\ quiet = {}

\* requireUpdatePackage to the call of curl_easy_perform; the connection may
\* not come about.
Request ==
    /\ at = "sleep" /\ round < MaxRounds /\ round' = round + 1
    /\ heap' = heap \cup {[class |-> c, round |-> round'] :
                             c \in {"RequestParams", "DeviceInfo", "HttpClient"}}
    /\ answer' \in Answers /\ pos' = 0 /\ buffer' = << >> /\ overrun' = FALSE
    /\ \/ at' = "transfer" /\ cut' = FALSE
       \/ at' = "answer" /\ cut' = TRUE
    /\ UNCHANGED <<rr, quiet>>

\* saveToBuffer: append goes on behind the piece up to a zero.  In libcurl's
\* buffer the frame and what has come of the next pieces may stand there.
Appended(piece, behind) == buffer \o piece \o behind

\* What stands behind a piece that ends at n: a zero, or (bound: once in a
\* transfer) a frame and more.
BehindPiece(n) ==
    {<< >>} \cup
    {<<"frame">> \o SubSeq(answer, n + 1, k) : k \in IF overrun THEN {} ELSE n .. Len(answer)}

HandOver ==
    /\ at = "transfer" /\ pos < Len(answer)
    /\ \E n \in pos + 1 .. Len(answer) : \E behind \in BehindPiece(n) :
          /\ pos' = n
          /\ buffer' = Appended(SubSeq(answer, pos + 1, n), behind)
          /\ overrun' = (overrun \/ behind # << >>)
    /\ UNCHANGED <<at, answer, cut, rr, heap, round, quiet>>

\* curl_easy_perform returns; its result and the response code are only logged.
TransferEnds ==
    /\ at = "transfer" /\ at' = "answer" /\ cut' = (pos < Len(answer))
    /\ UNCHANGED <<answer, pos, buffer, overrun, rr, heap, round, quiet>>

\* libcurl sees that the whole body is there.
Completes == TransferEnds /\ pos = Len(answer)

\* Where a round without an offer goes.
WithoutOffer == "sleep"

Deleted(classes) == heap \ {Object(c) : c \in classes}

\* What is deleted on the way out of requireUpdatePackage.
Frees == {"RequestParams", "DeviceInfo", "HttpClient"}

\* RequireResult::Load and the test of its status.
Offers(p) == p.kind = "object" /\ Positive(p.status)

\* requireUpdatePackage after PostRequest, whose buffer goes.  A root that is an array trips the
\* assertion of operator[], or has no status in a build without assertions.
Answered ==
    /\ at = "answer"
    /\ LET p == Parsed(buffer) IN
       \/ /\ (p.kind = "object" /\ Throws(p.status)) \/ p.kind = "array"
          /\ at' = "down" /\ heap' = {} /\ quiet' = {} /\ UNCHANGED rr
       \/ /\ ~(p.kind = "object" /\ Throws(p.status)) /\ ~Offers(p)
          /\ at' = WithoutOffer /\ heap' = Deleted(Frees) /\ UNCHANGED <<rr, quiet>>
       \/ /\ ~(p.kind = "object" /\ Throws(p.status)) /\ Offers(p)
          /\ at' = "task" /\ rr' = [md5 |-> p.md5, status |-> p.status]
          /\ heap' = Deleted(Frees) \cup {Object("RequireResult")} /\ UNCHANGED quiet
    /\ buffer' = << >> /\ pos' = 0 /\ UNCHANGED <<answer, cut, overrun, round>>

\* createDownloadTask finds the package ready: continue.
NoTask ==
    /\ at = "task" /\ at' = "sleep" /\ rr' = None /\ quiet' = quiet \cup {round}
    /\ UNCHANGED <<transfer, heap, round>>

Task ==
    /\ at = "task" /\ at' = "run"
    /\ heap' = heap \cup {Object(c) : c \in {"DownloadTask", "Downloader", "DownloadCallback"}}
    /\ UNCHANGED <<transfer, rr, round, quiet>>

\* What the end of the loop deletes.
RoundFrees == {"RequireResult", "DownloadCallback", "DownloadTask", "Downloader"}

RoundEnds ==
    /\ at = "run" /\ at' = "sleep" /\ rr' = None /\ heap' = Deleted(RoundFrees)
    /\ UNCHANGED <<transfer, round, quiet>>

\* The daemon is started again.
Restart ==
    /\ at = "down" /\ at' = "sleep" /\ UNCHANGED <<transfer, rr, heap, round, quiet>>

CheckerStep == Answered \/ NoTask \/ Task \/ RoundEnds

Next == Request \/ HandOver \/ TransferEnds \/ CheckerStep \/ Restart

\* The thread and libcurl go on; nothing is said of the server.
Spec == Init /\ [][Next]_vars /\ WF_vars(CheckerStep) /\ WF_vars(Completes)

-----------------------------------------------------------------------------
\* An offer is what the server sent, however the answer was divided into
\* pieces, and it sent it whole (saveToBuffer, RequireResult::Load), as long as
\* append stopped where each piece did, at a zero behind it.
OfferIsAnswer == rr # None /\ ~overrun => ~cut /\ answer = Text("1", rr.md5)

\* A transfer that is cut, at any place, neither makes an offer nor brings the
\* daemon down (PostRequest returns what there is), on the same condition.
CutIsHarmless == cut /\ ~overrun => rr = None /\ at # "down"

\* What a round leaks, whatever was appended: where it had an offer and no task,
\* its RequireResult, which the continue of check_thread (main.cpp:325) passes
\* over; and nothing else on any way, so that between two rounds just those are
\* live.  They are never freed.
OnlyResultsLeak ==
    at = "sleep" => heap = {[class |-> "RequireResult", round |-> r] : r \in quiet}

\* A request comes to an end, and the checker to its next round or down, for a
\* server that goes on sending (PostRequest): libcurl is given no time limit
\* for the transfer, HTTP_REQUEST_TIME_OUT of HttpClient.h is that of the
\* connection.
RequestReturns == at = "transfer" ~> at \in {"sleep", "down"}
=============================================================================
