------------------------------- MODULE JsonText -------------------------------
(***************************************************************************)
(* The characters of a document: the tokens that Reader::readToken finds   *)
(* in them, how a number or a string in them is decoded (json_reader.cpp), *)
(* and how the writers put a string down (json_writer.cpp).                *)
(*                                                                         *)
(* A text is a sequence of characters; one stands for its class: "x" for   *)
(* those that mean nothing anywhere, "ctl" for a control character without *)
(* a letter of its own, "NL" for an end of line, "NUL" for a zero.         *)
(***************************************************************************)
EXTENDS Integers, Sequences, SequencesExt, FiniteSets, FiniteSetsExt, TLC

CONSTANT MaxInt     \* Value::maxInt; minInt and maxUInt follow from it

WidthAssumption == MaxInt \in Nat /\ MaxInt % 2 = 1

VARIABLES
    text,      \* the characters from begin_ to end_
    current,   \* current_, as the number of characters read
    tokens     \* history: the tokens, [type, first, last]

vars == <<text, current, tokens>>

MinInt == -MaxInt - 1
MaxUInt == 2 * MaxInt + 1
Spaces == {" ", "NL"}
Digits == <<"0", "1", "2", "3", "4", "5", "6", "7", "8", "9">>
HexDigits == Digits \o <<"a", "b", "c", "d", "e", "f">>
IsDigit(c) == c \in ToSet(Digits)
Digit(c) == (CHOOSE i \in 1 .. 16 : HexDigits[i] = c) - 1

\* The first position from i on where P holds, or the end of the text.
Find(i, P(_)) == Min({k \in i .. Len(text) : P(k)} \cup {Len(text) + 1})

\* At most what there is, from i to j.
Slice(t, i, j) == SubSeq(t, i, Min({j, Len(t)}))

\* *current_: behind the last character there is the zero of c_str.
At(k) == IF k <= Len(text) THEN text[k] ELSE "NUL"

-----------------------------------------------------------------------------
(* Where a token ends: the last character read, and whether it was one.  *)
(* The token starts at s.                                                *)

\* getNextChar gives a zero at the end and stays there.
SkipEscape(k) == Min({k + 2, Len(text) + 1})

\* The position of the quote that ends the string, by leaps over escapes.
StringEnd(s) ==
    LET stop[k \in s + 1 .. Len(text) + 2] ==
          IF k > Len(text) THEN <<FALSE, k - 1>>
          ELSE IF text[k] = "\\" THEN stop[SkipEscape(k)]
          ELSE IF text[k] = "\"" THEN <<TRUE, k>>
          ELSE stop[k + 1]
    IN  stop[s + 1]

\* Where the loop of readCStyleComment starts.
BlockFrom(s) == s + 2

CommentEnd(s) ==
    LET star == Find(BlockFrom(s), LAMBDA k : text[k] = "*" /\ At(k + 1) = "/")
        line == Find(s + 2, LAMBDA k : text[k] = "NL")
    IN  CASE At(s + 1) = "*" -> IF star > Len(text) THEN <<FALSE, Len(text)>>
                                                    ELSE <<TRUE, star + 1>>
          [] At(s + 1) = "/" -> <<TRUE, Min({line, Len(text)})>>
          [] OTHER           -> <<FALSE, Min({s + 1, Len(text)})>>

NumberEnd(s) ==
    <<TRUE, Find(s + 1, LAMBDA k : ~IsDigit(text[k]) /\ text[k] \notin {".", "e", "E", "+", "-"}) - 1>>

\* match: the rest of a word, or nothing of it.
Word(s, rest) ==
    IF Slice(text, s + 1, s + Len(rest)) = rest THEN <<TRUE, s + Len(rest)>> ELSE <<FALSE, s>>

Unknown(s) == <<"error", FALSE, s>>

Scan(s) ==
    LET c == text[s] IN
    CASE c \in {"{", "}", "[", "]", ",", ":"} -> <<c, TRUE, s>>
      [] c = "\""                -> <<"string">> \o StringEnd(s)
      [] c = "/"                 -> <<"comment">> \o CommentEnd(s)
      [] IsDigit(c) \/ c = "-"   -> <<"number">> \o NumberEnd(s)
      [] c = "t"                 -> <<"true">> \o Word(s, <<"r", "u", "e">>)
      [] c = "f"                 -> <<"false">> \o Word(s, <<"a", "l", "s", "e">>)
      [] c = "n"                 -> <<"null">> \o Word(s, <<"u", "l", "l">>)
      [] c = "NUL"               -> <<"end", TRUE, s>>
      [] OTHER                   -> Unknown(s)

ReadToken ==
    LET s == Find(current + 1, LAMBDA k : text[k] \notin Spaces)
        scan == Scan(s)
        type == IF s > Len(text) THEN "end" ELSE IF scan[2] THEN scan[1] ELSE "error"
        last == IF s > Len(text) THEN Len(text) ELSE scan[3]
    IN  /\ tokens # << >> => Last(tokens).type # "end"
        /\ current' = last
        /\ tokens' = Append(tokens, [type |-> type, first |-> s, last |-> last])
        /\ UNCHANGED text

Start(document) == text = document /\ current = 0 /\ tokens = << >>

TextOf(token) == SubSeq(text, token.first, token.last)

-----------------------------------------------------------------------------
(* What a number token means: a whole number, "double" for what sscanf is  *)
(* asked, or "error".                                                      *)

IsDouble(t) ==
    \E i \in 1 .. Len(t) : t[i] \in {".", "e", "E", "+"} \/ (t[i] = "-" /\ i > 1)

\* Slip: the threshold keeps one digit too many.
LooseThreshold(negative) == (IF negative THEN -MinInt ELSE MaxUInt) \div 10 + 1

\* From here on one more digit might not fit.
Threshold(negative) == (IF negative THEN -MinInt ELSE MaxUInt) \div 10

DecodeNumber(t) ==
    LET negative == t[1] = "-"
        from == IF negative THEN 2 ELSE 1
        value[i \in from - 1 .. Len(t)] ==    \* the digits up to i, or -1
          IF i < from THEN 0
          ELSE IF value[i - 1] = -1 \/ value[i - 1] >= Threshold(negative) THEN -1
          ELSE ((value[i - 1] * 10) + Digit(t[i])) % (MaxUInt + 1)
        n == value[Len(t)]
    IN  IF IsDouble(t) \/ n = -1 THEN [type |-> "double", value |-> 0]
        ELSE IF negative THEN [type |-> "int", value |-> -n]
        ELSE [type |-> IF n <= MaxInt THEN "int" ELSE "uint", value |-> n]

-----------------------------------------------------------------------------
(* What a string token means: its characters, or what is wrong with it.  A *)
(* code point, given by four digits or by two fours, is its bytes.         *)

Wrong == <<"wrong">>
Escapes == [c \in {"\"", "/", "\\"} |-> c] @@ ("n" :> "NL")
IsHex(t) == Len(t) = 4 /\ \A i \in 1 .. 4 : t[i] \in ToSet(HexDigits)
HexValue(t) == FoldLeft(LAMBDA n, c : (16 * n) + Digit(c), 0, t)

High(u) == u \in 55296 .. 56319         \* 0xD800 .. 0xDBFF
PairValue(u, v) == 65536 + ((u % 1024) * 1024) + (v % 1024)

\* codePointToUTF8
UTF8(cp) ==
    LET six(n) == 128 + (n % 64) IN
    CASE cp < 128     -> <<cp>>
      [] cp \in 128 .. 2047 -> <<192 + ((cp \div 64) % 32), six(cp)>>
      [] cp \in 2048 .. 65535 -> <<224 + ((cp \div 4096) % 16), six(cp \div 64), six(cp)>>
      [] cp \in 65536 .. 1114111 ->
            <<240 + ((cp \div 262144) % 8), six(cp \div 4096), six(cp \div 64), six(cp)>>
      [] OTHER -> << >>

\* decodeUnicodeCodePoint, the digits in t from i on: <<characters read, value>>,
\* or nothing.
CodePoint(t, i) ==
    LET u == Slice(t, i, i + 3)
        v == Slice(t, i + 6, i + 9)
    IN  IF ~IsHex(u) THEN << >>
        ELSE IF ~High(HexValue(u)) THEN <<4, HexValue(u)>>
        ELSE IF Len(t) < i + 9 \/ SubSeq(t, i + 4, i + 5) # <<"\\", "u">> \/ ~IsHex(v) THEN << >>
        ELSE <<10, PairValue(HexValue(u), HexValue(v))>>

Character(byte) == CASE byte = 0 -> "NUL" [] byte = 1 -> "ctl" [] OTHER -> ToString(byte)

\* decodeString of what stands between the quotes.
DecodeString(t) ==
    LET rest[i \in 1 .. Len(t) + 11] ==
          IF i > Len(t) THEN << >>
          ELSE IF t[i] # "\\" THEN <<t[i]>> \o rest[i + 1]
          ELSE IF i = Len(t) THEN Wrong
          ELSE IF t[i + 1] # "u"
          THEN IF t[i + 1] \in DOMAIN Escapes
               THEN <<Escapes[t[i + 1]]>> \o rest[i + 2] ELSE Wrong
          ELSE LET cp == CodePoint(t, i + 2) IN
               IF cp = << >> THEN Wrong
               ELSE [k \in DOMAIN UTF8(cp[2]) |-> Character(UTF8(cp[2])[k])]
                    \o rest[i + 2 + cp[1]]
        all == rest[1]
    IN  IF Wrong[1] \in ToSet(all) THEN Wrong ELSE all

\* Value keeps the string with its zeroes, and gives out what is before one.
AsString(s) == SubSeq(s, 1, SelectInSeq(s \o <<"NUL">>, LAMBDA c : c = "NUL") - 1)

-----------------------------------------------------------------------------
(* The writers *)

\* strpbrk or containsControlCharacter
NeedsEscapes(s) == ToSet(s) \cap {"\"", "\\", "NL", "ctl"} # {}

\* valueToQuotedString
Quoted(s) ==
    LET escape(c) == CASE c \in {"\"", "\\"} -> <<"\\", c>>
                       [] c = "NL"  -> <<"\\", "n">>
                       [] c = "ctl" -> <<"\\", "u", "0", "0", "0", "1">>
                       [] OTHER     -> <<c>>
    IN  <<"\"">> \o (IF NeedsEscapes(s) THEN FlattenSeq([i \in DOMAIN s |-> escape(s[i])]) ELSE s)
        \o <<"\"">>

-----------------------------------------------------------------------------
TypeOK ==
    /\ current \in 0 .. Len(text)
    /\ \A i \in DOMAIN tokens : tokens[i].first \in 1 .. Len(text) + 1

\* The tokens follow each other without an overlap, over nothing but spaces, and
\* every one but the end takes a character: so reading comes to the end, and
\* what an escape, a comment or a number that breaks off leaves behind is neither
\* skipped nor read twice.
TokensTile ==
    \A i \in DOMAIN tokens :
        LET from == IF i = 1 THEN 1 ELSE tokens[i - 1].last + 1
            t == tokens[i]
        IN  /\ \A k \in from .. t.first - 1 : text[k] \in Spaces
            /\ from <= t.first
            /\ t.last \in t.first .. Len(text) \/ (t.type = "end" /\ t.last = Len(text))

\* A string ends at its first quote that no backslash before it escapes, a
\* comment at the first end behind its opening.
TokensClosed ==
    \A i \in DOMAIN tokens :
        LET t == TextOf(tokens[i])
            slashes(k) == {j \in 1 .. k - 1 : \A m \in j .. k - 1 : t[m] = "\\"}
            closing(k) == t[k] = "\"" /\ Cardinality(slashes(k)) % 2 = 0
        IN  /\ tokens[i].type = "string" =>
                 Len(t) > 1 /\ closing(Len(t)) /\ \A k \in 2 .. Len(t) - 1 : ~closing(k)
            /\ tokens[i].type = "comment" /\ t[2] = "*" =>
                 /\ Len(t) > 3 /\ SubSeq(t, Len(t) - 1, Len(t)) = <<"*", "/">>
                 /\ \A k \in 3 .. Len(t) - 2 : SubSeq(t, k, k + 1) # <<"*", "/">>
=============================================================================
