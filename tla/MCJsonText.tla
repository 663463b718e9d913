------------------------------ MODULE MCJsonText ------------------------------
(* Texts to take apart: broken ones, and those that the writers make of a     *)
(* string or a number, with what they were made from.                         *)
EXTENDS Integers, Sequences, SequencesExt, FiniteSets, FiniteSetsExt, TLC

CONSTANT MaxInt

VARIABLES text, current, tokens,
          meant      \* what the text was made from

UpTo(n, S) == UNION {[1 .. k -> S] : k \in 0 .. n}
Hex(n) == SubSeq(<<"0", "1", "2", "3", "4", "5", "6", "7", "8", "9", "a", "b", "c", "d", "e", "f">>,
                 n + 1, n + 1)
Four(n) == Hex(n \div 4096) \o Hex((n \div 256) % 16) \o Hex((n \div 16) % 16) \o Hex(n % 16)

\* The escapes of a code point: of its UTF-16.
U(n) == <<"\\", "u">> \o Four(n)
Escaped(cp) ==
    IF cp < 65536 THEN U(cp)
    ELSE U(55296 + ((cp - 65536) \div 1024)) \o U(56320 + ((cp - 65536) % 1024))
Points == {16, 65, 127, 128, 255, 2047, 2048, 4095, 4096, 55295, 57344, 65535,
           65536, 65537, 131071, 262143, 262144, 1048575, 1048576, 1114111}

Strs == UpTo(3, {"x", "\"", "\\", "NL", "ctl", "n", "u", "/"})

W == INSTANCE JsonWriter WITH RightMargin <- 74, Width <- LAMBDA leaf : 1
\* What sprintf makes of a double with "%#.16g", with fewer digits.
Printed == {a \o <<".">> \o b \o x : a \in [1 .. 1 -> {"0", "1"}] \cup [1 .. 2 -> {"1", "0"}],
               b \in UpTo(3, {"0", "1"}), x \in {<< >>, <<"e", "+", "1", "0", "0">>}}

INSTANCE JsonText

Signed == UpTo(4, {"0", "1", "6", "9", "-", "."})
Broken ==
    UpTo(5, {"\"", "\\", "x", " ", "NUL"}) \cup UpTo(6, {"/", "*", "NL", "x"})
    \cup UpTo(3, {"{", "]", ",", "n", "NUL", "-", "\"", "/"})
    \cup {w \o <<c>> : w \in {<<"t", "r", "u", "e">>, <<"n", "u", "l">>, <<"n", "u", "l", "l">>,
                              <<"f", "a", "l", "s", "e">>, <<"t", "r">>}, c \in {" ", "x", ","}}
    \cup Signed

Started(kind, meaning, document) == meant = <<kind, meaning>> /\ Start(document)
MCInit ==
    \/ \E t \in Broken : Started("text", t, t)
    \/ \E s \in Strs : Started("string", s, Quoted(s))
    \/ \E n \in MinInt .. MaxUInt : Started("integer", n, W!IntText(n))
    \/ \E t \in Printed : Started("double", t, W!DoubleText(t))
    \/ \E cp \in Points : Started("point", cp, <<"\"">> \o Escaped(cp) \o <<"x", "\"">>)

Finished == tokens # << >> /\ Last(tokens).type = "end"
First == TextOf(tokens[1])
Inside == SubSeq(First, 2, Len(First) - 1)
WholeText == Finished /\ Len(tokens) = 2 /\ First = text

\* A string is read back as it was written, every character of it.
StringsReadBack ==
    Finished /\ meant[1] = "string" =>
        WholeText /\ tokens[1].type = "string" /\ AsString(DecodeString(Inside)) = meant[2]

\* The bytes of an escaped code point are its UTF-8, read by its definition: a
\* first byte that tells the length, six bits in each of the others.
Decoded8(b) ==
    CASE b[1] < 128 -> <<b[1], 1>>
      [] b[1] \in 192 .. 223 -> <<b[1] - 192, 2>>
      [] b[1] \in 224 .. 239 -> <<b[1] - 224, 3>>
      [] b[1] \in 240 .. 247 -> <<b[1] - 240, 4>>
      [] OTHER -> <<0, 0>>
CodePointsReadBack ==
    Finished /\ meant[1] = "point" =>
        LET cp == meant[2]
            point == CodePoint(Inside, 3)
            bytes == UTF8(point[2])
            tail == SubSeq(bytes, 2, Len(bytes))
        IN  /\ point = <<Len(Inside) - 3, cp>>
            /\ Decoded8(bytes)[2] = Len(bytes)
            /\ \A i \in DOMAIN tail : tail[i] \in 128 .. 191
            /\ FoldLeft(LAMBDA n, b : (64 * n) + (b - 128), Decoded8(bytes)[1], tail) = cp
            /\ DecodeString(Inside) = [i \in DOMAIN bytes |-> Character(bytes[i])] \o <<"x">>

Decimal(t) == FoldLeft(LAMBDA n, c : (10 * n) + Digit(c), 0, t)

\* A whole number comes out as itself, where its last digit still fits and where
\* it does not: never as a number that went round.
NumbersDoNotWrap ==
    (Finished /\ tokens[1].type = "number" /\ ~IsDouble(First)) =>
        LET n == IF First[1] = "-" THEN -Decimal(Tail(First)) ELSE Decimal(First)
            read == DecodeNumber(First)
        IN  IF read.type = "double" THEN n >= 10 * Threshold(FALSE) \/ n <= -10 * Threshold(TRUE)
            ELSE /\ read.value = n
                 /\ n \in IF read.type = "int" THEN MinInt .. MaxInt ELSE 0 .. MaxUInt

\* A whole number that is written is read back, as itself or as a double.
IntegersReadBack ==
    Finished /\ meant[1] = "integer" =>
        LET n == meant[2] IN
        /\ WholeText /\ tokens[1].type = "number" /\ ~IsDouble(text)
        /\ DecodeNumber(text).type # "double" => DecodeNumber(text).value = n
        /\ n = IF n < 0 THEN -Decimal(Tail(text)) ELSE Decimal(text)

\* A double loses nothing but zeroes behind its point, and is read as a double.
Scaled(t) ==    \* <<value, digits behind the point>>, and the exponent
    LET e == SelectInSeq(t \o <<"e">>, LAMBDA c : c = "e")
        p == SelectInSeq(t, LAMBDA c : c = ".")
        digits == SubSeq(t, 1, p - 1) \o SubSeq(t, p + 1, e - 1)
    IN  <<Decimal(digits) * (10 ^ (5 - (e - p))), SubSeq(t, e, Len(t))>>
DoublesReadBack ==
    Finished /\ meant[1] = "double" =>
        /\ WholeText /\ tokens[1].type = "number" /\ IsDouble(text)
        /\ Scaled(text) = Scaled(meant[2])
=============================================================================
