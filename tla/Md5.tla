---------------------------------- MODULE Md5 ----------------------------------
(***************************************************************************)
(* The class MD5 (daemon/src/fs/md5.cpp) around its compression function:  *)
(* a message that arrives in pieces of any size is cut into blocks, padded *)
(* and followed by its length.  The state ABCD is taken for the sequence   *)
(* of bytes compressed so far (transform tells apart any two of them); a   *)
(* byte of the message is its number in the message.                       *)
(***************************************************************************)
EXTENDS Integers, Sequences

CONSTANTS
    BlockLen,    \* 64: the bytes of a block
    ByteBits,    \* 8
    Word,        \* 2^32: what _count[0] and _count[1] are counted modulo
    MaxPiece,    \* bound: the longest piece
    MaxPieces    \* bound: how many calls of update and digest

LengthLen == 2              \* the encoded length: two words, a byte each
PadTo == BlockLen - LengthLen   \* 56

Md5Assumption ==
    /\ BlockLen \in Nat /\ BlockLen > LengthLen
    /\ ByteBits \in Nat \ {0} /\ Word \in Nat \ {0}
    /\ Word % (ByteBits * BlockLen) = 0
    /\ MaxPiece \in Nat /\ MaxPieces \in Nat

VARIABLES
    state,     \* _state
    low, high, \* _count
    buffer,    \* _buffer
    digest,    \* _digest
    message,   \* history: how many bytes update was given since reset
    spoilt,    \* history: whether the padding of a digest since reset took a
               \* second block, and with it the bytes that wait in the buffer
    calls      \* how many calls were made

md5 == <<state, low, high, buffer>>
vars == <<md5, digest, message, spoilt, calls>>

Bytes(from, n) == [k \in 1 .. n |-> from + k]

\* What is no byte of the message is negative.
Padding(n) == [k \in 1 .. n |-> IF k = 1 THEN -1 ELSE -2]
Unset == -3
Encoded(c) == <<-4 - c.low, -4 - Word - c.high>>

Init ==
    /\ state = << >> /\ low = 0 /\ high = 0
    /\ buffer = [k \in 1 .. BlockLen |-> Unset]
    /\ digest = << >>
    /\ message = 0 /\ spoilt = FALSE /\ calls = 0

\* Where in the buffer the next byte goes.
Index(count) == (count \div ByteBits) % BlockLen

\* Slip: the carry into the high word is forgotten.
CountNoCarry(c, n) ==
    [low |-> (c.low + n * ByteBits) % Word,
     high |-> (c.high + (n * ByteBits) \div Word) % Word]

\* _count after n more bytes.  The carry is seen from the low word having
\* become smaller than what was added to it.
Count(c, n) ==
    LET added == (n * ByteBits) % Word
        sum == (c.low + added) % Word
    IN  [low |-> sum,
         high |-> (c.high + (IF sum < added THEN 1 ELSE 0) + (n * ByteBits) \div Word) % Word]

\* memcpy(&_buffer[at], bytes, n)
Copied(buf, at, bytes) ==
    [k \in 1 .. BlockLen |->
        IF at < k /\ k <= at + Len(bytes) THEN bytes[k - at] ELSE buf[k]]

Fills(n, partLen) == n >= partLen

\* update(const byte*, size_t), of an object c.
Updated(c, input) ==
    LET index == Index(c.low)
        partLen == BlockLen - index
        n == Len(input)
        i == IF Fills(n, partLen)
             THEN partLen + BlockLen * ((n - partLen) \div BlockLen) ELSE 0
        first == Copied(c.buffer, index, SubSeq(input, 1, partLen))
        rest == SubSeq(input, i + 1, n)
    IN  [state |-> IF i = 0 THEN c.state
                   ELSE c.state \o first \o SubSeq(input, partLen + 1, i),
         buffer |-> IF i = 0 THEN Copied(c.buffer, index, rest)
                             ELSE Copied(first, 0, rest),
         low |-> Count(c, n).low, high |-> Count(c, n).high]

Object == [state |-> state, buffer |-> buffer, low |-> low, high |-> high]

\* A piece: a buffer, a string, or what one read of a file brought.
Update(n) ==
    LET new == Updated(Object, Bytes(message, n)) IN
    /\ state' = new.state /\ buffer' = new.buffer
    /\ low' = new.low /\ high' = new.high
    /\ message' = message + n
    /\ UNCHANGED <<digest, spoilt>>

PadLen(index) == IF index < PadTo THEN PadTo - index ELSE BlockLen + PadTo - index

\* final: what it leaves in _digest, and the object with padding and length in.
Final ==
    Updated(Updated(Object, Padding(PadLen(Index(low)))), Encoded(Object))

\* digest.  State and count are restored, the buffer is not.  _finished, which
\* should stop a second computation, is set back by the calls of update in
\* final: between calls of the class it is always false.
Digest ==
    /\ digest' = Final.state /\ buffer' = Final.buffer
    /\ spoilt' = (spoilt \/ Index(low) >= PadTo)
    /\ UNCHANGED <<state, low, high, message>>

Reset ==
    /\ state' = << >>
    /\ low' = 0 /\ high' = 0
    /\ message' = 0 /\ spoilt' = FALSE
    /\ UNCHANGED <<buffer, digest>>

Call == calls < MaxPieces /\ calls' = calls + 1

Next ==
    \/ \E n \in 0 .. MaxPiece : Call /\ Update(n)
    \/ Call /\ Digest
    \/ Call /\ Reset

Spec == Init /\ [][Next]_vars

-----------------------------------------------------------------------------

\* RFC 1321, of which the class is an implementation: the message, a one bit,
\* zeros up to a full block less the length, and the length in bits.
Padded(n) ==
    LET zeros == CHOOSE z \in 0 .. BlockLen - 1 : (n + 1 + z + LengthLen) % BlockLen = 0
        bits == n * ByteBits
    IN  Bytes(0, n) \o Padding(1 + zeros)
        \o Encoded([low |-> bits % Word, high |-> (bits \div Word) % Word])

\* However the message is cut into pieces, and wherever digests were taken in
\* between, what was compressed and what waits in the buffer are the message:
\* nothing is lost or repeated at a boundary.  The exception is a digest whose
\* padding took a second block.
NothingLost ==
    ~spoilt => state \o SubSeq(buffer, 1, Index(low)) = Bytes(0, message)

\* A digest is that of the padded message, for every length on both sides of a
\* block boundary and of an overflow of _count[0], also after the object was
\* reset in any state, and when digest is called again.
DigestIsRight ==
    [][Digest /\ ~spoilt => digest' = Padded(message)]_vars
================================================================================
