------------------------------ MODULE DeviceProofs ------------------------------
(***************************************************************************)
(* What Device promises of the table of partitions, of MD5 and of the      *)
(* texts, for any number of partitions, any sizes of block and word, any   *)
(* number of calls, any characters and any length.  The boot message has a *)
(* module of its own, MiscProofs.                                          *)
(***************************************************************************)
EXTENDS Device, SequenceTheorems, WellFoundedInduction, TLAPS

vars == <<part, misc, scan, hash, texts>>

\* A set of natural numbers that is not empty has a least element.
LEMMA LeastOf ==
  ASSUME NEW T \in SUBSET Nat, T # {}
  PROVE  \E x \in T : \A y \in T : x <= y
  <1>1. PICK x \in T : \A y \in T : ~ (<<y, x>> \in OpToRel(<, Nat))
    BY NatLessThanWellFounded, WFMin
  <1>2. \A y \in T : ~(y < x)
    BY <1>1 DEF OpToRel
  <1> QED
    BY <1>2

-----------------------------------------------------------------------------
(* The table of partitions *)

\* A scan leaves nothing of the last one: the table is what the last scan saw.
ScanInv ==
    part = "scan" => seen = table /\ DOMAIN table = 0 .. Slots - 1

LEMMA ScanInit == Init => ScanInv
  BY DEF Init, ScanInv, Scan!Init, Scan!Cleared

LEMMA ScanNext ==
  ASSUME ScanInv, [Next]_vars
  PROVE  ScanInv'
  <1>1. CASE UNCHANGED vars
    BY <1>1 DEF vars, scan, ScanInv
  <1>2. CASE NextMisc \/ NextHash \/ NextText
    BY <1>2 DEF NextMisc, NextHash, NextText, scan, ScanInv
  <1>3. CASE NextScan
    <2>1. seen = table /\ DOMAIN table = 0 .. Slots - 1 /\ Scan!Next
      BY <1>3 DEF NextScan, ScanInv
    <2>2. CASE Scan!Change
      BY <2>1, <2>2 DEF Scan!Change, ScanInv
    <2>3. CASE Scan!Scan
      BY <2>1, <2>3 DEF Scan!Scan, Scan!StartFrom, Scan!Cleared, ScanInv
    <2>4. CASE Scan!ScanFails
      BY <2>1, <2>4 DEF Scan!ScanFails, Scan!StartFrom, Scan!Cleared, ScanInv
    <2> QED
      BY <2>1, <2>2, <2>3, <2>4 DEF Scan!Next
  <1> QED
    BY <1>1, <1>2, <1>3 DEF Next

\* For any number of slots and of lines that fit, mtd_find_partition_by_name
\* finds what the last scan saw under the name, and nothing else.
THEOREM FoundSeen == Spec => []FoundIsSeen
  <1>1. ASSUME ScanInv, part = "scan" PROVE Scan!FoundIsSeen
    <2> SUFFICES ASSUME NEW n \in Names
                 PROVE  IF \E i \in 0 .. Slots - 1 : seen[i] = n THEN seen[Scan!Find(n)] = n
                        ELSE Scan!Find(n) = None
      BY DEF Scan!FoundIsSeen
    <2>1. Scan!Matches(n) = {i \in 0 .. Slots - 1 : seen[i] = n}
      BY <1>1 DEF ScanInv, Scan!Matches
    <2>2. CASE Scan!Matches(n) = {}
      BY <2>1, <2>2 DEF Scan!Find
    <2>3. CASE Scan!Matches(n) # {}
      <3>1. Scan!Matches(n) \in SUBSET Nat
        BY <2>1, DeviceAssumption DEF Scan!ScanAssumption
      <3>2. \E i \in Scan!Matches(n) : \A j \in Scan!Matches(n) : i <= j
        BY <2>3, <3>1, LeastOf
      <3>3. Scan!Find(n) \in Scan!Matches(n)
        BY <2>3, <3>2 DEF Scan!Find
      <3> QED
        BY <2>1, <2>3, <3>3
    <2> QED
      BY <2>2, <2>3
  <1>2. ScanInv => FoundIsSeen
    BY <1>1 DEF FoundIsSeen
  <1> QED
    BY ScanInit, ScanNext, <1>2, PTL DEF Spec, vars

-----------------------------------------------------------------------------
(* Sequences of bytes *)

\* A piece written over an array.
LEMMA Spliced ==
  ASSUME NEW at \in Nat, NEW b \in Seq(Int), NEW cp \in Seq(Int), NEW buf \in Seq(Int),
         at + Len(b) <= Len(buf), Len(cp) = Len(buf),
         \A k \in 1 .. Len(buf) : cp[k] = IF at < k /\ k <= at + Len(b) THEN b[k - at] ELSE buf[k]
  PROVE  SubSeq(cp, 1, at + Len(b)) = SubSeq(buf, 1, at) \o b
  <1> DEFINE n == Len(b)
             L == Len(buf)
             s == SubSeq(cp, 1, at + n)
             a == SubSeq(buf, 1, at)
             t == a \o b
  <1>1. n \in Nat /\ at + n \in Nat /\ at + n <= L /\ at <= L /\ L \in Nat /\ Len(cp) = L
    BY LenProperties
  <1>2. \A k \in 1 .. L : cp[k] = IF at < k /\ k <= at + n THEN b[k - at] ELSE buf[k]
    OBVIOUS
  <1> HIDE DEF n
  <1>4. s \in Seq(Int) /\ Len(s) = at + n /\ \A i \in 1 .. at + n : s[i] = cp[i]
    <2>1. at + n <= Len(cp)
      BY <1>1
    <2>2. CASE at + n = 0
      <3>1. s = << >>
        BY <2>2
      <3> QED
        BY <2>2, <3>1
    <2>3. CASE at + n > 0
      BY <1>1, <2>1, <2>3, SubSeqProperties
    <2> QED
      BY <1>1, <2>2, <2>3
  <1>5. a \in Seq(Int) /\ Len(a) = at /\ \A i \in 1 .. at : a[i] = buf[i]
    BY <1>1, SMTT(60)
  <1> HIDE DEF s, a
  <1>6. t \in Seq(Int) /\ Len(t) = at + n
    BY <1>5, ConcatProperties, ZenonT(60) DEF n
  <1>7. \A i \in 1 .. at + n : t[i] = IF i <= at THEN a[i] ELSE b[i - at]
    BY <1>5, ConcatProperties DEF n
  <1> HIDE DEF t, L
  <1>8. \A i \in 1 .. at + n : s[i] = t[i]
    <2> SUFFICES ASSUME NEW i \in 1 .. at + n PROVE s[i] = t[i]
      OBVIOUS
    <2>1. i \in Nat /\ i \in 1 .. L
      BY <1>1
    <2>2. s[i] = cp[i]
      BY <1>4
    <2>3. CASE i <= at
      <3>1. cp[i] = buf[i]
        BY <1>1, <1>2, <2>1, <2>3, SMTT(60)
      <3>2. t[i] = a[i]
        BY <1>7, <2>3
      <3>3. a[i] = buf[i]
        BY <1>5, <2>1, <2>3
      <3> QED
        BY <2>2, <3>1, <3>2, <3>3
    <2>4. CASE ~(i <= at)
      <3>1. cp[i] = b[i - at]
        BY <1>1, <1>2, <2>1, <2>4
      <3>2. t[i] = b[i - at]
        BY <1>7, <2>4
      <3> QED
        BY <2>2, <3>1, <3>2
    <2> QED
      BY <2>3, <2>4
  <1>9. s = t
    BY <1>4, <1>6, <1>8, SeqEqual, SMTT(60)
  <1> QED
    BY <1>9 DEF s, t, a, n

\* A sequence in three parts.
LEMMA ThreeParts ==
  ASSUME NEW x \in Seq(Int), NEW p \in Nat, NEW i \in Nat, p <= i, i <= Len(x), p > 0
  PROVE  /\ SubSeq(x, 1, p) \in Seq(Int) /\ Len(SubSeq(x, 1, p)) = p
         /\ SubSeq(x, p + 1, i) \in Seq(Int)
         /\ SubSeq(x, i + 1, Len(x)) \in Seq(Int) /\ Len(SubSeq(x, i + 1, Len(x))) = Len(x) - i
         /\ (SubSeq(x, 1, p) \o SubSeq(x, p + 1, i)) \o SubSeq(x, i + 1, Len(x)) = x
  <1>1. SubSeq(x, 1, p) \in Seq(Int) /\ Len(SubSeq(x, 1, p)) = p
    OBVIOUS
  <1>2. SubSeq(x, p + 1, i) \in Seq(Int)
    OBVIOUS
  <1>3. SubSeq(x, i + 1, Len(x)) \in Seq(Int) /\ Len(SubSeq(x, i + 1, Len(x))) = Len(x) - i
    OBVIOUS
  <1>4. SubSeq(x, 1, p) \o SubSeq(x, p + 1, i) = SubSeq(x, 1, i)
    <2>1. 1 \in 1 .. Len(x) + 1 /\ p \in 1 - 1 .. Len(x) /\ i \in p .. Len(x)
      OBVIOUS
    <2> QED
      BY Zenon, <2>1, ConcatAdjacentSubSeq
  <1>5. SubSeq(x, 1, i) \o SubSeq(x, i + 1, Len(x)) = SubSeq(x, 1, Len(x))
    <2>1. 1 \in 1 .. Len(x) + 1 /\ i \in 1 - 1 .. Len(x) /\ Len(x) \in i .. Len(x)
      OBVIOUS
    <2> QED
      BY Zenon, <2>1, ConcatAdjacentSubSeq
  <1>6. SubSeq(x, 1, Len(x)) = x
    BY SubSeqFull
  <1> QED
    BY <1>1, <1>2, <1>3, <1>4, <1>5, <1>6

IsBytes(x) == x \in Seq(Int)
Join(a, b) == a \o b

LEMMA BytesJoin ==
  ASSUME NEW a, IsBytes(a), NEW b, IsBytes(b)
  PROVE  IsBytes(Join(a, b))
  BY ConcatProperties DEF IsBytes, Join

LEMMA BytesAssociate ==
  ASSUME NEW a, IsBytes(a), NEW b, IsBytes(b), NEW c, IsBytes(c)
  PROVE  Join(Join(a, b), c) = Join(a, Join(b, c))
  BY ConcatAssociative DEF IsBytes, Join

\* The parts in another bracketing.
LEMMA Regrouped ==
  ASSUME NEW s, IsBytes(s), NEW h, IsBytes(h), NEW f, IsBytes(f), NEW m, IsBytes(m),
         NEW r, IsBytes(r)
  PROVE  Join(Join(Join(s, Join(h, f)), m), r) = Join(Join(s, h), Join(Join(f, m), r))
  <1>1. IsBytes(Join(s, h)) /\ IsBytes(Join(f, m))
    BY BytesJoin
  <1>2. Join(Join(s, h), f) = Join(s, Join(h, f))
    BY BytesAssociate
  <1>3. Join(Join(Join(s, h), f), m) = Join(Join(s, h), Join(f, m))
    BY <1>1, BytesAssociate
  <1>4. Join(Join(Join(s, h), Join(f, m)), r) = Join(Join(s, h), Join(Join(f, m), r))
    BY <1>1, BytesAssociate
  <1> QED
    BY <1>2, <1>3, <1>4

-----------------------------------------------------------------------------
(* MD5 *)

\* The range of a quotient and of a remainder.
LEMMA Ranges ==
  ASSUME NEW a \in Nat, NEW b \in Nat, b > 0
  PROVE  a \div b \in Nat /\ a % b \in Nat /\ a % b < b
  BY SMT

\* A quotient and a remainder.
LEMMA Division ==
  ASSUME NEW a \in Nat, NEW b \in Nat, b > 0
  PROVE  a = b * (a \div b) + (a % b)
  BY SMT

LEMMA OnlyDivision ==
  ASSUME NEW b \in Nat, NEW q \in Nat, NEW r \in Nat, r < b
  PROVE  (b * q + r) \div b = q /\ (b * q + r) % b = r
  BY SMT

\* The sizes of the class.
LEMMA HashFacts ==
  /\ BlockLen \in Nat /\ BlockLen > 2 /\ ByteBits \in Nat /\ ByteBits > 0
  /\ Word \in Nat /\ Word > 0 /\ Hash!PadTo = BlockLen - 2
  BY DeviceAssumption DEF Hash!Md5Assumption, Hash!LengthLen, Hash!PadTo

\* What a buffer of the class is.
IsBuffer(buf) == buf \in Seq(Int) /\ Len(buf) = BlockLen

\* memcpy into the buffer.
LEMMA CopiedInto ==
  ASSUME NEW buf, IsBuffer(buf), NEW at \in Nat, NEW bytes \in Seq(Int),
         at + Len(bytes) <= BlockLen
  PROVE  /\ IsBuffer(Hash!Copied(buf, at, bytes))
         /\ SubSeq(Hash!Copied(buf, at, bytes), 1, at + Len(bytes)) = SubSeq(buf, 1, at) \o bytes
         /\ \A k \in 1 .. at : Hash!Copied(buf, at, bytes)[k] = buf[k]
  <1> DEFINE cp == Hash!Copied(buf, at, bytes)
  <1>1. /\ Len(bytes) \in Nat /\ (\A k \in 1 .. Len(bytes) : bytes[k] \in Int)
        /\ BlockLen \in Nat /\ buf \in Seq(Int) /\ Len(buf) = BlockLen
    BY HashFacts DEF IsBuffer
  <1>2. \A k \in 1 .. BlockLen :
          cp[k] = IF at < k /\ k <= at + Len(bytes) THEN bytes[k - at] ELSE buf[k]
    BY DEF Hash!Copied
  <1>3. cp \in Seq(Int) /\ Len(cp) = BlockLen
    <2>1. \A k \in 1 .. BlockLen :
            (IF at < k /\ k <= at + Len(bytes) THEN bytes[k - at] ELSE buf[k]) \in Int
      BY <1>1
    <2> QED
      BY <1>1, <2>1 DEF Hash!Copied
  <1>4. at + Len(bytes) <= Len(buf) /\ Len(cp) = Len(buf) /\ buf \in Seq(Int)
    BY <1>1, <1>3
  <1>5. \A k \in 1 .. Len(buf) :
          cp[k] = IF at < k /\ k <= at + Len(bytes) THEN bytes[k - at] ELSE buf[k]
    BY <1>1, <1>2
  <1> HIDE DEF cp
  <1>6. SubSeq(cp, 1, at + Len(bytes)) = SubSeq(buf, 1, at) \o bytes
    BY ONLY <1>3, <1>4, <1>5, at \in Nat, bytes \in Seq(Int), Spliced
  <1>7. \A k \in 1 .. at : cp[k] = buf[k]
    BY <1>1, <1>2
  <1> QED
    BY <1>3, <1>6, <1>7 DEF cp, IsBuffer

\* An object of the class, and what it has taken in: what was compressed and
\* what waits in the buffer.
Whole(c) == c.state \in Seq(Int) /\ IsBuffer(c.buffer) /\ c.low \in Nat
Taken(c) == c.state \o SubSeq(c.buffer, 1, Hash!Index(c.low))

LEMMA IndexRange ==
  ASSUME NEW l \in Nat
  PROVE  Hash!Index(l) \in Nat /\ Hash!Index(l) < BlockLen
  <1>1. l \div ByteBits \in Nat
    BY HashFacts, Ranges
  <1> QED
    BY <1>1, HashFacts, Ranges DEF Hash!Index

\* A piece that does not fill the buffer waits in it.
LEMMA UpdateWaits ==
  ASSUME NEW c, Whole(c), NEW input \in Seq(Int), Hash!Index(c.low) + Len(input) < BlockLen
  PROVE  LET r == Hash!Updated(c, input)
             index == Hash!Index(c.low)
         IN  /\ r.state = c.state /\ IsBuffer(r.buffer)
             /\ SubSeq(r.buffer, 1, index + Len(input)) = SubSeq(c.buffer, 1, index) \o input
             /\ \A k \in 1 .. index : r.buffer[k] = c.buffer[k]
  <1> DEFINE r == Hash!Updated(c, input)
             index == Hash!Index(c.low)
             n == Len(input)
  <1>1. index \in Nat /\ n \in Nat /\ index + n < BlockLen /\ BlockLen \in Nat
    BY IndexRange, HashFacts, SMTT(60) DEF Whole
  <1>2. SubSeq(input, 0 + 1, n) = input
    BY SubSeqFull
  <1>3. ~Hash!Fills(n, BlockLen - index)
    BY <1>1 DEF Hash!Fills
  <1> DEFINE new == Hash!Copied(c.buffer, index, input)
  <1>4. r.state = c.state /\ r.buffer = new
    <2> HIDE DEF index
    <2>1. (IF Hash!Fills(n, BlockLen - index)
           THEN BlockLen - index + BlockLen * ((n - (BlockLen - index)) \div BlockLen) ELSE 0) = 0
      BY <1>3
    <2> QED
      BY <1>2, <2>1 DEF Hash!Updated, index
  <1> HIDE DEF r, index
  <1>5. IsBuffer(c.buffer) /\ index + Len(input) <= BlockLen
    BY <1>1 DEF Whole
  <1>6. /\ IsBuffer(new)
        /\ SubSeq(new, 1, index + Len(input)) = SubSeq(c.buffer, 1, index) \o input
        /\ \A k \in 1 .. index : new[k] = c.buffer[k]
    BY ONLY <1>1, <1>5, input \in Seq(Int), CopiedInto
  <1> HIDE DEF new
  <1> QED
    BY <1>4, <1>6 DEF index, r

\* Where the rest of a piece that fills the buffer starts.
LEMMA RestOf ==
  ASSUME NEW index \in Nat, NEW n \in Nat, index < BlockLen, index + n >= BlockLen
  PROVE  LET partLen == BlockLen - index
             i == partLen + BlockLen * ((n - partLen) \div BlockLen)
         IN  /\ partLen \in Nat /\ partLen > 0 /\ i \in Nat /\ partLen <= i /\ i <= n
             /\ n - i \in Nat /\ n - i < BlockLen /\ (index + n) % BlockLen = n - i
             /\ n = partLen => i = n
  <1> DEFINE partLen == BlockLen - index
             d == n - partLen
             m == d \div BlockLen
             e == d % BlockLen
             i == partLen + BlockLen * m
  <1>1. BlockLen \in Nat /\ BlockLen > 0 /\ partLen \in Nat /\ partLen > 0 /\ d \in Nat
    BY HashFacts
  <1> HIDE DEF d
  <1>2. m \in Nat /\ e \in Nat /\ e < BlockLen
    BY <1>1, Ranges
  <1>3. d = BlockLen * m + e
    BY <1>1, Division
  <1> HIDE DEF m, e
  <1>4. BlockLen * m \in Nat
    BY <1>1, <1>2
  <1>5. n - i = e
    BY <1>1, <1>2, <1>3, <1>4 DEF d
  <1>6. i \in Nat /\ partLen <= i /\ i <= n
    BY <1>1, <1>2, <1>3, <1>4, <1>5
  <1>7. (index + n) % BlockLen = e
    <2>1. index + n = BlockLen * (m + 1) + e
      <3>1. BlockLen * (m + 1) = BlockLen * m + BlockLen
        BY <1>1, <1>2
      <3> QED
        BY <1>1, <1>2, <1>3, <1>4, <3>1 DEF d
    <2>2. m + 1 \in Nat
      BY <1>2
    <2>3. (BlockLen * (m + 1) + e) % BlockLen = e
      BY ONLY <1>1, <1>2, <2>2, OnlyDivision
    <2> QED
      BY ONLY <2>1, <2>3
  <1>8. ASSUME n = partLen PROVE i = n
    <2>1. d = 0
      BY <1>1, <1>8 DEF d
    <2>2. BlockLen * m = 0
      BY <1>2, <1>3, <1>4, <2>1
    <2> QED
      BY <1>1, <1>8, <2>2
  <1> QED
    BY <1>1, <1>2, <1>5, <1>6, <1>7, <1>8 DEF m, d

\* A piece that fills the buffer: the block it fills, the blocks in its middle
\* and what is left of it, which waits.
LEMMA UpdateFills ==
  ASSUME NEW c, Whole(c), NEW input \in Seq(Int), Hash!Index(c.low) + Len(input) >= BlockLen
  PROVE  LET r == Hash!Updated(c, input)
             index == Hash!Index(c.low)
         IN  /\ r.state \in Seq(Int) /\ IsBuffer(r.buffer)
             /\ r.state \o SubSeq(r.buffer, 1, (index + Len(input)) % BlockLen)
                  = Taken(c) \o input
             /\ index + Len(input) = BlockLen =>
                  \A k \in 1 .. index : r.buffer[k] = c.buffer[k]
  <1> DEFINE r == Hash!Updated(c, input)
             index == Hash!Index(c.low)
             n == Len(input)
             partLen == BlockLen - index
             i == partLen + BlockLen * ((n - partLen) \div BlockLen)
             held == SubSeq(c.buffer, 1, index)
             front == SubSeq(input, 1, partLen)
             mid == SubSeq(input, partLen + 1, i)
             rest == SubSeq(input, i + 1, n)
             first == Hash!Copied(c.buffer, index, front)
             last == Hash!Copied(first, 0, rest)
  <1>1. index \in Nat /\ index < BlockLen /\ n \in Nat /\ BlockLen \in Nat /\ index + n >= BlockLen
    BY IndexRange, HashFacts, SMTT(60) DEF Whole
  <1> HIDE DEF index
  <1>2. /\ partLen \in Nat /\ partLen > 0 /\ i \in Nat /\ partLen <= i /\ i <= n
        /\ n - i \in Nat /\ n - i < BlockLen /\ (index + n) % BlockLen = n - i
        /\ n = partLen => i = n
    BY <1>1, RestOf
  <1>3. r.state = (c.state \o first) \o mid /\ r.buffer = last
    <2>1. Hash!Fills(n, partLen)
      BY <1>1, <1>2 DEF Hash!Fills
    <2>2. i # 0
      BY <1>2
    <2> HIDE DEF first
    <2> QED
      BY <2>1, <2>2 DEF Hash!Updated, index, first
  <1> HIDE DEF r, i, partLen
  <1>4. /\ front \in Seq(Int) /\ Len(front) = partLen
        /\ mid \in Seq(Int) /\ rest \in Seq(Int) /\ Len(rest) = n - i
        /\ (front \o mid) \o rest = input
    BY ONLY <1>2, input \in Seq(Int), ThreeParts
  <1> HIDE DEF front, mid, rest
  <1>5. index + Len(front) = BlockLen /\ IsBuffer(c.buffer) /\ c.state \in Seq(Int)
    BY <1>1, <1>4 DEF Whole, partLen
  <1>6. /\ IsBuffer(first) /\ SubSeq(first, 1, index + Len(front)) = held \o front
        /\ \A k \in 1 .. index : first[k] = c.buffer[k]
    <2>1. index + Len(front) <= BlockLen
      BY <1>1, <1>5
    <2> QED
      BY ONLY <1>1, <1>4, <1>5, <2>1, CopiedInto
  <1> HIDE DEF first
  <1>7. first = held \o front
    BY <1>5, <1>6, SubSeqFull DEF IsBuffer
  <1>8. IsBuffer(last) /\ SubSeq(last, 1, n - i) = rest
    <2>1. 0 \in Nat /\ 0 + Len(rest) <= BlockLen /\ 0 + Len(rest) = n - i
      BY <1>1, <1>2, <1>4
    <2>2. IsBuffer(last) /\ SubSeq(last, 1, 0 + Len(rest)) = SubSeq(first, 1, 0) \o rest
      BY ONLY <1>1, <1>4, <1>6, <2>1, CopiedInto
    <2>3. SubSeq(first, 1, 0) \o rest = rest
      BY <1>4
    <2> QED
      BY <2>1, <2>2, <2>3
  <1>9. held \in Seq(Int)
    BY <1>1, <1>5 DEF IsBuffer
  <1> HIDE DEF held
  <1>10. ((c.state \o (held \o front)) \o mid) \o rest = (c.state \o held) \o ((front \o mid) \o rest)
    <2>1. IsBytes(c.state) /\ IsBytes(held) /\ IsBytes(front) /\ IsBytes(mid) /\ IsBytes(rest)
      BY <1>4, <1>5, <1>9 DEF IsBytes
    <2>2. Join(Join(Join(c.state, Join(held, front)), mid), rest)
            = Join(Join(c.state, held), Join(Join(front, mid), rest))
      BY <2>1, Regrouped
    <2> QED
      BY ONLY <2>2 DEF Join
  <1>11. ((c.state \o first) \o mid) \o rest = (c.state \o held) \o input
    BY Zenon, <1>4, <1>7, <1>10
  <1>12. ASSUME index + n = BlockLen, NEW k \in 1 .. index PROVE last[k] = c.buffer[k]
    <2>1. n = partLen
      BY <1>1, <1>12 DEF partLen
    <2>2. Len(rest) = 0 /\ k \in 1 .. BlockLen /\ k \in Nat
      BY <1>1, <1>2, <1>4, <2>1
    <2>3. last[k] = first[k]
      BY <2>2 DEF Hash!Copied
    <2> QED
      BY <1>6, <2>3
  <1>13. (c.state \o first) \o mid \in Seq(Int)
    <2>1. first \in Seq(Int)
      BY <1>6 DEF IsBuffer
    <2> QED
      BY <1>4, <1>5, <2>1, ConcatProperties
  <1> HIDE DEF last
  <1>14. r.state \o SubSeq(r.buffer, 1, (index + n) % BlockLen) = Taken(c) \o input
    BY Zenon, <1>2, <1>3, <1>8, <1>11 DEF Taken, held, index
  <1>15. r.state \in Seq(Int) /\ IsBuffer(r.buffer)
    BY <1>3, <1>8, <1>13
  <1>16. index + n = BlockLen => \A k \in 1 .. index : r.buffer[k] = c.buffer[k]
    BY <1>3, <1>12
  <1> HIDE DEF n
  <1> QED
    BY ONLY <1>14, <1>15, <1>16 DEF index, r, n

\* update takes in its input and nothing else, whatever its length.
LEMMA UpdateTakes ==
  ASSUME NEW c, Whole(c), NEW input \in Seq(Int)
  PROVE  LET r == Hash!Updated(c, input)
             index == Hash!Index(c.low)
         IN  /\ r.state \in Seq(Int) /\ IsBuffer(r.buffer)
             /\ r.state \o SubSeq(r.buffer, 1, (index + Len(input)) % BlockLen)
                  = Taken(c) \o input
             /\ index + Len(input) <= BlockLen =>
                  \A k \in 1 .. index : r.buffer[k] = c.buffer[k]
  <1> DEFINE r == Hash!Updated(c, input)
             index == Hash!Index(c.low)
             n == Len(input)
  <1>1. /\ index \in Nat /\ index < BlockLen /\ n \in Nat /\ BlockLen \in Nat
        /\ IsBytes(c.state) /\ IsBytes(SubSeq(c.buffer, 1, index)) /\ IsBytes(input)
    <2>1. index \in Nat /\ index < BlockLen /\ n \in Nat /\ BlockLen \in Nat
      <3>1. c.low \in Nat
        BY DEF Whole
      <3>2. index \in Nat /\ index < BlockLen
        BY ONLY <3>1, IndexRange
      <3> QED
        BY <3>2, HashFacts
    <2>2. c.buffer \in Seq(Int) /\ Len(c.buffer) = BlockLen /\ c.state \in Seq(Int)
      BY DEF Whole, IsBuffer
    <2> HIDE DEF index
    <2>3. \A k \in 1 .. index : c.buffer[k] \in Int
      BY <2>1, <2>2
    <2>4. SubSeq(c.buffer, 1, index) \in Seq(Int)
      BY <2>1, <2>3, SubSeqProperties
    <2> QED
      BY <2>1, <2>2, <2>4 DEF IsBytes
  <1>2. ASSUME index + n < BlockLen
        PROVE  /\ r.state \in Seq(Int) /\ IsBuffer(r.buffer)
               /\ r.state \o SubSeq(r.buffer, 1, (index + n) % BlockLen) = Taken(c) \o input
               /\ \A k \in 1 .. index : r.buffer[k] = c.buffer[k]
    <2>1. /\ r.state = c.state /\ IsBuffer(r.buffer)
          /\ SubSeq(r.buffer, 1, index + n) = SubSeq(c.buffer, 1, index) \o input
          /\ \A k \in 1 .. index : r.buffer[k] = c.buffer[k]
      BY ONLY <1>2, Whole(c), input \in Seq(Int), UpdateWaits
    <2> HIDE DEF r, index, n
    <2>2. (index + n) % BlockLen = index + n
      BY <1>1, <1>2
    <2>3. Join(Join(c.state, SubSeq(c.buffer, 1, index)), input)
            = Join(c.state, Join(SubSeq(c.buffer, 1, index), input))
      BY <1>1, BytesAssociate
    <2>4. (c.state \o SubSeq(c.buffer, 1, index)) \o input
            = c.state \o (SubSeq(c.buffer, 1, index) \o input)
      BY ONLY <2>3 DEF Join
    <2>5. r.state \o SubSeq(r.buffer, 1, (index + n) % BlockLen) = Taken(c) \o input
      BY Zenon, <2>1, <2>2, <2>4 DEF Taken, index
    <2>6. r.state \in Seq(Int)
      BY <1>1, <2>1 DEF IsBytes
    <2> QED
      BY ONLY <2>1, <2>5, <2>6
  <1>3. ASSUME index + n >= BlockLen
        PROVE  /\ r.state \in Seq(Int) /\ IsBuffer(r.buffer)
               /\ r.state \o SubSeq(r.buffer, 1, (index + n) % BlockLen) = Taken(c) \o input
               /\ index + n = BlockLen => \A k \in 1 .. index : r.buffer[k] = c.buffer[k]
    BY ONLY <1>3, Whole(c), input \in Seq(Int), UpdateFills
  <1> HIDE DEF r, index, n
  <1>4. /\ index + n < BlockLen \/ index + n >= BlockLen
        /\ index + n <= BlockLen => index + n < BlockLen \/ index + n = BlockLen
    BY <1>1
  <1>5. /\ r.state \in Seq(Int) /\ IsBuffer(r.buffer)
        /\ r.state \o SubSeq(r.buffer, 1, (index + n) % BlockLen) = Taken(c) \o input
    BY Zenon, <1>2, <1>3, <1>4
  <1>6. index + n <= BlockLen => \A k \in 1 .. index : r.buffer[k] = c.buffer[k]
    BY Zenon, <1>2, <1>3, <1>4
  <1> QED
    BY ONLY <1>5, <1>6 DEF r, index, n

\* A remainder of a sum.
LEMMA SumRemainder ==
  ASSUME NEW b \in Nat, b > 0, NEW x \in Nat, NEW y \in Nat
  PROVE  ((x % b) + y) % b = (x + y) % b
  <1> DEFINE q == x \div b
             r == x % b
             p == (r + y) \div b
             s == (r + y) % b
  <1>1. q \in Nat /\ r \in Nat /\ x = b * q + r
    BY Ranges, Division
  <1> HIDE DEF q, r
  <1>2. p \in Nat /\ s \in Nat /\ s < b
    BY <1>1, Ranges
  <1>3. r + y = b * p + s
    BY <1>1, Division
  <1> HIDE DEF p, s
  <1>4. b * (q + p) = b * q + b * p /\ b * q \in Nat /\ b * p \in Nat
    BY <1>1, <1>2
  <1>5. x + y = b * (q + p) + s
    BY <1>1, <1>2, <1>3, <1>4
  <1>6. q + p \in Nat
    BY <1>1, <1>2
  <1>7. (b * (q + p) + s) % b = s
    BY ONLY <1>2, <1>6, b \in Nat, b > 0, OnlyDivision
  <1>8. (x + y) % b = s
    BY ONLY <1>5, <1>7
  <1> QED
    BY <1>8 DEF s, r

\* A multiple of b changes no remainder.
LEMMA SameRemainder ==
  ASSUME NEW b \in Nat, b > 0, NEW q \in Nat, NEW x \in Nat
  PROVE  (b * q + x) % b = x % b
  <1> DEFINE d == x \div b
             r == x % b
  <1>1. d \in Nat /\ r \in Nat /\ r < b /\ x = b * d + r
    BY Ranges, Division
  <1> HIDE DEF d, r
  <1>2. b * q + x = b * (q + d) + r
    <2>1. b * (q + d) = b * q + b * d /\ b * q \in Nat /\ b * d \in Nat
      BY <1>1
    <2> QED
      BY <1>1, <2>1
  <1>3. q + d \in Nat
    BY <1>1
  <1>4. (b * (q + d) + r) % b = r
    BY ONLY <1>1, <1>3, b \in Nat, b > 0, OnlyDivision
  <1>5. (b * q + x) % b = r
    BY ONLY <1>2, <1>4
  <1> QED
    BY <1>5 DEF r

\* The carry, seen from the sum of the low words having become smaller than
\* what was added.
Carried(w, t, l, y) ==
    LET a == y % w
        s == (l + a) % w
    IN  /\ s \in Nat /\ s < w
        /\ \E u \in Nat :
              /\ w * t + l + y = w * u + s
              /\ ((t % w) + (IF s < a THEN 1 ELSE 0) + (y \div w)) % w = u % w

LEMMA Carry ==
  ASSUME NEW w \in Nat, w > 0, NEW t \in Nat, NEW l \in Nat, l < w, NEW y \in Nat
  PROVE  Carried(w, t, l, y)
  <1> DEFINE a == y % w
             q == y \div w
             s == (l + a) % w
             k == IF s < a THEN 1 ELSE 0
             u == t + (k + q)
  <1>1. a \in Nat /\ a < w /\ q \in Nat /\ y = w * q + a
    BY Ranges, Division
  <1> HIDE DEF a, q
  <1>2. s \in Nat /\ s < w /\ l + a = w * k + s /\ k \in {0, 1}
    <2>1. CASE l + a < w
      <3>1. s = l + a
        BY <1>1, <2>1
      <3> QED
        BY <1>1, <2>1, <3>1
    <2>2. CASE l + a >= w
      <3>1. l + a - w \in Nat /\ l + a - w < w
        BY <1>1, <2>2
      <3>2. l + a = w * 1 + (l + a - w)
        BY <1>1
      <3>3. (w * 1 + (l + a - w)) % w = l + a - w
        BY ONLY <3>1, w \in Nat, w > 0, 1 \in Nat, OnlyDivision
      <3>4. s = l + a - w
        BY ONLY <3>2, <3>3
      <3>5. s < a
        BY <1>1, <3>4
      <3> QED
        BY <1>1, <3>1, <3>4, <3>5
    <2> QED
      BY <1>1, <2>1, <2>2
  <1> HIDE DEF s, k
  <1>3. u \in Nat /\ k + q \in Nat
    BY <1>1, <1>2
  <1>4. w * t + l + y = w * u + s
    <2>1. w * u = w * t + (w * k + w * q)
      BY <1>1, <1>2
    <2>2. w * t \in Nat /\ w * k \in Nat /\ w * q \in Nat
      BY <1>1, <1>2
    <2> QED
      BY <1>1, <1>2, <2>1, <2>2
  <1>5. ((t % w) + (k + q)) % w = u % w
    BY <1>3, SumRemainder
  <1>6. ((t % w) + k + q) % w = u % w
    <2>1. t % w \in Nat
      BY Ranges
    <2>2. (t % w) + k + q = (t % w) + (k + q)
      BY <1>1, <1>2, <2>1
    <2> QED
      BY ONLY <1>5, <2>2
  <1> QED
    BY <1>2, <1>3, <1>4, <1>6 DEF a, q, s, k, Carried

\* The bits counted, of a message of n bytes: what _count holds.
Counted(n, l, h) ==
    /\ n \in Nat /\ l \in Nat /\ l < Word
    /\ \E t \in Nat : n * ByteBits = Word * t + l /\ h = t % Word

\* A word counts whole blocks, so that the low one alone says where the next
\* byte goes.
LEMMA IndexIs ==
  ASSUME NEW n, NEW l, NEW h, Counted(n, l, h)
  PROVE  Hash!Index(l) = n % BlockLen
  <1>1. /\ BlockLen \in Nat /\ BlockLen > 0 /\ ByteBits \in Nat /\ ByteBits > 0 /\ Word \in Nat
        /\ n \in Nat /\ l \in Nat
    BY HashFacts DEF Counted
  <1> DEFINE b == ByteBits * BlockLen
             w == Word \div b
  <1>2. w \in Nat /\ Word = b * w
    <2>1. Word % b = 0
      BY DeviceAssumption DEF Hash!Md5Assumption
    <2>2. b \in Nat /\ b > 0
      BY <1>1
    <2> HIDE DEF b
    <2>3. w \in Nat /\ Word = b * w + (Word % b)
      BY <1>1, <2>2, Ranges, Division
    <2>4. b * w \in Nat
      BY <2>2, <2>3
    <2> QED
      BY <2>1, <2>3, <2>4
  <1> HIDE DEF w
  <1>3. PICK t \in Nat : n * ByteBits = Word * t + l
    BY DEF Counted
  <1> DEFINE q == n - BlockLen * (w * t)
             k == w * t
  <1>4. k \in Nat
    BY <1>2
  <1>5. Word * t = ByteBits * (BlockLen * k)
    BY <1>1, <1>2
  <1> HIDE DEF k
  <1>6. q = n - BlockLen * k /\ BlockLen * k \in Nat
    BY <1>1, <1>4 DEF k
  <1>7. l = ByteBits * q /\ q \in Int
    <2>1. ByteBits * (n - BlockLen * k) = n * ByteBits - ByteBits * (BlockLen * k)
      BY <1>1, <1>6
    <2> QED
      BY <1>1, <1>3, <1>5, <1>6, <2>1
  <1> HIDE DEF q
  <1>8. q \in Nat
    BY <1>1, <1>7
  <1>9. l \div ByteBits = q
    <2>1. l = ByteBits * q + 0
      BY <1>1, <1>7, <1>8
    <2> QED
      BY <1>1, <1>8, <2>1, OnlyDivision
  <1>10. n % BlockLen = q % BlockLen
    <2>1. n = BlockLen * k + q
      BY <1>1, <1>6, <1>8
    <2> QED
      BY <1>1, <1>4, <1>8, <2>1, SameRemainder, ZenonT(60)
  <1> QED
    BY <1>9, <1>10 DEF Hash!Index

\* _count after more bytes, over an overflow of the low word.
LEMMA CountGrows ==
  ASSUME NEW n, NEW c, Counted(n, c.low, c.high), NEW more \in Nat
  PROVE  Counted(n + more, Hash!Count(c, more).low, Hash!Count(c, more).high)
  <1> DEFINE y == more * ByteBits
             a == y % Word
             s == (c.low + a) % Word
             g == (c.high + (IF s < a THEN 1 ELSE 0) + (y \div Word)) % Word
  <1>1. /\ n \in Nat /\ c.low \in Nat /\ c.low < Word /\ Word \in Nat /\ Word > 0 /\ y \in Nat
        /\ ByteBits \in Nat
    BY HashFacts DEF Counted
  <1>2. Hash!Count(c, more).low = s /\ Hash!Count(c, more).high = g
    BY DEF Hash!Count
  <1>3. PICK t \in Nat : n * ByteBits = Word * t + c.low /\ c.high = t % Word
    BY DEF Counted
  <1>4. (n + more) * ByteBits = n * ByteBits + y /\ n + more \in Nat
    BY <1>1
  <1> HIDE DEF y
  <1>5. /\ s \in Nat /\ s < Word
        /\ \E u \in Nat :
              /\ Word * t + c.low + y = Word * u + s
              /\ ((t % Word) + (IF s < a THEN 1 ELSE 0) + (y \div Word)) % Word = u % Word
    <2>1. Carried(Word, t, c.low, y)
      BY <1>1, Carry
    <2> QED
      BY ONLY <2>1 DEF Carried
  <1> HIDE DEF s, a
  <1>6. PICK u \in Nat :
              /\ Word * t + c.low + y = Word * u + s
              /\ ((t % Word) + (IF s < a THEN 1 ELSE 0) + (y \div Word)) % Word = u % Word
    BY <1>5
  <1>7. (n + more) * ByteBits = Word * u + s
    BY Zenon, <1>3, <1>4, <1>6
  <1>8. g = u % Word
    BY Zenon, <1>3, <1>6
  <1> HIDE DEF g
  <1> QED
    BY ONLY <1>2, <1>4, <1>5, <1>7, <1>8 DEF Counted

\* The padding reaches the place of the length, in this block or the next.
LEMMA PadReaches ==
  ASSUME NEW index \in Nat, index < BlockLen
  PROVE  LET p == Hash!PadLen(index)
         IN  /\ p \in Nat /\ p > 0 /\ p <= BlockLen
             /\ (index + p) % BlockLen = BlockLen - 2
             /\ index < BlockLen - 2 => index + p = BlockLen - 2
  <1> DEFINE p == Hash!PadLen(index)
  <1>1. BlockLen \in Nat /\ BlockLen > 2 /\ Hash!PadTo = BlockLen - 2
    BY HashFacts
  <1>2. CASE index < BlockLen - 2
    <2>1. p = BlockLen - 2 - index
      BY <1>1, <1>2 DEF Hash!PadLen
    <2> HIDE DEF p
    <2>2. index + p = BlockLen - 2
      BY <1>1, <2>1
    <2>3. (BlockLen - 2) % BlockLen = BlockLen - 2
      BY <1>1
    <2> QED
      BY <1>1, <1>2, <2>1, <2>2, <2>3 DEF p
  <1>3. CASE ~(index < BlockLen - 2)
    <2>1. p = BlockLen + (BlockLen - 2) - index
      BY <1>1, <1>3 DEF Hash!PadLen
    <2> HIDE DEF p
    <2>2. index + p = BlockLen * 1 + (BlockLen - 2)
      BY <1>1, <2>1
    <2>3. (BlockLen * 1 + (BlockLen - 2)) % BlockLen = BlockLen - 2
      <3>1. BlockLen - 2 \in Nat /\ BlockLen - 2 < BlockLen /\ 1 \in Nat /\ BlockLen > 0
        BY <1>1
      <3> QED
        BY ONLY <1>1, <3>1, OnlyDivision
    <2>4. (index + p) % BlockLen = BlockLen - 2
      BY ONLY <2>2, <2>3
    <2> QED
      BY <1>1, <1>3, <2>1, <2>4 DEF p
  <1> QED
    BY <1>2, <1>3

\* The zeros of RFC 1321 are as many as final appends.
LEMMA OneRemainder ==
  ASSUME NEW b \in Nat, b > 0, NEW m \in Nat, NEW y \in Nat, y < b, NEW z \in Nat, z < b,
         (m + y) % b = 0, (m + z) % b = 0
  PROVE  y = z
  <1> DEFINE p == (m + y) \div b
             q == (m + z) \div b
  <1>1. m + y \in Nat /\ m + z \in Nat
    OBVIOUS
  <1>2. m + y = b * p + ((m + y) % b) /\ m + z = b * q + ((m + z) % b)
    BY <1>1, Division
  <1>3. p \in Nat /\ q \in Nat
    BY <1>1, Ranges
  <1> HIDE DEF p, q
  <1>4. b * p \in Nat /\ b * q \in Nat
    BY <1>3
  <1>5. m + y = b * p /\ m + z = b * q
    BY <1>2, <1>4
  <1>6. p = q
    <2>1. CASE p < q
      <3>1. b * q >= b * p + b
        BY <1>3, <2>1
      <3> QED
        BY <1>4, <1>5, <3>1
    <2>2. CASE q < p
      <3>1. b * p >= b * q + b
        BY <1>3, <2>2
      <3> QED
        BY <1>4, <1>5, <3>1
    <2> QED
      BY <1>3, <2>1, <2>2
  <1> QED
    BY <1>5, <1>6

LEMMA ZerosAre ==
  ASSUME NEW n \in Nat
  PROVE  (CHOOSE z \in 0 .. BlockLen - 1 : (n + 1 + z + Hash!LengthLen) % BlockLen = 0)
           = Hash!PadLen(n % BlockLen) - 1
  <1> DEFINE p == Hash!PadLen(n % BlockLen)
             Fits(z) == (n + 1 + z + Hash!LengthLen) % BlockLen = 0
  <1>1. BlockLen \in Nat /\ BlockLen > 2 /\ Hash!LengthLen = 2
    BY HashFacts DEF Hash!LengthLen
  <1>2. n % BlockLen \in Nat /\ n % BlockLen < BlockLen
    BY <1>1, Ranges
  <1>3. p \in Nat /\ p > 0 /\ p <= BlockLen /\ ((n % BlockLen) + p) % BlockLen = BlockLen - 2
    BY ONLY <1>2, PadReaches
  <1> HIDE DEF p
  <1>4. (n + p) % BlockLen = BlockLen - 2
    <2>1. ((n % BlockLen) + p) % BlockLen = (n + p) % BlockLen
      <3>1. BlockLen \in Nat /\ BlockLen > 0 /\ p \in Nat
        BY <1>1, <1>3
      <3> QED
        BY ONLY n \in Nat, <3>1, SumRemainder
    <2> QED
      BY ONLY <1>3, <2>1
  <1>5. (n + p + 2) % BlockLen = 0
    <2>1. (((n + p) % BlockLen) + 2) % BlockLen = (n + p + 2) % BlockLen
      <3>1. n + p \in Nat /\ 2 \in Nat /\ BlockLen > 0
        BY <1>1, <1>3
      <3> QED
        BY ONLY <1>1, <3>1, SumRemainder
    <2>2. ((BlockLen - 2) + 2) % BlockLen = 0
      <3>1. (BlockLen - 2) + 2 = BlockLen
        BY <1>1
      <3>2. BlockLen % BlockLen = 0
        <4>1. BlockLen = BlockLen * 1 + 0
          BY <1>1
        <4> QED
          BY <1>1, <4>1, OnlyDivision
      <3> QED
        BY <3>1, <3>2
    <2> QED
      BY ONLY <1>4, <2>1, <2>2
  <1>6. p - 1 \in 0 .. BlockLen - 1 /\ Fits(p - 1)
    <2>1. n + 1 + (p - 1) + 2 = n + p + 2
      BY <1>3
    <2> QED
      BY <1>1, <1>3, <1>5, <2>1
  <1>7. ASSUME NEW z \in 0 .. BlockLen - 1, Fits(z) PROVE z = p - 1
    <2> DEFINE m == n + 3
    <2>1. m + z = n + 1 + z + 2 /\ m + (p - 1) = n + p + 2
      BY <1>1, <1>3
    <2>2. (m + z) % BlockLen = 0 /\ (m + (p - 1)) % BlockLen = 0
      BY <1>1, <1>5, <1>7, <2>1
    <2>3. m \in Nat /\ z \in Nat /\ z < BlockLen /\ p - 1 \in Nat /\ p - 1 < BlockLen
        /\ BlockLen > 0
      BY <1>1, <1>3
    <2> HIDE DEF m
    <2> QED
      BY ONLY <1>1, <2>2, <2>3, OneRemainder
  <1> HIDE DEF Fits
  <1>8. (CHOOSE z \in 0 .. BlockLen - 1 : Fits(z)) = p - 1
    BY <1>6, <1>7
  <1> QED
    BY <1>8 DEF Fits, p

\* What final appends is made of numbers.
LEMMA AppendedAreBytes ==
  ASSUME NEW n \in Nat, NEW c, c.low \in Int, c.high \in Int
  PROVE  /\ Hash!Padding(n) \in Seq(Int) /\ Len(Hash!Padding(n)) = n
         /\ Hash!Encoded(c) \in Seq(Int) /\ Len(Hash!Encoded(c)) = 2
  <1>1. \A k \in 1 .. n : (IF k = 1 THEN -1 ELSE -2) \in Int
    OBVIOUS
  <1>2. Hash!Padding(n) \in Seq(Int) /\ Len(Hash!Padding(n)) = n
    BY <1>1 DEF Hash!Padding
  <1>3. -4 - c.low \in Int /\ -4 - Word - c.high \in Int
    BY HashFacts
  <1>4. Hash!Encoded(c) \in Seq(Int) /\ Len(Hash!Encoded(c)) = 2
    BY <1>3 DEF Hash!Encoded
  <1> QED
    BY <1>2, <1>4

LEMMA BytesAre ==
  ASSUME NEW m \in Nat, NEW n \in Nat
  PROVE  /\ Hash!Bytes(m, n) \in Seq(Int) /\ Len(Hash!Bytes(m, n)) = n
         /\ Hash!Bytes(0, m) \o Hash!Bytes(m, n) = Hash!Bytes(0, m + n)
  <1> DEFINE a == Hash!Bytes(0, m)
             b == Hash!Bytes(m, n)
             c == Hash!Bytes(0, m + n)
             ab == a \o b
  <1>1. a \in Seq(Int) /\ Len(a) = m /\ \A k \in 1 .. m : a[k] = k
    BY DEF Hash!Bytes
  <1>2. b \in Seq(Int) /\ Len(b) = n /\ \A k \in 1 .. n : b[k] = m + k
    BY DEF Hash!Bytes
  <1>3. c \in Seq(Int) /\ Len(c) = m + n /\ \A k \in 1 .. m + n : c[k] = k
    BY DEF Hash!Bytes
  <1> HIDE DEF a, b, c
  <1>4. ab \in Seq(Int) /\ Len(ab) = m + n
    BY <1>1, <1>2, ConcatProperties
  <1>5. \A k \in 1 .. m + n : ab[k] = IF k <= m THEN a[k] ELSE b[k - m]
    BY <1>1, <1>2, ConcatProperties, ZenonT(60)
  <1> HIDE DEF ab
  <1>6. \A k \in 1 .. m + n : ab[k] = c[k]
    <2> SUFFICES ASSUME NEW k \in 1 .. m + n PROVE ab[k] = k
      BY <1>3
    <2>1. CASE k <= m
      BY <1>1, <1>5, <2>1
    <2>2. CASE ~(k <= m)
      <3>1. k - m \in 1 .. n
        BY <2>2
      <3> QED
        BY <1>2, <1>5, <2>2, <3>1
    <2> QED
      BY <2>1, <2>2
  <1>7. ab = c
    BY <1>3, <1>4, <1>6, SeqEqual
  <1> QED
    BY <1>2, <1>7 DEF a, b, c, ab

\* final, of an object that has taken in what Counted says: what is compressed
\* is what it had taken in, the padding and the length; and if the padding
\* finds room in the block, what waits in the buffer stays there.
LEMMA FinalIs ==
  ASSUME NEW c, Whole(c), NEW n, Counted(n, c.low, c.high), c.high \in Nat
  PROVE  LET index == Hash!Index(c.low)
             p == Hash!PadLen(index)
             r == Hash!Updated(Hash!Updated(c, Hash!Padding(p)), Hash!Encoded(c))
         IN  /\ IsBuffer(r.buffer)
             /\ r.state = (Taken(c) \o Hash!Padding(p)) \o Hash!Encoded(c)
             /\ index < BlockLen - 2 => \A k \in 1 .. index : r.buffer[k] = c.buffer[k]
  <1> DEFINE index == Hash!Index(c.low)
             p == Hash!PadLen(index)
             pad == Hash!Padding(p)
             enc == Hash!Encoded(c)
             d == Hash!Updated(c, pad)
             r == Hash!Updated(d, enc)
             at == Hash!Index(d.low)
  <1>1. BlockLen \in Nat /\ BlockLen > 2 /\ n \in Nat /\ c.low \in Nat
    BY HashFacts DEF Counted
  <1>2. index \in Nat /\ index < BlockLen /\ index = n % BlockLen
    BY <1>1, IndexRange, IndexIs
  <1> HIDE DEF index
  <1>3. /\ p \in Nat /\ p > 0 /\ p <= BlockLen /\ (index + p) % BlockLen = BlockLen - 2
        /\ index < BlockLen - 2 => index + p = BlockLen - 2
    BY ONLY <1>2, PadReaches
  <1> HIDE DEF p
  <1>4. pad \in Seq(Int) /\ Len(pad) = p /\ enc \in Seq(Int) /\ Len(enc) = 2
    BY <1>1, <1>3, AppendedAreBytes
  <1> HIDE DEF pad, enc
  <1>5. /\ d.state \in Seq(Int) /\ IsBuffer(d.buffer)
        /\ d.state \o SubSeq(d.buffer, 1, (index + Len(pad)) % BlockLen) = Taken(c) \o pad
        /\ index + Len(pad) <= BlockLen => \A k \in 1 .. index : d.buffer[k] = c.buffer[k]
    BY ONLY <1>4, Whole(c), UpdateTakes DEF index
  <1>6. d.low = Hash!Count(c, Len(pad)).low /\ d.high = Hash!Count(c, Len(pad)).high
    BY DEF Hash!Updated
  <1> HIDE DEF d
  <1>7. Counted(n + p, d.low, d.high)
    BY <1>3, <1>4, <1>6, CountGrows
  <1>8. at = BlockLen - 2
    <2>1. at = (n + p) % BlockLen
      BY ONLY <1>7, IndexIs DEF at
    <2>2. ((n % BlockLen) + p) % BlockLen = (n + p) % BlockLen
      <3>1. BlockLen \in Nat /\ BlockLen > 0 /\ n \in Nat /\ p \in Nat
        BY <1>1, <1>3
      <3> QED
        BY ONLY <3>1, SumRemainder
    <2> QED
      BY Zenon, <1>2, <1>3, <2>1, <2>2
  <1>9. Whole(d)
    BY <1>5, <1>7 DEF Whole, Counted
  <1>10. /\ r.state \in Seq(Int) /\ IsBuffer(r.buffer)
         /\ r.state \o SubSeq(r.buffer, 1, (at + Len(enc)) % BlockLen) = Taken(d) \o enc
         /\ at + Len(enc) <= BlockLen => \A k \in 1 .. at : r.buffer[k] = d.buffer[k]
    BY ONLY <1>4, <1>9, UpdateTakes
  <1> HIDE DEF r, at
  <1>11. at + Len(enc) = BlockLen /\ (at + Len(enc)) % BlockLen = 0
    <2>1. at + Len(enc) = BlockLen
      BY <1>1, <1>4, <1>8
    <2>2. BlockLen = BlockLen * 1 + 0 /\ BlockLen > 0
      BY <1>1
    <2>3. BlockLen % BlockLen = 0
      BY <1>1, <2>2, OnlyDivision
    <2> QED
      BY <2>1, <2>3
  <1>12. r.state \o SubSeq(r.buffer, 1, 0) = r.state
    <2>1. SubSeq(r.buffer, 1, 0) = << >>
      BY SubSeqEmpty
    <2> QED
      BY <1>10, <2>1, ConcatEmptySeq
  <1>13. r.state = Taken(d) \o enc
    BY Zenon, <1>10, <1>11, <1>12
  <1>14. Taken(d) = Taken(c) \o pad
    BY Zenon, <1>3, <1>4, <1>5, <1>8 DEF Taken, at
  <1>15. r.state = (Taken(c) \o pad) \o enc
    BY Zenon, <1>13, <1>14
  <1>16. ASSUME index < BlockLen - 2, NEW k \in 1 .. index PROVE r.buffer[k] = c.buffer[k]
    <2>1. index + Len(pad) <= BlockLen
      BY <1>1, <1>3, <1>4, <1>16
    <2>2. d.buffer[k] = c.buffer[k]
      BY <1>5, <2>1
    <2>3. at + Len(enc) <= BlockLen /\ k \in 1 .. at
      BY <1>1, <1>2, <1>8, <1>11, <1>16
    <2>4. r.buffer[k] = d.buffer[k]
      BY <1>10, <2>3
    <2> QED
      BY <2>2, <2>4
  <1> QED
    BY ONLY <1>10, <1>15, <1>16 DEF r, d, pad, enc, p, index

\* What holds of the object between calls: _count is that of the message, and
\* what was compressed and what waits are the message.
HashInv ==
    part = "hash" =>
      /\ state \in Seq(Int) /\ IsBuffer(buffer) /\ high \in Nat
      /\ Counted(message, low, high)
      /\ Hash!NothingLost

LEMMA HashInit == Init => HashInv
  <1> SUFFICES ASSUME Init PROVE HashInv
    OBVIOUS
  <1>1. /\ state = << >> /\ low = 0 /\ high = 0 /\ message = 0
        /\ buffer = [k \in 1 .. BlockLen |-> Hash!Unset]
    BY DEF Init, Hash!Init
  <1>2. BlockLen \in Nat /\ ByteBits \in Nat /\ Word \in Nat /\ Word > 0 /\ BlockLen > 0
    BY HashFacts
  <1>3. IsBuffer(buffer)
    BY <1>1, <1>2 DEF IsBuffer, Hash!Unset
  <1>4. 0 * ByteBits = Word * 0 + 0 /\ 0 = 0 % Word
    BY <1>2
  <1>5. Counted(message, low, high)
    BY <1>1, <1>2, <1>4 DEF Counted
  <1>6. Hash!NothingLost
    <2>1. Hash!Index(low) = 0
      <3>1. Hash!Index(low) = 0 % BlockLen
        BY <1>1, <1>5, IndexIs
      <3> QED
        BY <1>2, <3>1
    <2>2. SubSeq(buffer, 1, 0) = << >> /\ Hash!Bytes(0, 0) = << >>
      BY DEF Hash!Bytes
    <2>3. << >> \o << >> = << >>
      OBVIOUS
    <2> QED
      BY <1>1, <2>1, <2>2, <2>3 DEF Hash!NothingLost
  <1>7. state \in Seq(Int)
    BY <1>1
  <1> QED
    BY <1>1, <1>3, <1>5, <1>6, <1>7 DEF HashInv

LEMMA HashUpdate ==
  ASSUME HashInv, part = "hash", NEW n \in Nat, Hash!Update(n)
  PROVE  /\ state' \in Seq(Int) /\ IsBuffer(buffer') /\ high' \in Nat
         /\ Counted(message', low', high')
         /\ Hash!NothingLost'
  <1> DEFINE c == Hash!Object
             input == Hash!Bytes(message, n)
             r == Hash!Updated(c, input)
             index == Hash!Index(c.low)
  <1>1. /\ c.state = state /\ c.buffer = buffer /\ c.low = low /\ c.high = high
    BY DEF Hash!Object
  <1>2. /\ state' = r.state /\ buffer' = r.buffer /\ low' = r.low /\ high' = r.high
        /\ message' = message + n /\ spoilt' = spoilt
    BY DEF Hash!Update
  <1> HIDE DEF c
  <1>3. /\ state \in Seq(Int) /\ IsBuffer(buffer) /\ high \in Nat
        /\ Counted(message, low, high) /\ Hash!NothingLost
    BY DEF HashInv
  <1>4. Whole(c) /\ message \in Nat /\ low \in Nat
    BY <1>1, <1>3 DEF Whole, Counted
  <1>5. input \in Seq(Int) /\ Len(input) = n
    BY <1>4, BytesAre
  <1>6. r.low = Hash!Count(c, n).low /\ r.high = Hash!Count(c, n).high
    BY <1>5 DEF Hash!Updated
  <1> HIDE DEF input
  <1>7. /\ r.state \in Seq(Int) /\ IsBuffer(r.buffer)
        /\ r.state \o SubSeq(r.buffer, 1, (index + Len(input)) % BlockLen) = Taken(c) \o input
    BY ONLY <1>4, <1>5, UpdateTakes
  <1> HIDE DEF r
  <1>8. Counted(message, c.low, c.high)
    BY <1>1, <1>3
  <1>9. Counted(message', low', high')
    BY <1>2, <1>6, <1>8, CountGrows
  <1>10. high' \in Nat
    <2>1. PICK t \in Nat : high' = t % Word
      BY <1>9 DEF Counted
    <2> QED
      BY <2>1, HashFacts, Ranges
  <1>11. ASSUME ~spoilt
      PROVE state' \o SubSeq(buffer', 1, Hash!Index(low')) = Hash!Bytes(0, message')
    <2>1. Taken(c) = Hash!Bytes(0, message)
      BY <1>1, <1>3, <1>11 DEF Hash!NothingLost, Taken
    <2>2. Hash!Bytes(0, message) \o input = Hash!Bytes(0, message + n)
      BY <1>4, BytesAre DEF input
    <2>3. Hash!Index(low') = (index + Len(input)) % BlockLen
      <3>1. Hash!Index(low') = (message + n) % BlockLen
        BY ONLY <1>2, <1>9, IndexIs
      <3>2. index = message % BlockLen
        BY ONLY <1>8, IndexIs
      <3>3. BlockLen \in Nat /\ BlockLen > 0
        BY HashFacts
      <3>4. ((message % BlockLen) + n) % BlockLen = (message + n) % BlockLen
        BY ONLY <1>4, <3>3, n \in Nat, SumRemainder
      <3> QED
        BY Zenon, <1>5, <3>1, <3>2, <3>4
    <2> QED
      BY Zenon, <1>2, <1>7, <2>1, <2>2, <2>3
  <1>12. Hash!NothingLost'
    BY <1>2, <1>11 DEF Hash!NothingLost
  <1> QED
    BY <1>2, <1>7, <1>9, <1>10, <1>12

\* What digest computes is the padded message of RFC 1321.
LEMMA HashFinal ==
  ASSUME HashInv, part = "hash"
  PROVE  /\ IsBuffer(Hash!Final.buffer)
         /\ ~spoilt => Hash!Final.state = Hash!Padded(message)
         /\ Hash!Index(low) < Hash!PadTo =>
              \A k \in 1 .. Hash!Index(low) : Hash!Final.buffer[k] = buffer[k]
  <1> DEFINE c == Hash!Object
             index == Hash!Index(c.low)
             p == Hash!PadLen(index)
             r == Hash!Updated(Hash!Updated(c, Hash!Padding(p)), Hash!Encoded(c))
  <1>1. /\ c.state = state /\ c.buffer = buffer /\ c.low = low /\ c.high = high
    BY DEF Hash!Object
  <1>2. r = Hash!Final
    BY <1>1 DEF Hash!Final
  <1> HIDE DEF c
  <1>3. /\ state \in Seq(Int) /\ IsBuffer(buffer) /\ high \in Nat
        /\ Counted(message, low, high) /\ Hash!NothingLost
    BY DEF HashInv
  <1>4. Whole(c) /\ message \in Nat /\ low \in Nat /\ c.high \in Nat
      /\ Counted(message, c.low, c.high)
    BY <1>1, <1>3 DEF Whole, Counted
  <1>5. /\ IsBuffer(r.buffer)
        /\ r.state = (Taken(c) \o Hash!Padding(p)) \o Hash!Encoded(c)
        /\ index < BlockLen - 2 => \A k \in 1 .. index : r.buffer[k] = c.buffer[k]
    BY ONLY <1>4, FinalIs
  <1> HIDE DEF r
  <1>6. ASSUME ~spoilt PROVE r.state = Hash!Padded(message)
    <2>1. Taken(c) = Hash!Bytes(0, message)
      BY <1>1, <1>3, <1>6 DEF Hash!NothingLost, Taken
    <2>2. index = message % BlockLen
      BY ONLY <1>4, IndexIs
    <2> DEFINE zeros == CHOOSE z \in 0 .. BlockLen - 1 :
                           (message + 1 + z + Hash!LengthLen) % BlockLen = 0
    <2>3. zeros = p - 1
      BY ONLY <1>4, <2>2, ZerosAre
    <2> HIDE DEF zeros
    <2>4. p \in Nat
      <3>1. message % BlockLen \in Nat /\ message % BlockLen < BlockLen
        BY <1>4, HashFacts, Ranges
      <3> QED
        BY ONLY <2>2, <3>1, PadReaches
    <2> HIDE DEF p
    <2>5. 1 + zeros = p
      BY <2>3, <2>4
    <2> DEFINE bits == message * ByteBits
    <2>6. bits % Word = low /\ (bits \div Word) % Word = high
      <3>1. PICK t \in Nat : bits = Word * t + low /\ high = t % Word
        BY <1>3 DEF Counted
      <3>2. low \in Nat /\ low < Word /\ Word \in Nat /\ Word > 0
        BY <1>3, HashFacts DEF Counted
      <3> HIDE DEF bits
      <3>3. (Word * t + low) \div Word = t /\ (Word * t + low) % Word = low
        BY ONLY <3>2, t \in Nat, OnlyDivision
      <3> QED
        BY Zenon, <3>1, <3>3
    <2> DEFINE enc == Hash!Encoded([low |-> bits % Word, high |-> (bits \div Word) % Word])
    <2>7. enc = Hash!Encoded(c)
      BY <1>1, <2>6 DEF Hash!Encoded
    <2>8. Hash!Padded(message) = (Hash!Bytes(0, message) \o Hash!Padding(1 + zeros)) \o enc
      BY DEF Hash!Padded, zeros
    <2> HIDE DEF enc
    <2> QED
      BY Zenon, <1>5, <2>1, <2>5, <2>7, <2>8
  <1>7. Hash!PadTo = BlockLen - 2
    BY HashFacts
  <1> QED
    BY Zenon, <1>1, <1>2, <1>5, <1>6, <1>7

LEMMA HashDigest ==
  ASSUME HashInv, part = "hash", Hash!Digest
  PROVE  /\ state' \in Seq(Int) /\ IsBuffer(buffer') /\ high' \in Nat
         /\ Counted(message', low', high')
         /\ Hash!NothingLost'
         /\ ~spoilt => digest' = Hash!Padded(message)
  <1>1. /\ state \in Seq(Int) /\ IsBuffer(buffer) /\ high \in Nat
        /\ Counted(message, low, high) /\ Hash!NothingLost
    BY DEF HashInv
  <1>2. /\ digest' = Hash!Final.state /\ buffer' = Hash!Final.buffer
        /\ spoilt' = (spoilt \/ Hash!Index(low) >= Hash!PadTo)
        /\ state' = state /\ low' = low /\ high' = high /\ message' = message
    BY DEF Hash!Digest
  <1>3. /\ IsBuffer(buffer')
        /\ ~spoilt => digest' = Hash!Padded(message)
        /\ Hash!Index(low) < Hash!PadTo =>
             \A k \in 1 .. Hash!Index(low) : buffer'[k] = buffer[k]
    BY <1>2, HashFinal
  <1>4. ASSUME ~spoilt'
        PROVE  state' \o SubSeq(buffer', 1, Hash!Index(low')) = Hash!Bytes(0, message')
    <2> DEFINE index == Hash!Index(low)
               new == buffer'
    <2>1. index \in Nat /\ index < BlockLen /\ BlockLen \in Nat /\ Hash!PadTo \in Int
      <3>1. low \in Nat
        BY <1>1 DEF Counted
      <3> QED
        BY <3>1, IndexRange, HashFacts
    <2>2. ~spoilt /\ index < Hash!PadTo
      <3>1. ~spoilt /\ ~(index >= Hash!PadTo)
        BY Zenon, <1>2, <1>4
      <3> QED
        BY <2>1, <3>1
    <2>3. \A k \in 1 .. index : new[k] = buffer[k]
      BY ONLY <1>3, <2>2
    <2> HIDE DEF index
    <2>4. new \in Seq(Int) /\ Len(new) = BlockLen /\ buffer \in Seq(Int) /\ Len(buffer) = BlockLen
      BY <1>1, <1>3 DEF IsBuffer
    <2> HIDE DEF new
    <2>5. SubSeq(new, 1, index) = SubSeq(buffer, 1, index)
      <3> DEFINE s == SubSeq(new, 1, index)
                 t == SubSeq(buffer, 1, index)
      <3>1. s \in Seq(Int) /\ Len(s) = index /\ \A k \in 1 .. index : s[k] = new[k]
        BY <2>1, <2>4
      <3>2. t \in Seq(Int) /\ Len(t) = index /\ \A k \in 1 .. index : t[k] = buffer[k]
        BY <2>1, <2>4
      <3> HIDE DEF s, t
      <3>3. \A k \in 1 .. index : s[k] = t[k]
        BY <2>3, <3>1, <3>2
      <3>4. s = t
        BY <3>1, <3>2, <3>3, SeqEqual
      <3> QED
        BY <3>4 DEF s, t
    <2>6. state \o SubSeq(buffer, 1, index) = Hash!Bytes(0, message)
      BY <1>1, <2>2 DEF Hash!NothingLost, index
    <2>7. Hash!Index(low') = index
      BY <1>2 DEF index
    <2> QED
      BY Zenon, <1>2, <2>5, <2>6, <2>7 DEF new
  <1>5. Hash!NothingLost'
    BY <1>4 DEF Hash!NothingLost
  <1> QED
    BY <1>1, <1>2, <1>3, <1>5

LEMMA HashReset ==
  ASSUME HashInv, part = "hash", Hash!Reset
  PROVE  /\ state' \in Seq(Int) /\ IsBuffer(buffer') /\ high' \in Nat
         /\ Counted(message', low', high')
         /\ Hash!NothingLost'
  <1>1. IsBuffer(buffer)
    BY DEF HashInv
  <1>2. state' = << >> /\ low' = 0 /\ high' = 0 /\ message' = 0 /\ buffer' = buffer
    BY DEF Hash!Reset
  <1>3. BlockLen \in Nat /\ ByteBits \in Nat /\ Word \in Nat /\ Word > 0 /\ BlockLen > 0
    BY HashFacts
  <1>4. 0 * ByteBits = Word * 0 + 0 /\ 0 = 0 % Word
    BY <1>3
  <1>5. Counted(0, 0, 0)
    BY <1>3, <1>4 DEF Counted
  <1>6. Hash!NothingLost'
    <2>1. Hash!Index(0) = 0
      <3>1. Hash!Index(0) = 0 % BlockLen
        BY ONLY <1>5, IndexIs
      <3> QED
        BY <1>3, <3>1
    <2>2. SubSeq(buffer, 1, 0) = << >> /\ Hash!Bytes(0, 0) = << >>
      BY DEF Hash!Bytes
    <2>3. << >> \o << >> = << >>
      OBVIOUS
    <2> QED
      BY <1>2, <2>1, <2>2, <2>3 DEF Hash!NothingLost
  <1>7. state' \in Seq(Int)
    BY <1>2
  <1> QED
    BY <1>1, <1>2, <1>5, <1>6, <1>7

LEMMA HashNext ==
  ASSUME HashInv, [Next]_vars
  PROVE  /\ HashInv'
         /\ (Hash!Digest /\ ~spoilt => digest' = Hash!Padded(message)) \/ UNCHANGED Hash!vars
  <1>1. ASSUME UNCHANGED <<part, hash>>
        PROVE  HashInv' /\ UNCHANGED Hash!vars
    <2>1. /\ part' = part /\ state' = state /\ low' = low /\ high' = high /\ buffer' = buffer
          /\ digest' = digest /\ message' = message /\ spoilt' = spoilt /\ hashed' = hashed
      BY <1>1 DEF hash
    <2>2. UNCHANGED Hash!vars
      BY <2>1 DEF Hash!vars, Hash!md5
    <2>3. Hash!NothingLost => Hash!NothingLost'
      BY <2>1 DEF Hash!NothingLost
    <2> QED
      BY <2>1, <2>2, <2>3 DEF HashInv
  <1>2. CASE UNCHANGED vars
    BY <1>1, <1>2 DEF vars
  <1>3. CASE NextMisc \/ NextScan \/ NextText
    BY <1>1, <1>3 DEF NextMisc, NextScan, NextText
  <1>4. CASE NextHash
    <2>1. part = "hash" /\ part' = part /\ Hash!Next
      BY <1>4 DEF NextHash
    <2>2. /\ state' \in Seq(Int) /\ IsBuffer(buffer') /\ high' \in Nat
          /\ Counted(message', low', high')
          /\ Hash!NothingLost'
      <3>1. ASSUME NEW n \in 0 .. MaxPiece, Hash!Update(n)
            PROVE  /\ state' \in Seq(Int) /\ IsBuffer(buffer') /\ high' \in Nat
                   /\ Counted(message', low', high')
                   /\ Hash!NothingLost'
        BY <2>1, <3>1, HashUpdate, DeviceAssumption DEF Hash!Md5Assumption
      <3> QED
        BY <2>1, <3>1, HashDigest, HashReset DEF Hash!Next
    <2>3. Hash!Digest /\ ~spoilt => digest' = Hash!Padded(message)
      BY <2>1, HashDigest
    <2> QED
      BY <2>1, <2>2, <2>3 DEF HashInv
  <1> QED
    BY <1>2, <1>3, <1>4 DEF Next

\* MD5 of what a file brought, in whatever pieces it was read, with digests and
\* resets at any time, is that of RFC 1321's padded message, for any sizes of
\* block and word; nothing of it is lost or repeated in between.
THEOREM DigestAlwaysRight == Spec => DigestIsRight
  <1>1. HashInv => (part = "hash" => Hash!NothingLost)
    BY DEF HashInv
  <1>2. HashInv /\ [Next]_vars => HashInv'
    BY HashNext
  <1>3. HashInv /\ [Next]_vars
          => [Hash!Digest /\ ~spoilt => digest' = Hash!Padded(message)]_(Hash!vars)
    BY HashNext
  <1> QED
    BY <1>1, <1>2, <1>3, HashInit, PTL DEF Spec, vars, DigestIsRight, Hash!DigestIsRight

-----------------------------------------------------------------------------
(* Texts, and lists of texts put together *)

LEMMA Joined ==
  ASSUME NEW C, NEW a \in Seq(C), NEW b \in Seq(C)
  PROVE  Join(a, b) \in Seq(C)
  BY ConcatProperties DEF Join

LEMMA JoinAssociates ==
  ASSUME NEW C, NEW a \in Seq(C), NEW b \in Seq(C), NEW c \in Seq(C)
  PROVE  Join(Join(a, b), c) = Join(a, Join(b, c))
  BY ConcatAssociative DEF Join

LEMMA JoinEmpty ==
  ASSUME NEW C, NEW a \in Seq(C)
  PROVE  Join(a, << >>) = a /\ Join(<< >>, a) = a
  BY ConcatEmptySeq DEF Join

\* The texts of a list up to the m-th, put together one by one.
PutTogether(f, ss, m) ==
    f = [i \in 1 .. m |-> IF i = 1 THEN ss[i] ELSE f[i - 1] \o ss[i]]

LEMMA PutTogetherExists ==
  ASSUME NEW ss, NEW n \in Nat
  PROVE  \E f : PutTogether(f, ss, n)
  <1> DEFINE T == {m \in Nat : ~ \E f : PutTogether(f, ss, m)}
  <1> SUFFICES ASSUME T # {} PROVE FALSE
    OBVIOUS
  <1>1. PICK m \in T : \A y \in T : m <= y
    BY LeastOf
  <1>2. CASE m = 0
    <2> DEFINE f == [i \in 1 .. 0 |-> ss[i]]
    <2>1. f = [i \in 1 .. 0 |-> IF i = 1 THEN ss[i] ELSE f[i - 1] \o ss[i]]
      OBVIOUS
    <2>2. PutTogether(f, ss, m)
      BY <1>2, <2>1 DEF PutTogether
    <2> QED
      BY <1>1, <2>2
  <1>3. CASE m # 0
    <2>1. m \in Nat /\ m - 1 \in Nat /\ m - 1 \notin T
      BY <1>1, <1>3
    <2>2. PICK f : PutTogether(f, ss, m - 1)
      BY <2>1
    <2> DEFINE new == IF m = 1 THEN ss[m] ELSE f[m - 1] \o ss[m]
               g == [i \in 1 .. m |-> IF i < m THEN f[i] ELSE new]
    <2>3. ASSUME NEW i \in 1 .. m
          PROVE  g[i] = IF i = 1 THEN ss[i] ELSE g[i - 1] \o ss[i]
      <3>1. CASE i = m
        <4>1. g[m] = new /\ (m # 1 => g[m - 1] = f[m - 1])
          BY <2>1
        <4> QED
          BY <3>1, <4>1
      <3>2. CASE i < m
        <4>1. i \in 1 .. m - 1
          BY <2>1, <3>2
        <4>2. f[i] = IF i = 1 THEN ss[i] ELSE f[i - 1] \o ss[i]
          BY <2>2, <4>1 DEF PutTogether
        <4>3. g[i] = f[i] /\ (i # 1 => g[i - 1] = f[i - 1])
          BY <2>1, <3>2, <4>1
        <4> QED
          BY <4>2, <4>3
      <3> QED
        BY <2>1, <3>1, <3>2
    <2>4. PutTogether(g, ss, m)
      BY <2>3 DEF PutTogether
    <2> QED
      BY <1>1, <2>4
  <1> QED
    BY <1>2, <1>3

Flat(ss) == Strings!FlattenSeq(ss)

\* Putting together ends in the text that FlattenSeq gives.
LEMMA FlatIs ==
  ASSUME NEW C, NEW ss \in Seq(Seq(C)), ss # << >>
  PROVE  \E f : /\ PutTogether(f, ss, Len(ss)) /\ Flat(ss) = f[Len(ss)]
                /\ \A i \in 1 .. Len(ss) : f[i] \in Seq(C)
  <1> DEFINE n == Len(ss)
             f == CHOOSE g : PutTogether(g, ss, n)
  <1>1. n \in Nat /\ n > 0
    OBVIOUS
  <1>2. PutTogether(f, ss, n)
    BY <1>1, PutTogetherExists
  <1>3. Flat(ss) = f[n]
    BY <1>1 DEF Flat, Strings!FlattenSeq, PutTogether
  <1> HIDE DEF f
  <1>4. ASSUME NEW i \in 1 .. n PROVE f[i] = IF i = 1 THEN ss[i] ELSE Join(f[i - 1], ss[i])
    BY <1>2 DEF PutTogether, Join
  <1> DEFINE T == {i \in Nat : i \in 1 .. n /\ f[i] \notin Seq(C)}
  <1>5. T = {}
    <2> SUFFICES ASSUME T # {} PROVE FALSE
      OBVIOUS
    <2>1. PICK i \in T : \A y \in T : i <= y
      BY LeastOf
    <2>2. i # 1
      BY <1>4, <2>1, SMTT(60)
    <2>3. i - 1 \in 1 .. n /\ i - 1 \notin T
      <3>1. i \in Nat /\ i \in 1 .. n
        BY <2>1
      <3>2. i - 1 \in Nat /\ i - 1 \in 1 .. n /\ ~(i <= i - 1)
        BY <1>1, <2>2, <3>1
      <3> HIDE DEF T
      <3> QED
        BY <2>1, <3>2
    <2>4. f[i - 1] \in Seq(C) /\ ss[i] \in Seq(C)
      BY <2>1, <2>3
    <2>5. f[i] \in Seq(C)
      BY <1>4, <2>1, <2>2, <2>4, Joined, SMTT(60)
    <2> QED
      BY <2>1, <2>5
  <1> HIDE DEF n
  <1>6. \A i \in 1 .. n : f[i] \in Seq(C)
    BY <1>1, <1>5
  <1> QED
    BY <1>2, <1>3, <1>6 DEF n

LEMMA FlatOfNone == Flat(<< >>) = << >>
  BY DEF Flat, Strings!FlattenSeq

LEMMA FlatIsText ==
  ASSUME NEW C, NEW ss \in Seq(Seq(C))
  PROVE  Flat(ss) \in Seq(C)
  <1>1. CASE ss = << >>
    <2>1. Flat(ss) = << >>
      BY <1>1, FlatOfNone
    <2> HIDE <1>1
    <2> QED
      BY <2>1
  <1>2. CASE ss # << >>
    <2>1. PICK f : /\ Flat(ss) = f[Len(ss)]
                   /\ \A i \in 1 .. Len(ss) : f[i] \in Seq(C)
      BY <1>2, FlatIs
    <2>2. Len(ss) \in 1 .. Len(ss)
      BY <1>2
    <2> QED
      BY <2>1, <2>2
  <1> QED
    BY <1>1, <1>2

LEMMA FlatOfOne ==
  ASSUME NEW C, NEW a \in Seq(C)
  PROVE  Flat(<<a>>) = a
  <1>1. <<a>> \in Seq(Seq(C)) /\ Len(<<a>>) = 1 /\ <<a>>[1] = a /\ <<a>> # << >>
    OBVIOUS
  <1>2. PICK f : PutTogether(f, <<a>>, 1) /\ Flat(<<a>>) = f[1]
    BY <1>1, FlatIs
  <1>3. f[1] = <<a>>[1]
    BY <1>2 DEF PutTogether
  <1> QED
    BY <1>1, <1>2, <1>3

\* A text in front of the list comes in front of the whole.
LEMMA FlatCons ==
  ASSUME NEW C, NEW a \in Seq(C), NEW ss \in Seq(Seq(C))
  PROVE  Flat(<<a>> \o ss) = Join(a, Flat(ss))
  <1> DEFINE n == Len(ss)
             tt == <<a>> \o ss
  <1>1. CASE ss = << >>
    <2>1. tt = <<a>>
      BY <1>1
    <2> QED
      BY <1>1, <2>1, FlatOfOne, FlatOfNone, JoinEmpty
  <1>2. CASE ss # << >>
    <2>1. /\ n \in Nat /\ n > 0 /\ tt \in Seq(Seq(C)) /\ Len(tt) = n + 1 /\ tt # << >>
          /\ tt[1] = a /\ \A i \in 1 .. n : tt[i + 1] = ss[i]
      BY <1>2
    <2>2. PICK f : /\ PutTogether(f, ss, n) /\ Flat(ss) = f[n]
                   /\ \A i \in 1 .. n : f[i] \in Seq(C)
      BY <1>2, FlatIs
    <2>3. PICK g : /\ PutTogether(g, tt, n + 1) /\ Flat(tt) = g[n + 1]
      BY <2>1, FlatIs, ZenonT(60)
    <2> HIDE DEF tt
    <2>4. \A i \in 1 .. n : f[i] = IF i = 1 THEN ss[i] ELSE Join(f[i - 1], ss[i])
      BY <2>2 DEF PutTogether, Join
    <2>5. \A i \in 1 .. n + 1 : g[i] = IF i = 1 THEN tt[i] ELSE Join(g[i - 1], tt[i])
      BY <2>3 DEF PutTogether, Join
    <2> DEFINE T == {i \in Nat : i \in 1 .. n /\ g[i + 1] # Join(a, f[i])}
    <2> HIDE DEF n
    <2>6. T = {}
      <3> SUFFICES ASSUME T # {} PROVE FALSE
        OBVIOUS
      <3>1. PICK i \in T : \A y \in T : i <= y
        BY LeastOf
      <3>2. i \in 1 .. n /\ i + 1 \in 1 .. n + 1 /\ i + 1 # 1 /\ (i + 1) - 1 = i /\ i \in Nat
        BY <2>1, <3>1
      <3>3. g[i + 1] = Join(g[i], ss[i])
        BY <2>1, <2>5, <3>2
      <3>4. CASE i = 1
        <4>1. f[1] = ss[1]
          BY <2>4, <3>2, <3>4
        <4>2. g[1] = a
          <5>1. 1 \in 1 .. n + 1
            BY <2>1
          <5> QED
            BY <2>1, <2>5, <5>1
        <4> QED
          BY <3>1, <3>3, <3>4, <4>1, <4>2
      <3>5. CASE i # 1
        <4>1. i - 1 \in 1 .. n /\ i - 1 \notin T /\ (i - 1) + 1 = i /\ i - 1 \in Nat
          BY <2>1, <3>1, <3>2, <3>5
        <4>2. g[i] = Join(a, f[i - 1])
          BY <4>1
        <4>3. f[i] = Join(f[i - 1], ss[i])
          BY <2>4, <3>2, <3>5
        <4>4. f[i - 1] \in Seq(C) /\ ss[i] \in Seq(C)
          BY <2>2, <3>2, <4>1, SMTT(60) DEF n
        <4>5. Join(Join(a, f[i - 1]), ss[i]) = Join(a, Join(f[i - 1], ss[i]))
          BY <4>4, JoinAssociates
        <4> QED
          BY <3>1, <3>3, <4>2, <4>3, <4>5
      <3> QED
        BY <3>4, <3>5
    <2>7. n \notin T
      BY <2>6
    <2> QED
      BY <2>1, <2>2, <2>3, <2>7 DEF tt
  <1> QED
    BY <1>1, <1>2

\* A text behind the list comes behind the whole.
LEMMA FlatAppend ==
  ASSUME NEW C, NEW a \in Seq(C), NEW ss \in Seq(Seq(C))
  PROVE  Flat(Append(ss, a)) = Join(Flat(ss), a)
  <1> DEFINE n == Len(ss)
             tt == Append(ss, a)
  <1>1. CASE ss = << >>
    <2>1. tt = <<a>>
      BY <1>1
    <2> QED
      BY <1>1, <2>1, FlatOfOne, FlatOfNone, JoinEmpty
  <1>2. CASE ss # << >>
    <2>1. /\ n \in Nat /\ n > 0 /\ tt \in Seq(Seq(C)) /\ Len(tt) = n + 1 /\ tt # << >>
          /\ tt[n + 1] = a /\ \A i \in 1 .. n : tt[i] = ss[i]
      <3>1. n \in Nat /\ n > 0
        BY <1>2
      <3> QED
        BY <3>1, AppendProperties
    <2>2. PICK f : PutTogether(f, ss, n) /\ Flat(ss) = f[n]
      BY <1>2, FlatIs
    <2>3. PICK g : PutTogether(g, tt, n + 1) /\ Flat(tt) = g[n + 1]
      BY <2>1, FlatIs
    <2> HIDE DEF tt
    <2>4. \A i \in 1 .. n : f[i] = IF i = 1 THEN ss[i] ELSE Join(f[i - 1], ss[i])
      BY <2>2 DEF PutTogether, Join
    <2>5. \A i \in 1 .. n + 1 : g[i] = IF i = 1 THEN tt[i] ELSE Join(g[i - 1], tt[i])
      BY <2>3 DEF PutTogether, Join
    <2> DEFINE T == {i \in Nat : i \in 1 .. n /\ g[i] # f[i]}
    <2> HIDE DEF n
    <2>6. T = {}
      <3> SUFFICES ASSUME T # {} PROVE FALSE
        OBVIOUS
      <3>1. PICK i \in T : \A y \in T : i <= y
        BY LeastOf
      <3>2. i \in 1 .. n /\ i \in 1 .. n + 1 /\ tt[i] = ss[i]
        BY <2>1, <3>1
      <3>3. i # 1
        BY <2>4, <2>5, <3>1, <3>2
      <3>4. i - 1 \in Nat /\ i - 1 \in 1 .. n /\ i - 1 \notin T
        BY <2>1, <3>1, <3>2, <3>3
      <3>5. g[i - 1] = f[i - 1]
        BY <3>4
      <3> QED
        BY <2>4, <2>5, <3>1, <3>2, <3>3, <3>5
    <2>7. g[n] = f[n]
      <3>1. n \in 1 .. n
        BY <2>1
      <3>2. n \notin T
        BY <2>6
      <3> QED
        BY <2>1, <3>1, <3>2
    <2>8. g[n + 1] = Join(g[n], a)
      <3>1. n + 1 \in 1 .. n + 1 /\ n + 1 # 1 /\ (n + 1) - 1 = n
        BY <2>1
      <3> QED
        BY <2>1, <2>5, <3>1
    <2> QED
      BY <2>2, <2>3, <2>7, <2>8 DEF tt
  <1> QED
    BY <1>1, <1>2

\* A set of positions has a first and a last one.
LEMMA EndsOfPositions ==
  ASSUME NEW n \in Nat, NEW T \in SUBSET (1 .. n), T # {}
  PROVE  /\ Strings!Min(T) \in T /\ \A y \in T : Strings!Min(T) <= y
         /\ Strings!Max(T) \in T /\ \A y \in T : y <= Strings!Max(T)
  <1>1. \E x \in T : \A y \in T : x <= y
    BY LeastOf
  <1>2. \E x \in T : \A y \in T : y <= x
    <2> DEFINE R == {n - y : y \in T}
    <2>1. R \in SUBSET Nat /\ R # {}
      <3>1. \A y \in T : n - y \in Nat
        OBVIOUS
      <3> QED
        BY <3>1
    <2>2. PICK z \in R : \A y \in R : z <= y
      BY <2>1, LeastOf
    <2>3. PICK x \in T : z = n - x
      BY <2>2
    <2>4. ASSUME NEW y \in T PROVE y <= x
      <3>1. n - y \in R
        OBVIOUS
      <3>2. n - x <= n - y
        BY <2>2, <2>3, <3>1
      <3> QED
        BY <3>2
    <2> QED
      BY <2>4
  <1>3. Strings!Min(T) \in T /\ \A y \in T : Strings!Min(T) <= y
    BY <1>1 DEF Strings!Min
  <1>4. Strings!Max(T) \in T /\ \A y \in T : y <= Strings!Max(T)
    BY <1>2 DEF Strings!Max
  <1> QED
    BY <1>3, <1>4

\* find gives the first place, or npos.
StandsIn(s, p, i) == i \in 1 .. Len(s) - Len(p) + 1 /\ SubSeq(s, i, i + Len(p) - 1) = p
Finds(s, p, e) ==
    /\ e \in Nat /\ (e # 0 => StandsIn(s, p, e))
    /\ \A i \in 1 .. Len(s) : StandsIn(s, p, i) => e # 0 /\ e <= i

LEMMA FindIs ==
  ASSUME NEW C, NEW s \in Seq(C), NEW p \in Seq(C), p # << >>
  PROVE  Finds(s, p, Strings!FindIn(s, p))
  <1> DEFINE e == Strings!FindIn(s, p)
             T == {i \in 1 .. Len(s) - Len(p) + 1 : SubSeq(s, i, i + Len(p) - 1) = p}
  <1>1. Len(s) \in Nat /\ Len(p) \in Nat /\ Len(p) > 0
    OBVIOUS
  <1>2. T \in SUBSET (1 .. Len(s))
    BY <1>1
  <1>3. \A i \in 1 .. Len(s) : StandsIn(s, p, i) <=> i \in T
    BY <1>1 DEF StandsIn
  <1>4. e = IF T = {} THEN 0 ELSE Strings!Min(T)
    BY DEF Strings!FindIn
  <1> HIDE DEF e
  <1>5. CASE T = {}
    <2>1. e = 0
      BY <1>4, <1>5
    <2>2. \A i \in 1 .. Len(s) : i \notin T
      BY <1>5
    <2> HIDE DEF T
    <2> QED
      BY <1>3, <2>1, <2>2 DEF Finds, e
  <1>6. CASE T # {}
    <2> HIDE DEF T
    <2>1. e \in T /\ \A y \in T : e <= y
      BY <1>1, <1>2, <1>4, <1>6, EndsOfPositions
    <2>2. e \in 1 .. Len(s) /\ StandsIn(s, p, e)
      BY <1>2, <1>3, <2>1
    <2>3. e \in Nat /\ e # 0
      BY <2>2
    <2> QED
      BY <1>3, <2>1, <2>2, <2>3 DEF e, Finds
  <1> QED
    BY <1>5, <1>6

\* What of a text is from position i on.
From(s, i) == SubSeq(s, i, Len(s))

LEMMA FromIs ==
  ASSUME NEW C, NEW s \in Seq(C), NEW i \in 1 .. Len(s) + 1
  PROVE  /\ From(s, i) \in Seq(C) /\ Len(From(s, i)) = Len(s) + 1 - i
         /\ \A k \in 1 .. Len(s) + 1 - i : From(s, i)[k] = s[i + k - 1]
         /\ (From(s, i) = << >> <=> i = Len(s) + 1)
  <1>1. Len(s) \in Nat /\ i \in Nat
    OBVIOUS
  <1>2. From(s, i) \in Seq(C) /\ Len(From(s, i)) = Len(s) + 1 - i
    BY <1>1 DEF From
  <1>3. \A k \in 1 .. Len(s) + 1 - i : From(s, i)[k] = s[i + k - 1]
    BY <1>1 DEF From
  <1>4. From(s, i) = << >> <=> Len(From(s, i)) = 0
    BY <1>2, EmptySeq
  <1> QED
    BY <1>1, <1>2, <1>3, <1>4

LEMMA OneOf ==
  ASSUME NEW C, NEW s \in Seq(C), NEW k \in 1 .. Len(s)
  PROVE  SubSeq(s, k, k) = <<s[k]>>
  <1> DEFINE a == SubSeq(s, k, k)
             b == <<s[k]>>
  <1>1. k \in Int /\ k - k + 1 = 1 /\ \A i \in k .. k : s[i] \in C
    OBVIOUS
  <1>2. a \in Seq(C) /\ Len(a) = 1 /\ a[1] = s[k]
    BY <1>1, SubSeqProperties
  <1>3. b \in Seq(C) /\ Len(b) = 1 /\ b[1] = s[k]
    OBVIOUS
  <1> HIDE DEF a, b
  <1>4. a = b
    BY <1>2, <1>3, SeqEqual
  <1> QED
    BY <1>4 DEF a, b

\* The next place of a character, counted from i.
Next1(s, i, c) == Strings!FindIn(From(s, i), <<c>>)

LEMMA NextIs ==
  ASSUME NEW C, NEW s \in Seq(C), NEW c \in C, NEW i \in 1 .. Len(s) + 1
  PROVE  LET e == Next1(s, i, c)
         IN  /\ e \in Nat
             /\ e = 0 => \A k \in i .. Len(s) : s[k] # c
             /\ e # 0 => /\ i + e <= Len(s) + 1 /\ s[i + e - 1] = c
                         /\ \A k \in i .. i + e - 2 : s[k] # c
  <1> DEFINE r == From(s, i)
             n == Len(s) + 1 - i
             e == Next1(s, i, c)
  <1>1. /\ r \in Seq(C) /\ Len(r) = n /\ \A k \in 1 .. n : r[k] = s[i + k - 1]
        /\ n \in Nat /\ i \in Nat /\ Len(s) \in Nat
    BY FromIs
  <1> HIDE DEF r
  <1>2. <<c>> \in Seq(C) /\ <<c>> # << >> /\ Len(<<c>>) = 1
    OBVIOUS
  <1>3. \A k \in 1 .. n : k \in 1 .. Len(r) - 1 + 1
      /\ (SubSeq(r, k, k + 1 - 1) = <<c>> <=> r[k] = c)
    <2> SUFFICES ASSUME NEW k \in 1 .. n
                 PROVE  k \in 1 .. Len(r) - 1 + 1 /\ (SubSeq(r, k, k + 1 - 1) = <<c>> <=> r[k] = c)
      OBVIOUS
    <2>1. k + 1 - 1 = k /\ k \in 1 .. Len(r) - 1 + 1
      BY <1>1
    <2>2. SubSeq(r, k, k) = <<r[k]>>
      BY <1>1, OneOf
    <2> QED
      BY <2>1, <2>2
  <1>4. /\ e \in Nat /\ (e # 0 => e \in 1 .. Len(r) - 1 + 1 /\ SubSeq(r, e, e + 1 - 1) = <<c>>)
        /\ \A k \in 1 .. Len(r) :
              k \in 1 .. Len(r) - 1 + 1 /\ SubSeq(r, k, k + 1 - 1) = <<c>> => e # 0 /\ e <= k
    <2>1. Finds(r, <<c>>, Strings!FindIn(r, <<c>>))
      BY <1>1, <1>2, FindIs
    <2>2. e = Strings!FindIn(r, <<c>>)
      BY DEF Next1, r
    <2> HIDE DEF e
    <2>3. Finds(r, <<c>>, e)
      BY <2>1, <2>2
    <2> QED
      BY <1>2, <2>3 DEF Finds, StandsIn
  <1> HIDE DEF e
  <1>5. /\ e \in Nat /\ (e # 0 => e \in 1 .. n /\ r[e] = c)
        /\ \A k \in 1 .. n : r[k] = c => e # 0 /\ e <= k
    BY <1>1, <1>3, <1>4
  <1>6. \A k \in i .. Len(s) : k - i + 1 \in 1 .. n /\ r[k - i + 1] = s[k]
    <2> SUFFICES ASSUME NEW k \in i .. Len(s) PROVE k - i + 1 \in 1 .. n /\ r[k - i + 1] = s[k]
      OBVIOUS
    <2>1. k - i + 1 \in 1 .. n /\ i + (k - i + 1) - 1 = k
      BY <1>1
    <2>2. r[k - i + 1] = s[i + (k - i + 1) - 1]
      BY <1>1, <2>1
    <2> QED
      BY <2>1, <2>2
  <1>7. e = 0 => \A k \in i .. Len(s) : s[k] # c
    BY <1>5, <1>6
  <1>8. ASSUME e # 0
        PROVE  /\ i + e <= Len(s) + 1 /\ s[i + e - 1] = c
               /\ \A k \in i .. i + e - 2 : s[k] # c
    <2>1. e \in 1 .. n /\ r[e] = c
      BY <1>5, <1>8
    <2>2. i + e <= Len(s) + 1 /\ s[i + e - 1] = c
      BY <1>1, <2>1
    <2>3. ASSUME NEW k \in i .. i + e - 2 PROVE s[k] # c
      <3>1. k \in i .. Len(s) /\ ~(e <= k - i + 1)
        BY <1>1, <2>2, <1>5
      <3> QED
        BY <1>5, <1>6, <3>1
    <2> QED
      BY <2>2, <2>3
  <1> QED
    BY <1>5, <1>7, <1>8 DEF e

\* A piece of what is from position i on is a piece of the whole.
LEMMA PieceIs ==
  ASSUME NEW C, NEW s \in Seq(C), NEW i \in 1 .. Len(s) + 1, NEW m \in Nat, i + m <= Len(s) + 1
  PROVE  /\ SubSeq(From(s, i), 1, m) = SubSeq(s, i, i + m - 1)
         /\ SubSeq(s, i, i + m - 1) \in Seq(C) /\ Len(SubSeq(s, i, i + m - 1)) = m
         /\ \A k \in 1 .. m : SubSeq(s, i, i + m - 1)[k] = s[i + k - 1]
  <1> DEFINE a == SubSeq(From(s, i), 1, m)
             b == SubSeq(s, i, i + m - 1)
  <1>1. /\ From(s, i) \in Seq(C) /\ Len(From(s, i)) = Len(s) + 1 - i
        /\ \A k \in 1 .. Len(s) + 1 - i : From(s, i)[k] = s[i + k - 1]
    BY FromIs
  <1>2. i \in Nat /\ Len(s) \in Nat
    OBVIOUS
  <1>3. a \in Seq(C) /\ Len(a) = m /\ \A k \in 1 .. m : a[k] = From(s, i)[k]
    BY <1>1, <1>2
  <1>4. b \in Seq(C) /\ Len(b) = m /\ \A k \in 1 .. m : b[k] = s[i + k - 1]
    BY <1>2
  <1> HIDE DEF a, b
  <1>5. ASSUME NEW k \in 1 .. m PROVE a[k] = b[k]
    <2>1. k \in 1 .. Len(s) + 1 - i
      BY <1>2
    <2> QED
      BY <1>1, <1>3, <1>4, <2>1
  <1>6. a = b
    BY <1>3, <1>4, <1>5, SeqEqual
  <1> QED
    BY <1>4, <1>6 DEF a, b

\* A recursion that goes up through 1 .. n, and stops where next is 0.
UpFrom(f, m, n, next, base, head) ==
    f = [i \in m .. n |-> IF next[i] = 0 THEN base[i] ELSE head[i] \o f[next[i]]]

LEMMA UpExists ==
  ASSUME NEW n \in Nat, NEW next, NEW base, NEW head,
         \A i \in 1 .. n : next[i] = 0 \/ next[i] \in i + 1 .. n
  PROVE  \E f : UpFrom(f, 1, n, next, base, head)
  <1> DEFINE T == {k \in Nat : k <= n /\ ~ \E f : UpFrom(f, n + 1 - k, n, next, base, head)}
  <1>1. SUFFICES ASSUME T # {} PROVE FALSE
    <2>1. n \notin T => \E f : UpFrom(f, n + 1 - n, n, next, base, head)
      OBVIOUS
    <2>2. n + 1 - n = 1
      OBVIOUS
    <2> QED
      BY <2>1, <2>2
  <1>2. PICK k \in T : \A y \in T : k <= y
    BY <1>1, LeastOf
  <1> DEFINE m == n + 1 - k
  <1>3. CASE k = 0
    <2> DEFINE f == [i \in n + 1 .. n |-> base[i]]
    <2>1. f = [i \in n + 1 .. n |-> IF next[i] = 0 THEN base[i] ELSE head[i] \o f[next[i]]]
      OBVIOUS
    <2>2. m = n + 1
      BY <1>3
    <2>3. UpFrom(f, m, n, next, base, head)
      BY <2>1, <2>2 DEF UpFrom
    <2> QED
      BY <1>2, <2>3
  <1>4. CASE k # 0
    <2>1. k \in Nat /\ k - 1 \in Nat /\ k - 1 <= n /\ k - 1 \notin T /\ n + 1 - (k - 1) = m + 1
          /\ m \in 1 .. n
      BY <1>2, <1>4
    <2>2. PICK f : UpFrom(f, m + 1, n, next, base, head)
      BY <2>1
    <2> DEFINE new == IF next[m] = 0 THEN base[m] ELSE head[m] \o f[next[m]]
               g == [i \in m .. n |-> IF i = m THEN new ELSE f[i]]
    <2>3. ASSUME NEW i \in m .. n
          PROVE  g[i] = IF next[i] = 0 THEN base[i] ELSE head[i] \o g[next[i]]
      <3>1. next[i] = 0 \/ (next[i] \in i + 1 .. n /\ next[i] \in m .. n /\ next[i] # m)
        BY <2>1
      <3>2. next[i] # 0 => g[next[i]] = f[next[i]]
        BY <3>1
      <3>3. CASE i = m
        <4>1. g[m] = new
          BY <2>1
        <4> HIDE DEF g
        <4> QED
          BY <3>2, <3>3, <4>1
      <3>4. CASE i # m
        <4>1. i \in m + 1 .. n /\ g[i] = f[i]
          BY <2>1, <3>4
        <4>2. f[i] = IF next[i] = 0 THEN base[i] ELSE head[i] \o f[next[i]]
          BY <2>2, <4>1 DEF UpFrom
        <4> HIDE DEF g
        <4> QED
          BY <3>2, <4>1, <4>2
      <3> QED
        BY <3>3, <3>4
    <2> HIDE DEF new
    <2>4. UpFrom(g, m, n, next, base, head)
      BY <2>3 DEF UpFrom
    <2> QED
      BY <1>2, <2>4
  <1> QED
    BY <1>3, <1>4

-----------------------------------------------------------------------------
(* getline, and u_split *)

\* The lines from each position on, and the tokens, as the helpers recur.
LinesUp(f, s) ==
    f = [i \in 1 .. Len(s) + 1 |->
           LET rest == SubSeq(s, i, Len(s))
               end == Strings!FindIn(rest, <<"\n">>)
           IN  IF rest = << >> THEN << >>
               ELSE IF end = 0 THEN <<rest>>
               ELSE <<SubSeq(rest, 1, end - 1)>> \o f[i + end]]

\* getline's recursion gives the lines from each position on.
LEMMA LinesAre ==
  ASSUME NEW C, "\n" \in C, NEW s \in Seq(C)
  PROVE  \E f : /\ Strings!Getlines(s) = f[1] /\ f[Len(s) + 1] = << >>
                /\ \A i \in 1 .. Len(s) :
                      LET e == Next1(s, i, "\n")
                      IN  f[i] = IF e = 0 THEN <<From(s, i)>> ELSE <<SubSeq(s, i,
                          i + e - 2)>> \o f[i + e]
  <1> DEFINE n == Len(s) + 1
             N(i) == Next1(s, i, "\n")
             next == [i \in 1 .. n |-> IF i = n \/ N(i) = 0 THEN 0 ELSE i + N(i)]
             base == [i \in 1 .. n |-> IF i = n THEN << >> ELSE <<From(s, i)>>]
             head == [i \in 1 .. n |-> <<SubSeq(From(s, i), 1, N(i) - 1)>>]
             f == CHOOSE g : LinesUp(g, s)
  <1>1. n \in Nat /\ Len(s) \in Nat /\ n - 1 = Len(s)
    OBVIOUS
  <1>2. ASSUME NEW i \in 1 .. n
        PROVE  /\ N(i) \in Nat /\ (N(i) # 0 => i + N(i) <= n)
               /\ (From(s, i) = << >> <=> i = n)
    BY <1>1, FromIs, NextIs
  <1> HIDE DEF N
  <1>3. \A i \in 1 .. n : next[i] = 0 \/ next[i] \in i + 1 .. n
    <2> SUFFICES ASSUME NEW i \in 1 .. n PROVE next[i] = 0 \/ next[i] \in i + 1 .. n
      OBVIOUS
    <2>1. next[i] = IF i = n \/ N(i) = 0 THEN 0 ELSE i + N(i)
      OBVIOUS
    <2> HIDE DEF next, n
    <2> QED
      BY <1>1, <1>2, <2>1
  <1>4. \A i \in 1 .. n : /\ next[i] = IF i = n \/ N(i) = 0 THEN 0 ELSE i + N(i)
                          /\ base[i] = IF i = n THEN << >> ELSE <<From(s, i)>>
                          /\ head[i] = <<SubSeq(From(s, i), 1, N(i) - 1)>>
    OBVIOUS
  <1> HIDE DEF next, base, head
  <1>5. PICK g : UpFrom(g, 1, n, next, base, head)
    BY <1>1, <1>3, UpExists
  <1>6. LinesUp(g, s)
    <2>1. ASSUME NEW i \in 1 .. n
          PROVE  g[i] = IF From(s, i) = << >> THEN << >>
                        ELSE IF N(i) = 0 THEN <<From(s, i)>>
                        ELSE <<SubSeq(From(s, i), 1, N(i) - 1)>> \o g[i + N(i)]
      <3>1. g[i] = IF next[i] = 0 THEN base[i] ELSE head[i] \o g[next[i]]
        BY <1>5 DEF UpFrom
      <3>2. (From(s, i) = << >> <=> i = n) /\ i + N(i) # 0
        BY <1>2
      <3> HIDE DEF n
      <3> QED
        BY <1>4, <3>1, <3>2
    <2>2. g = [i \in 1 .. n |-> g[i]]
      BY <1>5 DEF UpFrom
    <2> QED
      BY <2>1, <2>2 DEF LinesUp, N, Next1, From
  <1>7. LinesUp(f, s)
    BY <1>6
  <1>8. Strings!Getlines(s) = f[1]
    BY DEF Strings!Getlines, LinesUp
  <1> HIDE DEF f
  <1>9. ASSUME NEW i \in 1 .. n
        PROVE  f[i] = IF From(s, i) = << >> THEN << >>
                      ELSE IF N(i) = 0 THEN <<From(s, i)>>
                      ELSE <<SubSeq(From(s, i), 1, N(i) - 1)>> \o f[i + N(i)]
    BY <1>7 DEF LinesUp, N, Next1, From
  <1>10. f[n] = << >>
    <2>1. n \in 1 .. n
      BY <1>1
    <2> HIDE DEF n
    <2> QED
      BY <1>2, <1>9, <2>1
  <1>11. ASSUME NEW i \in 1 .. Len(s)
         PROVE  f[i] = IF N(i) = 0 THEN <<From(s, i)>> ELSE <<SubSeq(s, i,
             i + N(i) - 2)>> \o f[i + N(i)]
    <2>1. i \in 1 .. n /\ i # n
      BY <1>1
    <2>2. N(i) # 0 => SubSeq(From(s, i), 1, N(i) - 1) = SubSeq(s, i, i + N(i) - 2)
      <3> SUFFICES ASSUME N(i) # 0
          PROVE SubSeq(From(s, i), 1, N(i) - 1) = SubSeq(s, i, i + N(i) - 2)
        OBVIOUS
      <3>1. N(i) - 1 \in Nat /\ i + (N(i) - 1) <= Len(s) + 1 /\ i + (N(i) - 1) - 1 = i + N(i) - 2
            /\ i \in 1 .. Len(s) + 1
        BY <1>1, <1>2, <2>1
      <3>2. SubSeq(From(s, i), 1, N(i) - 1) = SubSeq(s, i, i + (N(i) - 1) - 1)
        BY <3>1, PieceIs
      <3> QED
        BY <3>1, <3>2
    <2>3. From(s, i) # << >>
      BY <1>2, <2>1
    <2> QED
      BY <1>9, <2>1, <2>2, <2>3
  <1> QED
    BY <1>8, <1>10, <1>11 DEF N

LEMMA JoinIs ==
  ASSUME NEW C, NEW a \in Seq(C), NEW b \in Seq(C)
  PROVE  /\ Join(a, b) \in Seq(C) /\ Len(Join(a, b)) = Len(a) + Len(b)
         /\ \A i \in 1 .. Len(a) + Len(b) :
               Join(a, b)[i] = IF i <= Len(a) THEN a[i] ELSE b[i - Len(a)]
  BY ConcatProperties DEF Join

LEMMA AppendIs ==
  ASSUME NEW C, NEW a \in Seq(C), NEW c \in C
  PROVE  /\ Append(a, c) \in Seq(C) /\ Len(Append(a, c)) = Len(a) + 1
         /\ \A k \in 1 .. Len(a) : Append(a, c)[k] = a[k]
         /\ Append(a, c)[Len(a) + 1] = c
  BY AppendProperties

LEMMA AppendJoins ==
  ASSUME NEW C, NEW a \in Seq(C), NEW c \in C
  PROVE  Append(a, c) = Join(a, <<c>>) /\ <<c>> \in Seq(C)
  <1>1. <<c>> \in Seq(C)
    OBVIOUS
  <1>2. Append(a, c) = a \o <<c>>
    BY AppendIsConcat
  <1> QED
    BY <1>1, <1>2 DEF Join

\* A text is what it begins with and the rest.
LEMMA FromJoins ==
  ASSUME NEW C, NEW s \in Seq(C), NEW i \in 1 .. Len(s) + 1, NEW j \in i .. Len(s) + 1
  PROVE  Join(SubSeq(s, i, j - 1), From(s, j)) = From(s, i)
  <1>1. i \in Nat /\ j \in Nat /\ Len(s) \in Nat
    OBVIOUS
  <1> DEFINE a == SubSeq(s, i, j - 1)
  <1>2. a \in Seq(C) /\ Len(a) = j - i /\ \A k \in 1 .. j - i : a[k] = s[i + k - 1]
    <2>1. j - i \in Nat /\ i + (j - i) <= Len(s) + 1 /\ i + (j - i) - 1 = j - 1
      BY <1>1
    <2> QED
      BY <2>1, PieceIs
  <1>3. /\ From(s, i) \in Seq(C) /\ Len(From(s, i)) = Len(s) + 1 - i
        /\ \A k \in 1 .. Len(s) + 1 - i : From(s, i)[k] = s[i + k - 1]
    BY FromIs
  <1>4. /\ From(s, j) \in Seq(C) /\ Len(From(s, j)) = Len(s) + 1 - j
        /\ \A k \in 1 .. Len(s) + 1 - j : From(s, j)[k] = s[j + k - 1]
    <2>1. j \in 1 .. Len(s) + 1
      BY <1>1
    <2> QED
      BY <2>1, FromIs
  <1> HIDE DEF a
  <1> DEFINE b == Join(a, From(s, j))
  <1>5. /\ b \in Seq(C) /\ Len(b) = Len(a) + Len(From(s, j))
        /\ \A k \in 1 .. Len(a) + Len(From(s, j)) :
              b[k] = IF k <= Len(a) THEN a[k] ELSE From(s, j)[k - Len(a)]
    BY <1>2, <1>4, JoinIs
  <1> HIDE DEF b
  <1>6. Len(b) = Len(s) + 1 - i
    BY <1>1, <1>2, <1>4, <1>5, SMTT(60)
  <1>7. ASSUME NEW k \in 1 .. Len(s) + 1 - i PROVE b[k] = From(s, i)[k]
    <2>1. b[k] = IF k <= j - i THEN a[k] ELSE From(s, j)[k - (j - i)]
      BY <1>1, <1>2, <1>4, <1>5
    <2>2. CASE k <= j - i
      BY <1>1, <1>2, <1>3, <2>1, <2>2
    <2>3. CASE ~(k <= j - i)
      <3>1. k - (j - i) \in 1 .. Len(s) + 1 - j /\ j + (k - (j - i)) - 1 = i + k - 1
        BY <1>1, <2>3
      <3> QED
        BY <1>3, <1>4, <2>1, <2>3, <3>1
    <2> QED
      BY <2>2, <2>3
  <1>8. b = From(s, i)
    BY <1>3, <1>5, <1>6, <1>7, SeqEqual
  <1> QED
    BY <1>8 DEF b, a

\* One character more.
LEMMA OneMore ==
  ASSUME NEW C, NEW s \in Seq(C), NEW i \in 1 .. Len(s), NEW j \in i .. Len(s)
  PROVE  Append(SubSeq(s, i, j - 1), s[j]) = SubSeq(s, i, j)
  <1>1. i \in Nat /\ j \in Nat /\ Len(s) \in Nat
    OBVIOUS
  <1> DEFINE a == SubSeq(s, i, j - 1)
             b == SubSeq(s, i, j)
  <1>2. a \in Seq(C) /\ Len(a) = j - i /\ \A k \in 1 .. j - i : a[k] = s[i + k - 1]
    <2>1. j - i \in Nat /\ i + (j - i) <= Len(s) + 1 /\ i + (j - i) - 1 = j - 1
      BY <1>1
    <2> QED
      BY <2>1, PieceIs
  <1>3. b \in Seq(C) /\ Len(b) = j - i + 1 /\ \A k \in 1 .. j - i + 1 : b[k] = s[i + k - 1]
    <2>1. j - i + 1 \in Nat /\ i + (j - i + 1) <= Len(s) + 1 /\ i + (j - i + 1) - 1 = j
      BY <1>1
    <2> QED
      BY <2>1, PieceIs
  <1>4. s[j] \in C
    BY <1>1
  <1> HIDE DEF a, b
  <1> DEFINE c == s[j]
  <1> HIDE DEF c
  <1>5. /\ Append(a, c) \in Seq(C) /\ Len(Append(a, c)) = j - i + 1
        /\ \A k \in 1 .. j - i : Append(a, c)[k] = a[k]
        /\ Append(a, c)[j - i + 1] = s[j]
    <2>1. c \in C /\ c = s[j]
      BY <1>4 DEF c
    <2>2. /\ Append(a, c) \in Seq(C) /\ Len(Append(a, c)) = Len(a) + 1
          /\ \A k \in 1 .. Len(a) : Append(a, c)[k] = a[k]
          /\ Append(a, c)[Len(a) + 1] = c
      <3>1. a \in Seq(C) /\ c \in C
        BY <1>2, <2>1
      <3> QED
        BY <3>1, AppendIs
    <2> QED
      BY <1>2, <2>1, <2>2
  <1>6. ASSUME NEW k \in 1 .. j - i + 1 PROVE Append(a, c)[k] = b[k]
    <2>1. CASE k = j - i + 1
      BY <1>1, <1>3, <1>5, <2>1
    <2>2. CASE k # j - i + 1
      BY <1>1, <1>2, <1>3, <1>5, <2>2
    <2> QED
      BY <2>1, <2>2
  <1>7. Append(a, c) = b
    BY <1>3, <1>5, <1>6, SeqEqual
  <1> QED
    BY <1>7 DEF a, b, c

LEMMA FromStep ==
  ASSUME NEW C, NEW s \in Seq(C), NEW i \in 1 .. Len(s)
  PROVE  From(s, i) = Join(<<s[i]>>, From(s, i + 1))
  <1>1. i \in 1 .. Len(s) + 1 /\ i + 1 \in i .. Len(s) + 1 /\ (i + 1) - 1 = i
    OBVIOUS
  <1>2. SubSeq(s, i, i) = <<s[i]>>
    BY OneOf
  <1>3. Join(SubSeq(s, i, (i + 1) - 1), From(s, i + 1)) = From(s, i)
    BY <1>1, FromJoins
  <1> QED
    BY <1>1, <1>2, <1>3

-----------------------------------------------------------------------------
(* fs_ReadFile *)

Ended(ls) == [j \in 1 .. Len(ls) |-> Append(ls[j], "\n")]

LEMMA EndedIs ==
  ASSUME NEW C, "\n" \in C, NEW ls \in Seq(Seq(C))
  PROVE  Ended(ls) \in Seq(Seq(C)) /\ Len(Ended(ls)) = Len(ls)
  <1>1. Len(ls) \in Nat /\ \A j \in 1 .. Len(ls) : ls[j] \in Seq(C)
    OBVIOUS
  <1>2. \A j \in 1 .. Len(ls) : Append(ls[j], "\n") \in Seq(C)
    BY <1>1, AppendProperties
  <1> QED
    BY <1>1, <1>2 DEF Ended

LEMMA EndedCons ==
  ASSUME NEW C, "\n" \in C, NEW a \in Seq(C), NEW ls \in Seq(Seq(C))
  PROVE  Ended(<<a>> \o ls) = <<Append(a, "\n")>> \o Ended(ls)
  <1> DEFINE n == Len(ls)
             x == <<a>> \o ls
             b == Append(a, "\n")
             y == <<b>> \o Ended(ls)
  <1>1. n \in Nat /\ x \in Seq(Seq(C)) /\ Len(x) = n + 1 /\ x[1] = a
        /\ \A i \in 1 .. n : x[i + 1] = ls[i]
    OBVIOUS
  <1>2. b \in Seq(C)
    BY AppendProperties
  <1>3. Ended(ls) \in Seq(Seq(C)) /\ Len(Ended(ls)) = n
      /\ \A i \in 1 .. n : Ended(ls)[i] = Append(ls[i], "\n")
    BY EndedIs DEF Ended
  <1> HIDE DEF b
  <1>4. y \in Seq(Seq(C)) /\ Len(y) = n + 1 /\ y[1] = b /\ \A i \in 1 .. n : y[i + 1] = Ended(ls)[i]
    <2> DEFINE m == Ended(ls)
    <2>1. m \in Seq(Seq(C)) /\ Len(m) = n
      BY <1>3
    <2> HIDE DEF m, n
    <2>2. <<b>> \in Seq(Seq(C)) /\ Len(<<b>>) = 1 /\ <<b>>[1] = b
      BY <1>2
    <2>3. /\ <<b>> \o m \in Seq(Seq(C)) /\ Len(<<b>> \o m) = n + 1 /\ (<<b>> \o m)[1] = b
          /\ \A i \in 1 .. n : (<<b>> \o m)[i + 1] = m[i]
      BY <1>1, <1>2, <2>1
    <2> QED
      BY <2>3 DEF m
  <1> HIDE DEF x, y, n
  <1>5. Ended(x) \in Seq(Seq(C)) /\ Len(Ended(x)) = n + 1
      /\ \A i \in 1 .. n + 1 : Ended(x)[i] = Append(x[i], "\n")
    BY <1>1, EndedIs DEF Ended
  <1>6. ASSUME NEW i \in 1 .. n + 1 PROVE Ended(x)[i] = y[i]
    <2>1. CASE i = 1
      BY <1>1, <1>4, <1>5, <2>1 DEF b
    <2>2. CASE i # 1
      <3>1. i - 1 \in 1 .. n /\ (i - 1) + 1 = i
        BY <1>1, <2>2
      <3>2. x[i] = ls[i - 1] /\ y[i] = Ended(ls)[i - 1]
        BY <1>1, <1>4, <3>1
      <3> QED
        BY <1>3, <1>5, <3>1, <3>2
    <2> QED
      BY <2>1, <2>2
  <1>7. Ended(x) = y
    BY <1>4, <1>5, <1>6, SeqEqual
  <1> QED
    BY <1>7 DEF x, y, b

LEMMA EndedAppend ==
  ASSUME NEW C, "\n" \in C, NEW a \in Seq(C), NEW ls \in Seq(Seq(C))
  PROVE  Ended(Append(ls, a)) = Append(Ended(ls), Append(a, "\n"))
  <1> DEFINE n == Len(ls)
             x == Append(ls, a)
             b == Append(a, "\n")
             y == Append(Ended(ls), b)
  <1>1. n \in Nat /\ x \in Seq(Seq(C)) /\ Len(x) = n + 1 /\ x[n + 1] = a
        /\ \A i \in 1 .. n : x[i] = ls[i]
    BY AppendProperties
  <1>2. b \in Seq(C)
    BY AppendProperties
  <1>3. Ended(ls) \in Seq(Seq(C)) /\ Len(Ended(ls)) = n
      /\ \A i \in 1 .. n : Ended(ls)[i] = Append(ls[i], "\n")
    BY EndedIs DEF Ended
  <1> HIDE DEF b
  <1>4. y \in Seq(Seq(C)) /\ Len(y) = n + 1 /\ y[n + 1] = b /\ \A i \in 1 .. n : y[i] = Ended(ls)[i]
    BY <1>2, <1>3, AppendProperties
  <1> HIDE DEF x, y, n
  <1>5. Ended(x) \in Seq(Seq(C)) /\ Len(Ended(x)) = n + 1
      /\ \A i \in 1 .. n + 1 : Ended(x)[i] = Append(x[i], "\n")
    BY <1>1, EndedIs DEF Ended
  <1>6. ASSUME NEW i \in 1 .. n + 1 PROVE Ended(x)[i] = y[i]
    <2>1. CASE i = n + 1
      BY <1>1, <1>4, <1>5, <2>1 DEF b
    <2>2. CASE i # n + 1
      <3>1. i \in 1 .. n
        BY <1>1, <2>2
      <3> QED
        BY <1>1, <1>3, <1>4, <1>5, <3>1
    <2> QED
      BY <2>1, <2>2
  <1>7. Ended(x) = y
    BY <1>4, <1>5, <1>6, SeqEqual
  <1> QED
    BY <1>7 DEF x, y, b

\* What the lines from position i on are, put together with their ends.
LinesGive(C, s, i, ls) ==
    /\ ls \in Seq(Seq(C))
    /\ Flat(Ended(ls)) = IF i = Len(s) + 1 THEN << >>
                         ELSE IF s[Len(s)] = "\n" THEN From(s, i) ELSE Append(From(s, i), "\n")

\* By going down from the end: with their ends the lines are the text.
LEMMA LinesGiveText ==
  ASSUME NEW C, "\n" \in C, NEW s \in Seq(C)
  PROVE  LinesGive(C, s, 1, Strings!Getlines(s))
  <1> DEFINE n == Len(s) + 1
  <1>1. n \in Nat /\ Len(s) \in Nat /\ n - 1 = Len(s) /\ n > 0
    OBVIOUS
  <1>2. PICK f : /\ Strings!Getlines(s) = f[1] /\ f[n] = << >>
                 /\ \A i \in 1 .. Len(s) :
                       f[i] = IF Next1(s, i, "\n") = 0 THEN <<From(s, i)>>
                              ELSE <<SubSeq(s, i, i + Next1(s, i, "\n") - 2)>> \o f[i + Next1(s,
                                  i, "\n")]
    BY LinesAre
  <1> DEFINE T == {k \in Nat : k < n /\ ~LinesGive(C, s, n - k, f[n - k])}
  <1>3. SUFFICES ASSUME T # {} PROVE FALSE
    <2>1. n - 1 \in Nat /\ n - 1 < n /\ n - (n - 1) = 1
      BY <1>1
    <2>2. n - 1 \notin T => LinesGive(C, s, 1, f[1])
      BY <2>1
    <2> HIDE DEF T
    <2> QED
      BY <1>2, <2>2
  <1>4. PICK k \in T : \A y \in T : k <= y
    BY <1>3, LeastOf
  <1> DEFINE i == n - k
             e == Next1(s, i, "\n")
  <1>5. k \in Nat /\ k < n /\ ~LinesGive(C, s, i, f[i]) /\ i \in 1 .. n
    BY <1>1, <1>4
  <1>6. ASSUME NEW j \in i + 1 .. n PROVE LinesGive(C, s, j, f[j])
    <2>1. n - j \in Nat /\ n - j < n /\ ~(k <= n - j) /\ n - (n - j) = j
      BY <1>1, <1>5
    <2>2. n - j \notin T
      BY <1>4, <2>1
    <2> QED
      BY <2>1, <2>2
  <1> HIDE DEF T
  <1>7. CASE i = n
    <2>1. << >> \in Seq(Seq(C)) /\ Ended(<< >>) = << >>
      BY DEF Ended
    <2>2. f[i] = << >>
      BY <1>2, <1>7
    <2>3. LinesGive(C, s, i, << >>)
      BY <1>7, <2>1, FlatOfNone DEF LinesGive
    <2> QED
      BY <1>5, <2>2, <2>3
  <1>8. CASE i # n
    <2> HIDE DEF i
    <2>1. i \in 1 .. Len(s) /\ i \in 1 .. Len(s) + 1 /\ i \in Nat
      BY <1>1, <1>5, <1>8
    <2>2. /\ e \in Nat
          /\ e = 0 => \A j \in i .. Len(s) : s[j] # "\n"
          /\ e # 0 => i + e <= n /\ s[i + e - 1] = "\n"
      BY <2>1, NextIs
    <2>3. f[i] = IF e = 0 THEN <<From(s, i)>> ELSE <<SubSeq(s, i, i + e - 2)>> \o f[i + e]
      BY <1>2, <2>1
    <2> HIDE DEF e
    <2>4. From(s, i) \in Seq(C)
      BY <2>1, FromIs
    <2>5. CASE e = 0
      <3>1. f[i] = <<From(s, i)>> /\ s[Len(s)] # "\n"
        BY <2>1, <2>2, <2>3, <2>5
      <3> DEFINE t == From(s, i)
      <3>2. <<t>> \in Seq(Seq(C)) /\ Ended(<<t>>) = <<Append(t, "\n")>>
          /\ Append(t, "\n") \in Seq(C)
        <4> HIDE DEF t
        <4>1. <<t>> \in Seq(Seq(C)) /\ Len(<<t>>) = 1 /\ <<t>>[1] = t
          BY <2>4 DEF t
        <4>2. Append(t, "\n") \in Seq(C)
          BY <2>4, AppendProperties DEF t
        <4> QED
          BY <4>1, <4>2 DEF Ended
      <3>3. Flat(Ended(<<t>>)) = Append(t, "\n")
        BY <3>2, FlatOfOne
      <3>4. LinesGive(C, s, i, <<t>>)
        BY <1>1, <2>1, <3>1, <3>2, <3>3 DEF LinesGive
      <3> QED
        BY <1>5, <3>1, <3>4 DEF i
    <2>6. CASE e # 0
      <3> DEFINE line == SubSeq(s, i, i + e - 2)
                 whole == SubSeq(s, i, i + e - 1)
                 more == f[i + e]
      <3>1. i + e \in i + 1 .. n /\ i + e - 1 \in i .. Len(s) /\ (i + e - 1) - 1 = i + e - 2
        BY <1>1, <2>1, <2>2, <2>6
      <3>2. line \in Seq(C) /\ Append(line, "\n") = whole
        <4>1. e - 1 \in Nat /\ i + (e - 1) <= Len(s) + 1 /\ i + (e - 1) - 1 = i + e - 2
          BY <1>1, <2>1, <2>2, <2>6, <3>1
        <4>2. line \in Seq(C)
          BY <2>1, <4>1, PieceIs
        <4>3. Append(SubSeq(s, i, (i + e - 1) - 1), s[i + e - 1]) = whole
          BY <2>1, <3>1, OneMore
        <4> QED
          BY <2>2, <2>6, <3>1, <4>2, <4>3
      <3>3. whole \in Seq(C)
        BY <3>2, AppendProperties
      <3>4. LinesGive(C, s, i + e, more)
        <4>1. i + e \in (n - k) + 1 .. n
          BY <3>1 DEF i
        <4> QED
          BY <1>6, <4>1 DEF i
      <3>5. Join(whole, From(s, i + e)) = From(s, i)
        <4>1. i + e \in i .. Len(s) + 1 /\ (i + e) - 1 = i + e - 1
          BY <1>1, <2>1, <2>2, <3>1
        <4> QED
          BY <2>1, <4>1, FromJoins
      <3>6. f[i] = <<line>> \o more
        BY <2>3, <2>6
      <3>7. more \in Seq(Seq(C)) /\ Ended(more) \in Seq(Seq(C))
        BY <3>4, EndedIs DEF LinesGive
      <3> HIDE DEF line, whole, more
      <3>8. f[i] \in Seq(Seq(C))
        BY <3>2, <3>6, <3>7
      <3>9. Flat(Ended(f[i])) = Join(whole, Flat(Ended(more)))
        <4>1. Ended(<<line>> \o more) = <<whole>> \o Ended(more)
          BY <3>2, <3>7, EndedCons
        <4>2. Flat(<<whole>> \o Ended(more)) = Join(whole, Flat(Ended(more)))
          BY <3>3, <3>7, FlatCons
        <4> QED
          BY <3>6, <4>1, <4>2
      <3>10. CASE i + e = n
        <4>1. Flat(Ended(more)) = << >>
          BY <3>4, <3>10 DEF LinesGive
        <4>2. From(s, n) = << >>
          <5>1. n \in 1 .. Len(s) + 1
            BY <1>1
          <5> QED
            BY <5>1, FromIs
        <4>3. Flat(Ended(f[i])) = From(s, i)
          BY <3>5, <3>9, <3>10, <4>1, <4>2
        <4>4. s[Len(s)] = "\n"
          BY <1>1, <2>1, <2>2, <2>6, <3>10
        <4>5. LinesGive(C, s, i, f[i])
          BY <1>8, <3>8, <4>3, <4>4 DEF LinesGive
        <4> QED
          BY <1>5, <4>5 DEF i
      <3>11. CASE i + e # n /\ s[Len(s)] = "\n"
        <4>1. Flat(Ended(more)) = From(s, i + e)
          BY <3>4, <3>11 DEF LinesGive
        <4>2. LinesGive(C, s, i, f[i])
          BY <1>8, <3>5, <3>8, <3>9, <3>11, <4>1 DEF LinesGive
        <4> QED
          BY <1>5, <4>2 DEF i
      <3>12. CASE i + e # n /\ s[Len(s)] # "\n"
        <4> DEFINE r == From(s, i + e)
        <4>1. Flat(Ended(more)) = Append(r, "\n")
          BY <3>4, <3>12 DEF LinesGive
        <4>2. r \in Seq(C)
          <5>1. i + e \in 1 .. Len(s) + 1
            BY <2>1, <3>1
          <5> QED
            BY <5>1, FromIs
        <4> HIDE DEF r
        <4> DEFINE nl == <<"\n">>
        <4>3. Append(r, "\n") = Join(r, nl) /\ nl \in Seq(C)
          BY <4>2, AppendJoins
        <4>5. Append(From(s, i), "\n") = Join(From(s, i), nl)
          BY <2>4, AppendJoins
        <4> HIDE DEF nl
        <4>4. Join(Join(whole, r), nl) = Join(whole, Join(r, nl))
          BY <3>3, <4>2, <4>3, JoinAssociates
        <4>8. Join(whole, r) = From(s, i)
          BY <3>5 DEF r
        <4>6. Flat(Ended(f[i])) = Append(From(s, i), "\n")
          BY <3>9, <4>1, <4>3, <4>4, <4>5, <4>8
        <4>7. LinesGive(C, s, i, f[i])
          BY <1>8, <3>8, <3>12, <4>6 DEF LinesGive
        <4> QED
          BY <1>5, <4>7 DEF i
      <3> QED
        BY <3>10, <3>11, <3>12
    <2> QED
      BY <2>5, <2>6
  <1> QED
    BY <1>7, <1>8

\* The file is given back with a line's end more.
LEMMA FileKept ==
  ASSUME NEW C, "\n" \in C, NEW s \in Seq(C)
  PROVE  Strings!ReadFile(s) = Append(s, "\n")
  <1> DEFINE ls == Strings!Getlines(s)
             last == Strings!Last(s)
             all == IF s = << >> \/ (s # << >> /\ last = "\n") THEN Append(ls, << >>) ELSE ls
  <1>1. ls \in Seq(Seq(C)) /\ LinesGive(C, s, 1, ls)
    BY LinesGiveText DEF LinesGive
  <1>2. last = s[Len(s)]
    BY DEF Strings!Last
  <1>3. Strings!ReadFile(s) = Flat(Ended(all))
    BY DEF Strings!ReadFile, Flat, Ended
  <1>4. From(s, 1) = s
    BY SubSeqFull DEF From
  <1>5. s = << >> <=> 1 = Len(s) + 1
    <2>1. Len(s) \in Nat /\ (s = << >> <=> Len(s) = 0)
      BY EmptySeq
    <2> QED
      BY <2>1
  <1> HIDE DEF ls, last
  <1>6. << >> \in Seq(C) /\ Append(<< >>, "\n") = <<"\n">> /\ <<"\n">> \in Seq(C)
    OBVIOUS
  <1>7. Flat(Ended(Append(ls, << >>))) = Join(Flat(Ended(ls)), <<"\n">>)
    <2>1. Ended(ls) \in Seq(Seq(C))
      BY <1>1, EndedIs
    <2>2. Ended(Append(ls, << >>)) = Append(Ended(ls), <<"\n">>)
      BY <1>1, <1>6, EndedAppend
    <2> QED
      BY <1>6, <2>1, <2>2, FlatAppend
  <1>8. Append(s, "\n") = Join(s, <<"\n">>)
    BY AppendJoins
  <1>9. CASE s = << >>
    <2>1. Flat(Ended(ls)) = << >>
      BY <1>1, <1>5, <1>9 DEF LinesGive
    <2> QED
      BY <1>3, <1>7, <1>8, <1>9, <2>1
  <1>10. CASE s # << >> /\ last = "\n"
    <2>1. Flat(Ended(ls)) = s
      BY <1>1, <1>2, <1>4, <1>5, <1>10 DEF LinesGive
    <2> QED
      BY <1>3, <1>7, <1>8, <1>10, <2>1
  <1>11. CASE s # << >> /\ last # "\n"
    <2>1. Flat(Ended(ls)) = Append(s, "\n")
      BY <1>1, <1>2, <1>4, <1>5, <1>11 DEF LinesGive
    <2> QED
      BY <1>3, <1>11, <2>1
  <1> QED
    BY <1>9, <1>10, <1>11

-----------------------------------------------------------------------------
(* u_trimUrlGetName, u_trimSpace *)

\* What of a text is from a position on ends it.
LEMMA SuffixIs ==
  ASSUME NEW C, NEW s \in Seq(C), NEW i \in 1 .. Len(s) + 1
  PROVE  Strings!IsSuffix(From(s, i), s)
  <1> DEFINE t == From(s, i)
             m == Len(s) + 1 - i
             a == Strings!Reverse(t)
             b == Strings!Reverse(s)
  <1>1. /\ t \in Seq(C) /\ Len(t) = m /\ \A k \in 1 .. m : t[k] = s[i + k - 1]
        /\ m \in Nat /\ Len(s) \in Nat /\ m <= Len(s) /\ i \in Nat
    BY FromIs
  <1> HIDE DEF t
  <1>2. a = [k \in 1 .. m |-> t[m - k + 1]] /\ b = [k \in 1 .. Len(s) |-> s[Len(s) - k + 1]]
    BY <1>1 DEF Strings!Reverse
  <1>3. \A k \in 1 .. m : t[m - k + 1] \in C /\ t[m - k + 1] = s[Len(s) - k + 1]
    <2> SUFFICES ASSUME NEW k \in 1 .. m PROVE t[m - k + 1] \in C
        /\ t[m - k + 1] = s[Len(s) - k + 1]
      OBVIOUS
    <2>1. m - k + 1 \in 1 .. m /\ i + (m - k + 1) - 1 = Len(s) - k + 1
      BY <1>1
    <2>2. t[m - k + 1] = s[i + (m - k + 1) - 1]
      BY <1>1, <2>1
    <2> QED
      BY <1>1, <2>1, <2>2
  <1>4. \A k \in 1 .. Len(s) : s[Len(s) - k + 1] \in C
    BY <1>1
  <1> HIDE DEF m, a, b
  <1>5. a \in Seq(C) /\ Len(a) = m /\ \A k \in 1 .. m : a[k] = t[m - k + 1]
    <2>1. a \in [1 .. m -> C] /\ \A k \in 1 .. m : a[k] = t[m - k + 1]
      BY <1>2, <1>3
    <2> QED
      BY <1>1, <2>1, SeqDef
  <1>6. b \in Seq(C) /\ Len(b) = Len(s) /\ \A k \in 1 .. Len(s) : b[k] = s[Len(s) - k + 1]
    BY <1>1, <1>2, <1>4
  <1> DEFINE c == SubSeq(b, 1, m)
  <1>7. c \in Seq(C) /\ Len(c) = m /\ \A k \in 1 .. m : c[k] = b[k]
    BY <1>1, <1>6
  <1> HIDE DEF c
  <1>8. ASSUME NEW k \in 1 .. m PROVE a[k] = c[k]
    <2>1. k \in 1 .. Len(s)
      BY <1>1
    <2> QED
      BY <1>3, <1>5, <1>6, <1>7, <2>1
  <1>9. a = c
    BY <1>5, <1>7, <1>8, SeqEqual
  <1>10. SubSeq(a, 1, m) = a
    BY <1>5, SubSeqFull
  <1>11. Strings!IsPrefix(a, b)
    BY <1>1, <1>5, <1>6, <1>9, <1>10 DEF Strings!IsPrefix, c
  <1> QED
    BY <1>11 DEF Strings!IsSuffix, a, b, t

\* substr without an end.
LEMMA RestIs ==
  ASSUME NEW C, NEW s \in Seq(C), NEW i \in 1 .. Len(s) + 1
  PROVE  Strings!Substr(s, i, Len(s)) = From(s, i)
  <1>1. i \in Nat /\ Len(s) \in Nat /\ ~(i > Len(s) + 1) /\ ~(i + Len(s) - 1 < Len(s))
    OBVIOUS
  <1> QED
    BY <1>1 DEF Strings!Substr, From

\* The name of the package.
LEMMA UrlNameIs ==
  ASSUME NEW C, NEW s \in Seq(C), Throws \notin Seq(C)
  PROVE  LET name == Strings!UrlName(s) IN
         /\ name # Throws /\ \A i \in 1 .. Len(name) : name[i] # "/"
         /\ Strings!IsSuffix(name, s)
         /\ (name = s \/ s[Len(s) - Len(name)] = "/")
  <1> DEFINE T == Strings!Positions(s, LAMBDA c : c = "/")
             st == IF T = {} THEN 1 ELSE Strings!Max(T) + 1
             name == Strings!UrlName(s)
  <1>1. T = {i \in 1 .. Len(s) : s[i] = "/"}
    BY DEF Strings!Positions
  <1>2. name = Strings!Substr(s, st, Len(s))
    BY DEF Strings!UrlName
  <1>3. Len(s) \in Nat
    OBVIOUS
  <1> HIDE DEF T, name
  <1>4. /\ st \in 1 .. Len(s) + 1 /\ \A i \in st .. Len(s) : s[i] # "/"
        /\ st = 1 \/ (st - 1 \in 1 .. Len(s) /\ s[st - 1] = "/")
    <2>1. CASE T = {}
      <3>1. \A i \in 1 .. Len(s) : s[i] # "/"
        BY <1>1, <2>1
      <3> QED
        BY <1>3, <2>1, <3>1
    <2>2. CASE T # {}
      <3> DEFINE e == Strings!Max(T)
      <3>1. e \in T /\ \A y \in T : y <= e
        BY <1>1, <1>3, <2>2, EndsOfPositions
      <3> HIDE DEF e
      <3>2. st = e + 1 /\ e \in 1 .. Len(s) /\ s[e] = "/"
        BY <1>1, <2>2, <3>1 DEF e
      <3>3. ASSUME NEW i \in e + 1 .. Len(s) PROVE s[i] # "/"
        <4>1. i \in 1 .. Len(s) /\ ~(i <= e)
          BY <1>3, <3>2
        <4> QED
          BY <1>1, <3>1, <4>1
      <3> HIDE DEF st
      <3> QED
        BY <1>3, <3>2, <3>3
    <2> QED
      BY <2>1, <2>2
  <1> HIDE DEF st
  <1>5. name = From(s, st)
    BY <1>2, <1>4, RestIs
  <1>6. /\ name \in Seq(C) /\ Len(name) = Len(s) + 1 - st
        /\ \A k \in 1 .. Len(s) + 1 - st : name[k] = s[st + k - 1]
    BY <1>4, <1>5, FromIs
  <1>7. ASSUME NEW i \in 1 .. Len(name) PROVE name[i] # "/"
    <2>1. st + i - 1 \in st .. Len(s) /\ i \in 1 .. Len(s) + 1 - st
      BY <1>3, <1>4, <1>6
    <2> QED
      BY <1>4, <1>6, <2>1
  <1>8. name = s \/ s[Len(s) - Len(name)] = "/"
    <2>1. CASE st = 1
      BY <1>5, <2>1, SubSeqFull DEF From
    <2>2. CASE st # 1
      <3>1. Len(s) - Len(name) = st - 1
        BY <1>3, <1>4, <1>6
      <3> QED
        BY <1>4, <2>2, <3>1
    <2> QED
      BY <2>1, <2>2
  <1>9. Strings!IsSuffix(name, s)
    BY <1>4, <1>5, SuffixIs
  <1> QED
    BY <1>6, <1>7, <1>8, <1>9 DEF name

\* What trimming leaves.
LEMMA TrimIs ==
  ASSUME NEW C, Strings!Space \in C, NEW s \in Seq(C)
  PROVE  LET solid == {i \in 1 .. Len(s) : s[i] # Strings!Space}
             core == SubSeq(s, Strings!Min(solid), Strings!Max(solid))
         IN  IF solid = {} THEN Strings!TrimSpace(s) = Throws
             ELSE \E n \in 0 .. Strings!Min(solid) - 1 :
                    Strings!TrimSpace(s) = core \o [i \in 1 .. n |-> Strings!Space]
  <1> DEFINE T == {i \in 1 .. Len(s) : s[i] # Strings!Space}
             a == Strings!Min(T)
             b == Strings!Max(T)
             e == IF a + b - 1 < Len(s) THEN a + b - 1 ELSE Len(s)
             n == e - b
             blank == [i \in 1 .. n |-> Strings!Space]
             core == SubSeq(s, a, b)
  <1>1. T = Strings!Positions(s, LAMBDA c : c # Strings!Space)
    BY DEF Strings!Positions
  <1>2. Strings!TrimSpace(s) = IF T = {} THEN Throws ELSE Strings!Substr(s, a, b)
    BY <1>1 DEF Strings!TrimSpace
  <1>3. CASE T = {}
    BY <1>2, <1>3
  <1>4. CASE T # {}
    <2>1. Len(s) \in Nat
      OBVIOUS
    <2>2. T \in SUBSET (1 .. Len(s)) /\ \A i \in 1 .. Len(s) : i \notin T => s[i] = Strings!Space
      OBVIOUS
    <2> HIDE DEF T
    <2>3. a \in T /\ b \in T /\ \A y \in T : a <= y /\ y <= b
      BY <1>4, <2>1, <2>2, EndsOfPositions
    <2> HIDE DEF a, b
    <2>4. a \in 1 .. Len(s) /\ b \in a .. Len(s) /\ a \in Nat /\ b \in Nat
      BY <2>1, <2>2, <2>3
    <2>5. e \in b .. Len(s) /\ n \in 0 .. a - 1 /\ n \in Nat
      BY <2>1, <2>4
    <2>6. Strings!TrimSpace(s) = SubSeq(s, a, e)
      <3>1. ~(a > Len(s) + 1)
        BY <2>1, <2>4
      <3> QED
        BY <1>2, <1>4, <3>1 DEF Strings!Substr
    <2> HIDE DEF e
    <2>7. blank \in Seq(C) /\ Len(blank) = n /\ \A i \in 1 .. n : blank[i] = Strings!Space
      <3> HIDE DEF n
      <3> QED
        BY <2>5
    <2>8. core \in Seq(C) /\ Len(core) = b + 1 - a
        /\ \A k \in 1 .. b + 1 - a : core[k] = s[a + k - 1]
      <3>1. b + 1 - a \in Nat /\ a + (b + 1 - a) <= Len(s) + 1 /\ a + (b + 1 - a) - 1 = b
            /\ a \in 1 .. Len(s) + 1
        BY <2>1, <2>4
      <3> QED
        BY <3>1, PieceIs
    <2> DEFINE t == SubSeq(s, a, e)
    <2>9. t \in Seq(C) /\ Len(t) = e + 1 - a /\ \A k \in 1 .. e + 1 - a : t[k] = s[a + k - 1]
      <3>1. e + 1 - a \in Nat /\ a + (e + 1 - a) <= Len(s) + 1 /\ a + (e + 1 - a) - 1 = e
            /\ a \in 1 .. Len(s) + 1
        BY <2>1, <2>4, <2>5
      <3> QED
        BY <3>1, PieceIs
    <2> HIDE DEF core, blank, t
    <2> DEFINE u == Join(core, blank)
    <2>10. /\ u \in Seq(C) /\ Len(u) = Len(core) + Len(blank)
           /\ \A k \in 1 .. Len(core) + Len(blank) :
                 u[k] = IF k <= Len(core) THEN core[k] ELSE blank[k - Len(core)]
      BY <2>7, <2>8, JoinIs
    <2> HIDE DEF u
    <2>11. Len(u) = e + 1 - a
      BY <2>4, <2>5, <2>7, <2>8, <2>10, SMTT(60)
    <2>12. ASSUME NEW k \in 1 .. e + 1 - a PROVE t[k] = u[k]
      <3>1. t[k] = s[a + k - 1]
        BY <2>9
      <3>2. u[k] = IF k <= b + 1 - a THEN core[k] ELSE blank[k - (b + 1 - a)]
        BY <2>4, <2>5, <2>7, <2>8, <2>10
      <3>3. CASE k <= b + 1 - a
        <4>1. k \in 1 .. b + 1 - a
          BY <2>4, <2>5, <3>3
        <4> QED
          BY <2>8, <3>1, <3>2, <3>3, <4>1
      <3>4. CASE ~(k <= b + 1 - a)
        <4>1. k - (b + 1 - a) \in 1 .. n /\ a + k - 1 \in 1 .. Len(s) /\ ~(a + k - 1 <= b)
          BY <2>1, <2>4, <2>5, <3>4
        <4>2. s[a + k - 1] = Strings!Space
          BY <2>2, <2>3, <4>1
        <4> QED
          BY <2>7, <3>1, <3>2, <3>4, <4>1, <4>2
      <3> QED
        BY <3>3, <3>4
    <2>13. t = u
      BY <2>9, <2>10, <2>11, <2>12, SeqEqual
    <2>14. Strings!TrimSpace(s) = core \o blank
      BY <2>6, <2>13 DEF t, u, Join
    <2> QED
      BY <1>4, <2>5, <2>14 DEF blank, core, a, b, T
  <1> QED
    BY <1>3, <1>4

-----------------------------------------------------------------------------
(* u_getValueFromProcFile *)

ProcFound(lines) == {i \in 1 .. Len(lines) : Strings!FindIn(lines[i], Prefix) # 0}

\* What a line with the prefix gives.
LEMMA ValueIs ==
  ASSUME NEW C, Throws \notin Seq(C), NEW line \in Seq(C), Prefix \in Seq(C), Prefix # << >>,
         Strings!FindIn(line, Prefix) # 0
  PROVE  LET f == Strings!FindIn(line, Prefix)
             v == Strings!Value(line)
         IN  IF v = Throws THEN Strings!IsSuffix(Prefix, line)
             ELSE /\ v \in Seq(C)
                  /\ v = << >> => Len(line) = f + Len(Prefix)
                  /\ \E n \in 0 .. Len(line), c \in C :
                        line = SubSeq(line, 1, n) \o Prefix \o <<c>> \o v
  <1> DEFINE f == Strings!FindIn(line, Prefix)
             v == Strings!Value(line)
             p == Len(Prefix)
             n == Len(line)
  <1>1. Finds(line, Prefix, f)
    BY FindIs
  <1>2. f # 0 /\ v = Strings!Substr(line, f + p + 1, n)
    BY DEF Strings!Value
  <1>3. p \in Nat /\ p > 0 /\ n \in Nat
    OBVIOUS
  <1> HIDE DEF f, v
  <1>4. f \in 1 .. n - p + 1 /\ SubSeq(line, f, f + p - 1) = Prefix
    BY <1>1, <1>2 DEF Finds, StandsIn
  <1> HIDE DEF n, p
  <1>5. f \in Nat /\ f > 0 /\ f + p <= n + 1
    BY <1>3, <1>4
  <1>6. CASE f + p = n + 1
    <2>1. f + p + 1 > n + 1 /\ f + p - 1 = n
      BY <1>3, <1>5, <1>6
    <2>2. v = Throws
      BY <1>2, <2>1 DEF Strings!Substr, n
    <2>3. f \in 1 .. Len(line) + 1
      BY <1>3, <1>5 DEF n
    <2>4. From(line, f) = Prefix
      BY <1>4, <2>1 DEF From, n
    <2>5. Strings!IsSuffix(Prefix, line)
      BY <2>3, <2>4, SuffixIs
    <2> QED
      BY <2>2, <2>5 DEF v
  <1>7. CASE f + p # n + 1
    <2>1. f + p <= n /\ f + p + 1 \in 1 .. n + 1 /\ f + p \in 1 .. n /\ f \in 1 .. n + 1
          /\ f + p \in f .. n + 1 /\ 1 \in 1 .. n + 1 /\ f \in 1 .. n + 1 /\ f - 1 \in 0 .. n
      BY <1>3, <1>5, <1>7
    <2>2. v = From(line, f + p + 1)
      BY <1>2, <2>1, RestIs DEF n
    <2>3. v \in Seq(C) /\ (v = << >> <=> f + p + 1 = n + 1) /\ v # Throws
      BY <2>1, <2>2, FromIs DEF n
    <2>4. v = << >> => n = f + p
      BY <1>3, <1>5, <2>3
    <2> DEFINE c == line[f + p]
               a == SubSeq(line, 1, f - 1)
               q == <<c>>
    <2>5. c \in C /\ q \in Seq(C)
      BY <2>1 DEF n
    <2>6. a \in Seq(C)
      BY <1>3, <1>5 DEF n
    <2>7. From(line, f + p) = Join(q, v)
      BY <2>1, <2>2, FromStep DEF n
    <2>8. From(line, f) = Join(Prefix, From(line, f + p))
      <3>1. Join(SubSeq(line, f, f + p - 1), From(line, f + p)) = From(line, f)
        <4> DEFINE j == f + p
        <4>1. f \in 1 .. Len(line) + 1 /\ j \in f .. Len(line) + 1
          BY <2>1 DEF n
        <4> HIDE DEF j
        <4>2. Join(SubSeq(line, f, j - 1), From(line, j)) = From(line, f)
          BY <4>1, FromJoins
        <4>3. f + p - 1 = j - 1
          BY <1>3, <1>5 DEF j
        <4> QED
          BY <4>2, <4>3 DEF j
      <3> QED
        BY <1>4, <3>1
    <2>9. line = Join(a, From(line, f))
      <3>1. Join(SubSeq(line, 1, f - 1), From(line, f)) = From(line, 1)
        <4>1. 1 \in 1 .. Len(line) + 1 /\ f \in 1 .. Len(line) + 1
          BY <2>1 DEF n
        <4> QED
          BY <4>1, FromJoins
      <3>2. From(line, 1) = line
        BY SubSeqFull DEF From
      <3> QED
        BY <3>1, <3>2
    <2> HIDE DEF a, q, c
    <2>10. line = Join(Join(Join(a, Prefix), q), v)
      <3>1. Join(a, Prefix) \in Seq(C) /\ Join(q, v) \in Seq(C)
        BY <2>3, <2>5, <2>6, Joined
      <3>2. Join(Join(Join(a, Prefix), q), v) = Join(Join(a, Prefix), Join(q, v))
        BY <2>3, <2>5, <3>1, JoinAssociates
      <3>3. Join(Join(a, Prefix), Join(q, v)) = Join(a, Join(Prefix, Join(q, v)))
        BY <2>6, <3>1, JoinAssociates
      <3> QED
        BY <2>7, <2>8, <2>9, <3>2, <3>3
    <2>11. line = SubSeq(line, 1, f - 1) \o Prefix \o <<c>> \o v
      BY <2>10, Zenon DEF Join, a, q
    <2>12. \E m \in 0 .. n, d \in C : line = SubSeq(line, 1, m) \o Prefix \o <<d>> \o v
      BY <2>1, <2>5, <2>11
    <2> QED
      BY <2>3, <2>4, <2>12, Zenon DEF v, f, n, p
  <1> QED
    BY <1>6, <1>7

\* The last line with the prefix counts, and nothing else.
LEMMA LastLine ==
  ASSUME NEW C, "\n" \in C, Throws \notin Seq(C), Throws # Default, NEW s \in Seq(C),
         Prefix \in Seq(C), Prefix # << >>
  PROVE  LET lines == Strings!Getlines(s)
             found == Strings!WithPrefix(lines)
             last == lines[Strings!Max(found)]
         IN  IF Strings!ProcValue(s) = Throws THEN \E i \in found : Strings!IsSuffix(Prefix,
             lines[i])
             ELSE \/ /\ Strings!ProcValue(s) = Default
                     /\ found = {} \/ Len(last) = Strings!FindIn(last, Prefix) + Len(Prefix)
                  \/ \E n \in 0 .. Len(last), c \in C :
                        last = SubSeq(last, 1, n) \o Prefix \o <<c>> \o Strings!ProcValue(s)
  <1> DEFINE lines == Strings!Getlines(s)
             found == Strings!WithPrefix(lines)
             last == lines[Strings!Max(found)]
             v == Strings!Value(last)
             value == Strings!ProcValue(s)
  <1>1. lines \in Seq(Seq(C))
    BY LinesGiveText DEF LinesGive
  <1>2. value = IF found = {} THEN Default
                ELSE IF \E i \in found : Strings!Value(lines[i]) = Throws THEN Throws
                ELSE IF v = << >> THEN Default ELSE v
    BY DEF Strings!ProcValue
  <1> HIDE DEF lines, value
  <1>3. ASSUME NEW i \in found
        PROVE  /\ lines[i] \in Seq(C)
               /\ Strings!FindIn(lines[i], Prefix) # 0
    BY <1>1 DEF Strings!WithPrefix
  <1>4. CASE found = {}
    BY <1>2, <1>4 DEF lines, value
  <1>5. CASE found # {}
    <2>1. found \in SUBSET (1 .. Len(lines)) /\ Len(lines) \in Nat
      BY <1>1 DEF Strings!WithPrefix
    <2> HIDE DEF found
    <2>2. Strings!Max(found) \in found
      BY <1>5, <2>1, EndsOfPositions
    <2>3. CASE \E i \in found : Strings!Value(lines[i]) = Throws
      <3>1. PICK i \in found : Strings!Value(lines[i]) = Throws
        BY <2>3
      <3>2. Strings!IsSuffix(Prefix, lines[i])
        BY <1>3, <3>1, ValueIs
      <3>3. value = Throws
        BY <1>2, <1>5, <2>3
      <3> QED
        BY <3>2, <3>3 DEF found, lines, value
    <2>4. CASE ~ \E i \in found : Strings!Value(lines[i]) = Throws
      <3>1. last \in Seq(C) /\ Strings!FindIn(last, Prefix) # 0 /\ v # Throws
        BY <1>3, <2>2, <2>4
      <3> HIDE DEF last
      <3>2. /\ v \in Seq(C)
            /\ v = << >> => Len(last) = Strings!FindIn(last, Prefix) + Len(Prefix)
            /\ \E n \in 0 .. Len(last), c \in C : last = SubSeq(last, 1, n) \o Prefix \o <<c>> \o v
        BY <3>1, ValueIs
      <3>3. value = IF v = << >> THEN Default ELSE v
        BY <1>2, <1>5, <2>4
      <3> HIDE DEF v
      <3>4. value # Throws
        BY <3>1, <3>3
      <3>5. \/ value = Default /\ Len(last) = Strings!FindIn(last, Prefix) + Len(Prefix)
            \/ \E n \in 0 .. Len(last),
                 c \in C : last = SubSeq(last, 1, n) \o Prefix \o <<c>> \o value
        <4>1. CASE v = << >>
          BY <3>2, <3>3, <4>1
        <4>2. CASE v # << >>
          <5>1. value = v
            BY <3>3, <4>2
          <5> QED
            BY <3>2, <5>1
        <4> QED
          BY <4>1, <4>2
      <3> QED
        BY <3>4, <3>5, Zenon DEF found, lines, value, last
    <2> QED
      BY <2>3, <2>4
  <1> QED
    BY <1>4, <1>5

-----------------------------------------------------------------------------
(* u_split *)

AsToken(t) == IF t = << >> THEN << >> ELSE <<t>>

SplitUp(f, s) ==
    f = [start \in 1 .. Len(s) + 1 |->
          LET rest == SubSeq(s, start, Len(s))
              end == IF Strings!Skip = 0 THEN 0 ELSE Strings!FindIn(rest, <<"/">>)
              token == IF end = 0 THEN rest ELSE SubSeq(rest, 1, end - 1)
              kept == IF token = << >> THEN << >> ELSE <<token>>
          IN  IF end = 0 THEN kept ELSE kept \o f[start + end - 1 + Strings!Skip]]

Token(s, i) ==
    IF Next1(s, i, "/") = 0 THEN From(s, i) ELSE SubSeq(s, i, i + Next1(s, i, "/") - 2)

\* u_split's recursion gives the tokens from each position on.
LEMMA TokensAre ==
  ASSUME NEW C, "/" \in C, NEW s \in Seq(C)
  PROVE  \E f : /\ Strings!Split(s, "/") = f[1]
                /\ \A i \in 1 .. Len(s) + 1 :
                      f[i] = IF Next1(s, i, "/") = 0 THEN AsToken(Token(s, i))
                             ELSE AsToken(Token(s, i)) \o f[i + Next1(s, i, "/")]
  <1> DEFINE n == Len(s) + 1
             N(i) == Next1(s, i, "/")
             tok(i) == IF N(i) = 0 THEN From(s, i) ELSE SubSeq(From(s, i), 1, N(i) - 1)
             next == [i \in 1 .. n |-> IF N(i) = 0 THEN 0 ELSE i + N(i)]
             head == [i \in 1 .. n |-> AsToken(tok(i))]
             f == CHOOSE g : SplitUp(g, s)
  <1>1. n \in Nat /\ Len(s) \in Nat /\ n - 1 = Len(s)
    OBVIOUS
  <1>2. ASSUME NEW i \in 1 .. n PROVE N(i) \in Nat /\ (N(i) # 0 => i + N(i) <= n)
    BY <1>1, NextIs
  <1>3. ASSUME NEW i \in 1 .. n PROVE tok(i) = Token(s, i)
    <2>1. CASE N(i) = 0
      BY <2>1 DEF Token
    <2>2. CASE N(i) # 0
      <3>1. N(i) - 1 \in Nat /\ i + (N(i) - 1) <= Len(s) + 1 /\ i + (N(i) - 1) - 1 = i + N(i) - 2
            /\ i \in 1 .. Len(s) + 1
        BY <1>1, <1>2, <2>2
      <3>2. SubSeq(From(s, i), 1, N(i) - 1) = SubSeq(s, i, i + (N(i) - 1) - 1)
        BY <3>1, PieceIs
      <3> QED
        BY <2>2, <3>1, <3>2 DEF Token
    <2> QED
      BY <2>1, <2>2
  <1> HIDE DEF N, tok
  <1>4. \A i \in 1 .. n : next[i] = 0 \/ next[i] \in i + 1 .. n
    <2> SUFFICES ASSUME NEW i \in 1 .. n PROVE next[i] = 0 \/ next[i] \in i + 1 .. n
      OBVIOUS
    <2>1. next[i] = IF N(i) = 0 THEN 0 ELSE i + N(i)
      OBVIOUS
    <2> HIDE DEF next, n
    <2> QED
      BY <1>1, <1>2, <2>1
  <1>5. \A i \in 1 .. n : next[i] = (IF N(i) = 0 THEN 0 ELSE i + N(i)) /\ head[i] = AsToken(tok(i))
    OBVIOUS
  <1> HIDE DEF next, head
  <1>6. PICK g : UpFrom(g, 1, n, next, head, head)
    BY <1>1, <1>4, UpExists
  <1>7. ASSUME NEW i \in 1 .. n
        PROVE  g[i] = IF N(i) = 0 THEN AsToken(tok(i)) ELSE AsToken(tok(i)) \o g[i + N(i)]
    <2>1. g[i] = IF next[i] = 0 THEN head[i] ELSE head[i] \o g[next[i]]
      BY <1>6 DEF UpFrom
    <2>2. i + N(i) # 0
      BY <1>2
    <2> HIDE DEF n
    <2> QED
      BY <1>5, <2>1, <2>2
  <1>8. ASSUME NEW i \in 1 .. n
        PROVE  /\ (IF Strings!Skip = 0 THEN 0 ELSE Strings!FindIn(SubSeq(s, i, Len(s)),
                    <<"/">>)) = N(i)
               /\ i + N(i) - 1 + Strings!Skip = i + N(i)
    <2>1. Strings!FindIn(SubSeq(s, i, Len(s)), <<"/">>) = N(i)
      BY DEF N, Next1, From
    <2>2. Strings!Skip = 1
      BY DEF Strings!Skip
    <2>3. i + N(i) - 1 + 1 = i + N(i)
      BY <1>2
    <2> QED
      BY <2>1, <2>2, <2>3
  <1> DEFINE turn(h, i) ==
               LET rest == SubSeq(s, i, Len(s))
                   end == IF Strings!Skip = 0 THEN 0 ELSE Strings!FindIn(rest, <<"/">>)
                   token == IF end = 0 THEN rest ELSE SubSeq(rest, 1, end - 1)
                   kept == IF token = << >> THEN << >> ELSE <<token>>
               IN  IF end = 0 THEN kept ELSE kept \o h[i + end - 1 + Strings!Skip]
  <1>9. ASSUME NEW h, NEW i \in 1 .. n
        PROVE  turn(h, i) = IF N(i) = 0 THEN AsToken(tok(i)) ELSE AsToken(tok(i)) \o h[i + N(i)]
    BY <1>8 DEF tok, AsToken, From
  <1>10. \A h : SplitUp(h, s) <=> h = [i \in 1 .. n |-> turn(h, i)]
    BY DEF SplitUp
  <1> HIDE DEF turn
  <1>11. SplitUp(g, s)
    <2>1. g = [i \in 1 .. n |-> g[i]]
      BY <1>6 DEF UpFrom
    <2>2. \A i \in 1 .. n : g[i] = turn(g, i)
      BY <1>7, <1>9
    <2>3. g = [i \in 1 .. n |-> turn(g, i)]
      BY <2>1, <2>2
    <2> QED
      BY <1>10, <2>3
  <1>12. SplitUp(f, s)
    BY <1>11
  <1>13. Strings!Split(s, "/") = f[1]
    BY DEF Strings!Split, SplitUp
  <1> HIDE DEF f
  <1>14. ASSUME NEW i \in 1 .. n
         PROVE  f[i] = IF N(i) = 0 THEN AsToken(Token(s, i)) ELSE AsToken(Token(s,
             i)) \o f[i + N(i)]
    <2>1. f = [j \in 1 .. n |-> turn(f, j)]
      BY <1>10, <1>12
    <2>2. f[i] = turn(f, i)
      BY <2>1
    <2> QED
      BY <1>3, <1>9, <2>2
  <1> QED
    BY <1>13, <1>14 DEF N

\* The characters of a text that are no delimiters, each a text.
Solid(s) == [i \in 1 .. Len(s) |-> IF s[i] = "/" THEN << >> ELSE <<s[i]>>]
Rest(s, i) == Flat(From(Solid(s), i))

LEMMA SolidIs ==
  ASSUME NEW C, NEW s \in Seq(C)
  PROVE  /\ Solid(s) \in Seq(Seq(C)) /\ Len(Solid(s)) = Len(s)
         /\ \A i \in 1 .. Len(s) : Solid(s)[i] = IF s[i] = "/" THEN << >> ELSE <<s[i]>>
  <1>1. \A i \in 1 .. Len(s) : (IF s[i] = "/" THEN << >> ELSE <<s[i]>>) \in Seq(C)
    <2> SUFFICES ASSUME NEW i \in 1 .. Len(s)
                 PROVE  (IF s[i] = "/" THEN << >> ELSE <<s[i]>>) \in Seq(C)
      OBVIOUS
    <2>1. s[i] \in C
      OBVIOUS
    <2>2. << >> \in Seq(C) /\ <<s[i]>> \in Seq(C)
      BY <2>1
    <2> QED
      BY <2>2
  <1>2. Len(s) \in Nat
    OBVIOUS
  <1> QED
    BY <1>1, <1>2 DEF Solid

LEMMA RestIsText ==
  ASSUME NEW C, NEW s \in Seq(C), NEW i \in 1 .. Len(s) + 1
  PROVE  Rest(s, i) \in Seq(C)
  <1>1. Solid(s) \in Seq(Seq(C)) /\ Len(Solid(s)) = Len(s)
    BY SolidIs
  <1>2. From(Solid(s), i) \in Seq(Seq(C))
    BY <1>1, FromIs
  <1> QED
    BY <1>2, FlatIsText DEF Rest

LEMMA RestStep ==
  ASSUME NEW C, NEW s \in Seq(C), NEW i \in 1 .. Len(s)
  PROVE  /\ s[i] = "/" => Rest(s, i) = Rest(s, i + 1)
         /\ s[i] # "/" => Rest(s, i) = Join(<<s[i]>>, Rest(s, i + 1))
  <1> DEFINE M == Solid(s)
             r == From(M, i + 1)
             a == M[i]
  <1>1. M \in Seq(Seq(C)) /\ Len(M) = Len(s) /\ M[i] = IF s[i] = "/" THEN << >> ELSE <<s[i]>>
    BY SolidIs
  <1>2. From(M, i) = Join(<<a>>, r)
    BY <1>1, FromStep
  <1>3. i + 1 \in 1 .. Len(s) + 1 /\ Len(s) \in Nat
    OBVIOUS
  <1>4. r \in Seq(Seq(C)) /\ a \in Seq(C)
    BY <1>1, <1>3, FromIs
  <1>5. Rest(s, i + 1) \in Seq(C)
    BY <1>3, RestIsText
  <1> HIDE DEF a, r
  <1>6. Flat(<<a>> \o r) = Join(a, Flat(r))
    BY <1>4, FlatCons
  <1>7. Rest(s, i) = Join(a, Rest(s, i + 1))
    BY <1>2, <1>6, Zenon DEF Join, Rest, r
  <1>8. s[i] = "/" => Rest(s, i) = Rest(s, i + 1)
    BY <1>1, <1>5, <1>7, JoinEmpty DEF a
  <1> QED
    BY <1>1, <1>7, <1>8 DEF a

\* Up to the next delimiter they are the text itself.
LEMMA RestRuns ==
  ASSUME NEW C, NEW s \in Seq(C), NEW i \in 1 .. Len(s) + 1, NEW j \in i .. Len(s) + 1,
         \A k \in i .. j - 1 : s[k] # "/"
  PROVE  Rest(s, i) = Join(SubSeq(s, i, j - 1), Rest(s, j))
  <1> DEFINE Wrong(d) == Rest(s, i) # Join(SubSeq(s, i, i + d - 1), Rest(s, i + d))
             T == {d \in Nat : i + d <= j /\ Wrong(d)}
  <1>1. i \in Nat /\ j \in Nat /\ Len(s) \in Nat /\ j <= Len(s) + 1 /\ i <= j
    OBVIOUS
  <1>2. T = {}
    <2> SUFFICES ASSUME T # {} PROVE FALSE
      OBVIOUS
    <2>1. PICK d \in T : \A y \in T : d <= y
      BY LeastOf
    <2>2. d \in Nat /\ i + d <= j /\ Wrong(d)
      BY <2>1
    <2>3. CASE d = 0
      <3>1. SubSeq(s, i, i + d - 1) = << >> /\ i + d = i
        BY <1>1, <2>3
      <3>2. Rest(s, i) \in Seq(C)
        BY RestIsText
      <3> QED
        BY <2>2, <3>1, <3>2, JoinEmpty
    <2>4. CASE d # 0
      <3> DEFINE m == i + (d - 1)
                 a == SubSeq(s, i, m - 1)
                 b == SubSeq(s, i, m)
                 r == Rest(s, m + 1)
                 c == s[m]
      <3>0. d - 1 \in Nat /\ ~(d <= d - 1)
        BY <2>2, <2>4
      <3>9. d - 1 \notin T
        <4> HIDE DEF T
        <4> QED
          BY <2>1, <3>0
      <3>1. /\ d - 1 \in Nat /\ i + (d - 1) <= j
            /\ m \in i .. Len(s) /\ m \in 1 .. Len(s) /\ m \in i .. j - 1
                 /\ m + 1 \in 1 .. Len(s) + 1
            /\ i + (d - 1) - 1 = m - 1 /\ i + d - 1 = m /\ i + d = m + 1
            /\ i \in 1 .. Len(s)
        <4> HIDE DEF Wrong
        <4> QED
          BY <1>1, <2>2, <2>4
      <3>2. Rest(s, i) = Join(a, Rest(s, m))
        BY <3>1, <3>9
      <3> HIDE DEF m
      <3>3. c \in C /\ c # "/" /\ r \in Seq(C)
        BY <3>1, RestIsText, SMTT(60)
      <3>4. Rest(s, m) = Join(<<c>>, r)
        BY <3>1, <3>3, RestStep
      <3>5. a \in Seq(C) /\ Append(a, c) = b
        <4>1. m - i \in Nat /\ i + (m - i) <= Len(s) + 1 /\ i + (m - i) - 1 = m - 1
              /\ i \in 1 .. Len(s) + 1
          BY <1>1, <3>1
        <4>2. a \in Seq(C)
          BY <4>1, PieceIs, SMTT(60)
        <4>3. Append(SubSeq(s, i, m - 1), s[m]) = SubSeq(s, i, m)
          BY <3>1, OneMore
        <4> QED
          BY <4>2, <4>3
      <3> HIDE DEF a, b, c, r
      <3> DEFINE one == <<c>>
      <3>6. Append(a, c) = Join(a, one) /\ one \in Seq(C)
        BY <3>3, <3>5, AppendJoins
      <3> HIDE DEF one
      <3>7. Join(Join(a, one), r) = Join(a, Join(one, r))
        BY <3>3, <3>5, <3>6, JoinAssociates
      <3>8. Rest(s, i) = Join(b, r)
        BY <3>2, <3>4, <3>5, <3>6, <3>7 DEF one
      <3> QED
        BY <2>2, <3>1, <3>8 DEF b, r
    <2> QED
      BY <2>3, <2>4
  <1>3. j - i \in Nat /\ i + (j - i) <= j /\ i + (j - i) = j /\ i + (j - i) - 1 = j - 1
    BY <1>1
  <1>4. j - i \notin T
    BY <1>2
  <1> QED
    BY <1>3, <1>4

\* What the tokens from position i on are.
TokensGive(C, s, i, ls) ==
    /\ ls \in Seq(Seq(C)) /\ Flat(ls) = Rest(s, i)
    /\ \A k \in 1 .. Len(ls) : ls[k] # << >> /\ "/" \notin Strings!ToSet(ls[k])

\* One token more, if it is not empty.
LEMMA KeptGives ==
  ASSUME NEW C, NEW t \in Seq(C), \A k \in 1 .. Len(t) : t[k] # "/", NEW ls \in Seq(Seq(C)),
         \A k \in 1 .. Len(ls) : ls[k] # << >> /\ "/" \notin Strings!ToSet(ls[k])
  PROVE  /\ AsToken(t) \o ls \in Seq(Seq(C)) /\ Flat(AsToken(t) \o ls) = Join(t, Flat(ls))
         /\ LET all == AsToken(t) \o ls
            IN  \A k \in 1 .. Len(all) : all[k] # << >> /\ "/" \notin Strings!ToSet(all[k])
  <1>1. CASE t = << >>
    <2>1. AsToken(t) \o ls = ls
      BY <1>1 DEF AsToken
    <2>2. Flat(ls) \in Seq(C)
      BY FlatIsText
    <2>3. Flat(ls) = Join(t, Flat(ls))
      BY <1>1, <2>2, JoinEmpty
    <2> QED
      BY <2>1, <2>3
  <1>2. CASE t # << >>
    <2> DEFINE all == <<t>> \o ls
    <2>1. AsToken(t) \o ls = all
      BY <1>2 DEF AsToken
    <2>2. all \in Seq(Seq(C)) /\ Len(all) = Len(ls) + 1 /\ all[1] = t
          /\ (\A k \in 1 .. Len(ls) : all[k + 1] = ls[k]) /\ Len(ls) \in Nat
      OBVIOUS
    <2>3. Flat(all) = Join(t, Flat(ls))
      BY FlatCons
    <2> HIDE DEF all
    <2>4. "/" \notin Strings!ToSet(t)
      BY DEF Strings!ToSet
    <2>5. ASSUME NEW k \in 1 .. Len(all) PROVE all[k] # << >> /\ "/" \notin Strings!ToSet(all[k])
      <3>1. CASE k = 1
        BY <1>2, <2>2, <2>4, <3>1
      <3>2. CASE k # 1
        <4>1. k - 1 \in 1 .. Len(ls) /\ (k - 1) + 1 = k
          BY <2>2, <3>2
        <4>2. all[k] = ls[k - 1]
          BY <2>2, <4>1
        <4> QED
          BY <4>1, <4>2
      <3> QED
        BY <3>1, <3>2
    <2> QED
      BY <2>1, <2>2, <2>3, <2>5
  <1> QED
    BY <1>1, <1>2

\* By going down from the end: the tokens from i on are what is left there.
LEMMA SplitGives ==
  ASSUME NEW C, "/" \in C, NEW s \in Seq(C)
  PROVE  TokensGive(C, s, 1, Strings!Split(s, "/"))
  <1> DEFINE n == Len(s) + 1
             N(i) == Next1(s, i, "/")
  <1>1. n \in Nat /\ Len(s) \in Nat /\ n - 1 = Len(s) /\ n > 0
    OBVIOUS
  <1>2. PICK f : /\ Strings!Split(s, "/") = f[1]
                 /\ \A i \in 1 .. n : f[i] = IF N(i) = 0 THEN AsToken(Token(s, i))
                                             ELSE AsToken(Token(s, i)) \o f[i + N(i)]
    BY TokensAre
  <1>3. ASSUME NEW i \in 1 .. n
        PROVE  /\ N(i) \in Nat
               /\ N(i) = 0 => \A k \in i .. Len(s) : s[k] # "/"
               /\ N(i) # 0 => /\ i + N(i) <= n /\ s[i + N(i) - 1] = "/"
                              /\ \A k \in i .. i + N(i) - 2 : s[k] # "/"
    BY NextIs
  <1>4. ASSUME NEW i \in 1 .. n
        PROVE  Token(s, i) = IF N(i) = 0 THEN From(s, i) ELSE SubSeq(s, i, i + N(i) - 2)
    BY DEF Token
  <1> HIDE DEF N
  <1>5. ASSUME NEW i \in 1 .. n, NEW j \in i .. n, \A k \in i .. j - 1 : s[k] # "/"
        PROVE  /\ SubSeq(s, i, j - 1) \in Seq(C)
               /\ \A k \in 1 .. Len(SubSeq(s, i, j - 1)) : SubSeq(s, i, j - 1)[k] # "/"
    <2> DEFINE t == SubSeq(s, i, j - 1)
    <2>1. j - i \in Nat /\ i + (j - i) <= Len(s) + 1 /\ i + (j - i) - 1 = j - 1
      BY <1>1
    <2>2. t \in Seq(C) /\ Len(t) = j - i /\ \A k \in 1 .. j - i : t[k] = s[i + k - 1]
      BY <2>1, PieceIs
    <2> HIDE DEF t
    <2>3. ASSUME NEW k \in 1 .. Len(t) PROVE t[k] # "/"
      <3>1. i + k - 1 \in i .. j - 1 /\ k \in 1 .. j - i
        BY <1>1, <2>1, <2>2
      <3> QED
        BY <1>5, <2>2, <3>1
    <2> QED
      BY <2>2, <2>3 DEF t
  <1> DEFINE T == {k \in Nat : k < n /\ ~TokensGive(C, s, n - k, f[n - k])}
  <1>6. SUFFICES ASSUME T # {} PROVE FALSE
    <2>1. n - 1 \in Nat /\ n - 1 < n /\ n - (n - 1) = 1
      BY <1>1
    <2>2. n - 1 \notin T => TokensGive(C, s, 1, f[1])
      BY <2>1
    <2> HIDE DEF T
    <2> QED
      BY <1>2, <2>2
  <1>7. PICK k \in T : \A y \in T : k <= y
    BY <1>6, LeastOf
  <1> DEFINE i == n - k
             e == N(i)
             t == Token(s, i)
  <1>8. k \in Nat /\ k < n /\ ~TokensGive(C, s, i, f[i]) /\ i \in 1 .. n
    BY <1>1, <1>7
  <1>9. ASSUME NEW j \in i + 1 .. n PROVE TokensGive(C, s, j, f[j])
    <2>1. n - j \in Nat /\ n - j < n /\ ~(k <= n - j) /\ n - (n - j) = j
      BY <1>1, <1>8
    <2>2. n - j \notin T
      BY <1>7, <2>1
    <2> QED
      BY <2>1, <2>2
  <1> HIDE DEF T, i, n
  <1>10. i \in Nat /\ i \in 1 .. Len(s) + 1
    BY <1>1, <1>8 DEF n
  <1>11. CASE e = 0
    <2> DEFINE none == << >>
    <2>1. /\ t = From(s, i) /\ f[i] = AsToken(t) /\ \A j \in i .. Len(s) : s[j] # "/"
      BY <1>2, <1>3, <1>4, <1>8, <1>11
    <2>2. n \in i .. n /\ n \in i .. Len(s) + 1 /\ n \in 1 .. Len(s) + 1
      BY <1>1, <1>8 DEF n
    <2>3. t = SubSeq(s, i, n - 1)
      BY <1>1, <2>1 DEF From
    <2>4. t \in Seq(C) /\ \A j \in 1 .. Len(t) : t[j] # "/"
      BY <1>1, <1>5, <1>8, <2>1, <2>2, <2>3
    <2>5. Rest(s, i) = Join(SubSeq(s, i, n - 1), Rest(s, n))
      BY <1>1, <1>10, <2>1, <2>2, RestRuns
    <2>6. Rest(s, n) = << >>
      <3>1. Solid(s) \in Seq(Seq(C)) /\ Len(Solid(s)) = Len(s)
        BY SolidIs
      <3>2. From(Solid(s), n) = << >>
        BY <2>2, <3>1, FromIs DEF n
      <3> QED
        BY <3>2, FlatOfNone DEF Rest
    <2>7. none \in Seq(Seq(C)) /\ Flat(none) = << >> /\ Len(none) = 0
      BY FlatOfNone
    <2> HIDE DEF t
    <2>8. AsToken(t) \in Seq(Seq(C))
      BY <2>4 DEF AsToken
    <2>9. AsToken(t) \o none = AsToken(t)
      BY <2>8, ConcatEmptySeq
    <2> HIDE DEF none
    <2>10. /\ Flat(AsToken(t) \o none) = Join(t, Flat(none))
           /\ LET all == AsToken(t) \o none
              IN  \A j \in 1 .. Len(all) : all[j] # << >> /\ "/" \notin Strings!ToSet(all[j])
      <3>1. \A j \in 1 .. Len(none) : none[j] # << >> /\ "/" \notin Strings!ToSet(none[j])
        BY <2>7
      <3> QED
        BY <2>4, <2>7, <3>1, KeptGives
    <2>11. TokensGive(C, s, i, AsToken(t))
      BY <2>3, <2>5, <2>6, <2>7, <2>8, <2>9, <2>10 DEF TokensGive
    <2> QED
      BY <1>8, <2>1, <2>11
  <1>12. CASE e # 0
    <2> DEFINE q == i + e - 1
               more == f[i + e]
    <2>1. /\ e \in Nat /\ i + e <= n /\ s[i + e - 1] = "/"
          /\ \A j \in i .. i + e - 2 : s[j] # "/"
      BY <1>3, <1>8, <1>12
    <2>2. t = SubSeq(s, i, i + e - 2) /\ f[i] = AsToken(t) \o more
      BY <1>2, <1>4, <1>8, <1>12
    <2> HIDE DEF e
    <2>3. /\ q \in i .. n /\ q - 1 = i + e - 2 /\ q \in 1 .. Len(s) /\ q + 1 = i + e
               /\ q \in i .. Len(s) + 1
          /\ i + e \in i + 1 .. n
      BY <1>1, <1>8, <1>10, <1>12, <2>1 DEF n
    <2>4. TokensGive(C, s, i + e, more)
      BY <1>9, <2>3
    <2> HIDE DEF q, more
    <2>5. t = SubSeq(s, i, q - 1) /\ s[q] = "/" /\ \A j \in i .. q - 1 : s[j] # "/"
      BY <2>1, <2>2, <2>3 DEF q
    <2> HIDE DEF t
    <2>6. t \in Seq(C) /\ \A j \in 1 .. Len(t) : t[j] # "/"
      BY <1>5, <1>8, <2>3, <2>5
    <2>7. Rest(s, i) = Join(t, Rest(s, q))
      BY <1>10, <2>3, <2>5, RestRuns
    <2>8. Rest(s, q) = Rest(s, i + e)
      BY <2>3, <2>5, RestStep
    <2>9. /\ AsToken(t) \o more \in Seq(Seq(C)) /\ Flat(AsToken(t) \o more) = Join(t, Flat(more))
          /\ LET all == AsToken(t) \o more
             IN  \A j \in 1 .. Len(all) : all[j] # << >> /\ "/" \notin Strings!ToSet(all[j])
      BY <2>4, <2>6, KeptGives DEF TokensGive
    <2>10. TokensGive(C, s, i, AsToken(t) \o more)
      BY <2>4, <2>7, <2>8, <2>9 DEF TokensGive
    <2> QED
      BY <1>8, <2>2, <2>10
  <1> QED
    BY <1>11, <1>12

\* The tokens of a text are what is between its delimiters.
LEMMA SplitKeeps ==
  ASSUME NEW C, "/" \in C, NEW s \in Seq(C)
  PROVE  LET tokens == Strings!Split(s, "/")
         IN  /\ Strings!FlattenSeq(tokens) =
                   Strings!FlattenSeq([i \in 1 .. Len(s) |-> IF s[i] = "/" THEN << >> ELSE <<s[i]>>])
             /\ \A i \in 1 .. Len(tokens) : tokens[i] # << >> /\ "/" \notin Strings!ToSet(tokens[i])
  <1>1. TokensGive(C, s, 1, Strings!Split(s, "/"))
    BY SplitGives
  <1>2. From(Solid(s), 1) = Solid(s)
    <2>1. Solid(s) \in Seq(Seq(C))
      BY SolidIs
    <2> QED
      BY <2>1, SubSeqFull DEF From
  <1>3. Rest(s, 1) = Flat(Solid(s))
    BY <1>2 DEF Rest
  <1>4. Flat(Solid(s)) = Strings!FlattenSeq([i \in 1 .. Len(s) |-> IF s[i] = "/" THEN << >> ELSE <<s[i]>>])
    BY DEF Flat, Solid
  <1> QED
    BY <1>1, <1>3, <1>4, Zenon DEF TokensGive, Flat

-----------------------------------------------------------------------------
(* last_install *)

\* strtok_r gives the first line, if it is not empty.
LEMMA LineIs ==
  ASSUME NEW D, NEW z \in Seq(D), NEW m \in 1 .. Len(z) - 1, z[m + 1] = "\n",
         \A i \in 1 .. m : z[i] # "\n"
  PROVE  Result!Line(z) = [token |-> SubSeq(z, 1, m), rest |-> SubSeq(z, m + 2, Len(z))]
  <1> DEFINE starts == {i \in 1 .. Len(z) : z[i] # "\n"}
             from == CHOOSE i \in starts : \A j \in starts : i <= j
             ends == Result!LineEnds(z)
             end == Result!FirstEnd(z)
  <1>1. Len(z) \in Nat /\ m \in Nat /\ m >= 1 /\ m + 1 \in 1 .. Len(z) /\ m \in 1 .. Len(z)
    OBVIOUS
  <1>2. starts # {} /\ from = 1
    <2>1. 1 \in starts /\ \A j \in starts : 1 <= j
      BY <1>1
    <2>2. from \in starts /\ \A j \in starts : from <= j
      BY <2>1
    <2>3. starts \in SUBSET Nat
      OBVIOUS
    <2> HIDE DEF starts, from
    <2> QED
      BY <2>1, <2>2, <2>3
  <1>3. SubSeq(z, 1, Len(z)) = z
    BY SubSeqFull
  <1>4. end = m + 1
    <2> DEFINE e == CHOOSE i \in ends : \A j \in ends : i <= j
    <2>1. ends = {i \in 1 .. Len(z) : z[i] = "\n"}
      BY DEF Result!LineEnds
    <2>2. m + 1 \in ends /\ ends \in SUBSET Nat
      BY <1>1, <2>1
    <2>3. \A j \in ends : m + 1 <= j
      BY <1>1, <2>1
    <2>4. end = e
      BY <2>2 DEF Result!FirstEnd
    <2> HIDE DEF ends, end
    <2>5. e \in ends /\ \A j \in ends : e <= j
      BY <2>2, <2>3
    <2> HIDE DEF e
    <2> QED
      BY <1>1, <2>2, <2>3, <2>4, <2>5
  <1>5. end - 1 = m /\ end + 1 = m + 2
    BY <1>1, <1>4
  <1> HIDE DEF end, starts, from
  <1>6. Result!Line(z) = IF starts = {} THEN [token |-> << >>, rest |-> << >>]
                         ELSE LET t == SubSeq(z, from, Len(z))
                              IN  [token |-> SubSeq(t, 1, Result!FirstEnd(t) - 1),
                                   rest |-> SubSeq(t, Result!FirstEnd(t) + 1, Len(t))]
    BY DEF Result!Line, starts, from
  <1>7. Result!Line(z) = [token |-> SubSeq(z, 1, end - 1), rest |-> SubSeq(z, end + 1, Len(z))]
    BY <1>2, <1>3, <1>6 DEF end
  <1> QED
    BY <1>5, <1>7

Said(r) == IF r = "success" THEN "1" ELSE "0"

\* A path, its line's end, what recovery said and one more, and perhaps what
\* lay behind.
LEMMA StatusIs ==
  ASSUME NEW C, {"\n", "0", "1", "NUL"} \cap C = {}, NEW s \in Seq(C), s # << >>,
         stale \in C \cup {"\n", "0", "1", "NUL"}, NEW r \in {"fail", "success"}
  PROVE  /\ Len(s \o <<"\n">> \o Result!ResultLine(r)) = Len(s) + 3
         /\ Result!Parsed(s \o <<"\n">> \o Result!ResultLine(r)) = [path |-> s, result |-> r]
  <1> DEFINE D == C \cup {"\n", "0", "1", "NUL"}
             n == Len(s)
             said == Said(r)
             line == <<said, "\n">>
             file == s \o <<"\n">> \o line
             z == Result!CString(file)
             y == SubSeq(z, n + 2, Len(z))
  <1>1. Result!ResultLine(r) = line
    BY DEF Result!ResultLine, Said
  <1>2. said \in {"0", "1"} /\ said \in D /\ "\n" \in D /\ said # "\n"
        /\ (said = "1" <=> r = "success")
    BY DEF Said
  <1>3. n \in Nat /\ n >= 1 /\ s \in Seq(D) /\ \A i \in 1 .. n : s[i] # "\n"
    OBVIOUS
  <1> HIDE DEF said, D
  <1>4. line \in Seq(D) /\ Len(line) = 2 /\ line[1] = said /\ line[2] = "\n"
    BY <1>2
  <1> DEFINE head == s \o <<"\n">>
  <1>5. head \in Seq(D) /\ Len(head) = n + 1 /\ (\A i \in 1 .. n : head[i] = s[i])
      /\ head[n + 1] = "\n"
    BY <1>2, <1>3
  <1> HIDE DEF head, line, n
  <1>6. /\ file \in Seq(D) /\ Len(file) = n + 3
        /\ \A i \in 1 .. n : file[i] = s[i]
        /\ file[n + 1] = "\n" /\ file[n + 2] = said /\ file[n + 3] = "\n"
    <2> DEFINE all == Join(head, line)
    <2>1. /\ all \in Seq(D) /\ Len(all) = Len(head) + Len(line)
          /\ \A i \in 1 .. Len(head) + Len(line) :
                all[i] = IF i <= Len(head) THEN head[i] ELSE line[i - Len(head)]
      <3>1. head \in Seq(D) /\ line \in Seq(D)
        BY <1>4, <1>5
      <3> QED
        BY ONLY <3>1, JoinIs
    <2> HIDE DEF all
    <2>2. /\ all \in Seq(D) /\ Len(all) = n + 3
          /\ \A i \in 1 .. n + 3 : all[i] = IF i <= n + 1 THEN head[i] ELSE line[i - (n + 1)]
      <3>1. Len(head) + Len(line) = n + 3
        BY <1>3, <1>4, <1>5
      <3> QED
        BY <1>5, <2>1, <3>1
    <2>3. \A i \in 1 .. n : all[i] = s[i]
      BY <1>3, <1>5, <2>2
    <2>4. all[n + 1] = "\n"
      BY <1>3, <1>5, <2>2
    <2>5. n + 2 - (n + 1) = 1 /\ n + 3 - (n + 1) = 2 /\ n + 2 \in 1 .. n + 3 /\ n + 3 \in 1 .. n + 3
          /\ ~(n + 2 <= n + 1) /\ ~(n + 3 <= n + 1)
      BY <1>3
    <2>6. all[n + 2] = said /\ all[n + 3] = "\n"
      <3>1. all[n + 2] = line[n + 2 - (n + 1)]
        BY <1>3, <2>2, <2>5
      <3>2. all[n + 3] = line[n + 3 - (n + 1)]
        BY <1>3, <2>2, <2>5
      <3> QED
        BY <1>4, <2>5, <3>1, <3>2
    <2>7. file = all
      BY DEF all, head, file, Join
    <2> QED
      BY <2>2, <2>3, <2>4, <2>6, <2>7
  <1> HIDE DEF file
  <1>7. z \in Seq(D) /\ Len(z) \in Nat /\ Len(z) >= n + 3 /\ \A i \in 1 .. n + 3 : z[i] = file[i]
    <2>1. stale \in D
      BY DEF D
    <2>2. CASE stale = "NUL"
      BY <1>6, <2>2 DEF Result!CString
    <2>3. CASE stale # "NUL"
      <3>1. z = Append(file, stale)
        BY <2>3 DEF Result!CString
      <3> HIDE DEF z
      <3>2. /\ Append(file, stale) \in Seq(D) /\ Len(Append(file, stale)) = Len(file) + 1
            /\ \A i \in 1 .. Len(file) : Append(file, stale)[i] = file[i]
        BY <1>6, <2>1, AppendIs
      <3> QED
        BY <1>3, <1>6, <3>1, <3>2
    <2> QED
      BY <2>2, <2>3
  <1> HIDE DEF z
  <1>8. Result!Line(z) = [token |-> SubSeq(z, 1, n), rest |-> y]
    <2>1. n \in 1 .. Len(z) - 1 /\ z[n + 1] = "\n" /\ \A i \in 1 .. n : z[i] # "\n"
      BY <1>3, <1>6, <1>7
    <2> QED
      BY <1>7, <2>1, LineIs
  <1>9. SubSeq(z, 1, n) = s
    <2> DEFINE t == SubSeq(z, 1, n)
    <2>1. t \in Seq(D) /\ Len(t) = n /\ \A i \in 1 .. n : t[i] = z[i]
      BY <1>3, <1>7
    <2> HIDE DEF t
    <2>2. \A i \in 1 .. n : t[i] = s[i]
      BY <1>3, <1>6, <1>7, <2>1
    <2>3. t = s
      BY <1>3, <2>1, <2>2, SeqEqual DEF n
    <2> QED
      BY <2>3 DEF t
  <1>10. y \in Seq(D) /\ Len(y) \in Nat /\ Len(y) >= 2 /\ y[1] = said /\ y[2] = "\n"
    <2>1. y \in Seq(D) /\ Len(y) = Len(z) - n - 1
        /\ \A i \in 1 .. Len(z) - n - 1 : y[i] = z[n + 1 + i]
      BY <1>3, <1>7
    <2> HIDE DEF y
    <2>2. 1 \in 1 .. Len(z) - n - 1 /\ 2 \in 1 .. Len(z) - n - 1 /\ n + 1 + 1 = n + 2
        /\ n + 1 + 2 = n + 3
          /\ n + 2 \in 1 .. n + 3 /\ n + 3 \in 1 .. n + 3
      BY <1>3, <1>7
    <2> QED
      BY <1>3, <1>6, <1>7, <2>1, <2>2
  <1> HIDE DEF y
  <1>11. /\ Result!Line(y).token # << >> /\ Result!Line(y).token[1] = said
    <2>1. 1 \in 1 .. Len(y) - 1 /\ y[1 + 1] = "\n" /\ \A i \in 1 .. 1 : y[i] # "\n"
      BY <1>2, <1>10
    <2>2. Result!Line(y) = [token |-> SubSeq(y, 1, 1), rest |-> SubSeq(y, 1 + 2, Len(y))]
      BY <1>10, <2>1, LineIs
    <2>3. SubSeq(y, 1, 1) = <<said>>
      BY <1>10, OneOf
    <2> QED
      <3> DEFINE t == <<said>>
      <3>1. t # << >> /\ t[1] = said
        OBVIOUS
      <3>2. Result!Line(y).token = t
        BY <2>2, <2>3
      <3> HIDE DEF t
      <3> QED
        BY <3>1, <3>2
  <1>12. Result!Room(Len(file)) = n + 1 /\ n + 1 # 0 /\ file # << >>
    <2>1. Result!Room(Len(file)) = Len(file) - 2
      BY DEF Result!Room
    <2> QED
      BY <1>3, <1>6, <2>1
  <1>13. Result!Copy(s, n + 1) = s
    BY <1>3 DEF Result!Copy, n
  <1> DEFINE first == Result!Line(z)
             second == Result!Line(y)
  <1>14. first.token = s /\ first.rest = y
    BY <1>8, <1>9
  <1> HIDE DEF first, second
  <1>15. Result!Parsed(file) = [path |-> s,
             result |-> IF second.token = << >> THEN "unknown"
                        ELSE IF second.token[1] = "1" THEN "success" ELSE "fail"]
    BY <1>12, <1>13, <1>14 DEF Result!Parsed, first, second, z
  <1>16. second.token # << >> /\ second.token[1] = said
    BY <1>11 DEF second
  <1>17. Result!Parsed(file) = [path |-> s, result |-> r]
    BY <1>2, <1>15, <1>16
  <1>18. Len(file) = Len(s) + 3
    BY <1>6 DEF n
  <1> QED
    BY <1>1, <1>17, <1>18 DEF file

-----------------------------------------------------------------------------
(* The texts are of the alphabets they grow from, and that is enough. *)

TextsInv ==
    /\ path \in Seq(PathChars) /\ stale \in PathChars \cup {"\n", "0", "1", "NUL"}
    /\ text \in Seq(TextChars)

LEMMA TextsInit == Init => TextsInv
  <1> SUFFICES ASSUME Init PROVE TextsInv
    OBVIOUS
  <1>1. Result!Init /\ Strings!Init
    BY DEF Init
  <1>2. /\ path = << >> /\ text = << >>
        /\ stale \in PathChars \cup {"\n", "0", "1", "NUL"}
    BY <1>1 DEF Result!Init, Strings!Init
  <1>3. << >> \in Seq(PathChars) /\ << >> \in Seq(TextChars)
    OBVIOUS
  <1> QED
    BY <1>2, <1>3 DEF TextsInv

LEMMA TextsNext ==
  ASSUME TextsInv, [Next]_vars
  PROVE  TextsInv'
  <1>1. CASE UNCHANGED texts
    BY <1>1 DEF texts, TextsInv
  <1>2. CASE NextText
    <2>1. CASE Result!Grow /\ UNCHANGED text
      <3>1. PICK c \in PathChars : path' = Append(path, c)
        BY <2>1 DEF Result!Grow
      <3>2. path' \in Seq(PathChars)
        BY <3>1, AppendIs DEF TextsInv
      <3> QED
        BY <2>1, <3>2 DEF TextsInv, Result!Grow
    <2>2. CASE Strings!Grow /\ UNCHANGED <<path, stale>>
      <3>1. PICK c \in TextChars : text' = Append(text, c)
        BY <2>2 DEF Strings!Grow
      <3>2. text' \in Seq(TextChars)
        BY <3>1, AppendIs DEF TextsInv
      <3> QED
        BY <2>2, <3>2 DEF TextsInv
    <2> QED
      BY <1>2, <2>1, <2>2 DEF NextText
  <1> QED
    BY <1>1, <1>2 DEF Next, NextMisc, NextScan, NextHash, vars

\* How much of a file is taken, and where the terminator goes.
LEMMA TakenIs ==
  ASSUME NEW D, NEW file \in Seq(D), PathMax \in Nat, Len(file) >= 3
  PROVE  Result!StatusOf(file) = IF Len(file) < PathMax + 2 THEN Result!Parsed(file)
                                 ELSE Result!Undefined
  <1>1. file # << >> /\ Len(file) \in Nat
    OBVIOUS
  <1>2. CASE Len(file) < PathMax + 2
    <2>1. Result!Taken(file) = file /\ ~Result!Overruns(Len(file))
      BY <1>1, <1>2 DEF Result!Taken, Result!Overruns, Result!BufferSize
    <2> QED
      BY <1>1, <1>2, <2>1 DEF Result!StatusOf
  <1>3. CASE ~(Len(file) < PathMax + 2)
    <2>1. Len(Result!Taken(file)) = PathMax + 2
      <3>1. CASE Len(file) < PathMax + 3
        BY <1>1, <1>3, <3>1 DEF Result!Taken, Result!BufferSize
      <3>2. CASE ~(Len(file) < PathMax + 3)
        <4>1. PathMax + 3 - 1 \in 0 .. Len(file)
          BY <1>1, <3>2
        <4>2. Len(SubSeq(file, 1, PathMax + 3 - 1)) = PathMax + 3 - 1
          BY <4>1
        <4> QED
          BY <3>2, <4>2 DEF Result!Taken, Result!BufferSize
      <3> QED
        BY <3>1, <3>2
    <2>2. Result!Overruns(Len(Result!Taken(file)))
      BY <2>1 DEF Result!Overruns, Result!BufferSize
    <2> QED
      BY <1>1, <1>3, <2>2 DEF Result!StatusOf
  <1> QED
    BY <1>2, <1>3

\* Whatever lay behind the file in the buffer.
LEMMA ResultIsRead ==
  ASSUME TextsInv
  PROVE  Result!WholeFileRead
  <1>1. /\ path \in Seq(PathChars) /\ stale \in PathChars \cup {"\n", "0", "1", "NUL"}
        /\ {"\n", "0", "1", "NUL"} \cap PathChars = {} /\ PathMax \in Nat
    BY DeviceAssumption DEF Result!TextAssumption, TextsInv
  <1>2. ASSUME path # << >>, NEW r \in {"fail", "success"}
        PROVE  Result!StatusOf(path \o <<"\n">> \o Result!ResultLine(r)) =
                   IF Len(path) < PathMax - 1 THEN [path |-> path, result |-> r]
                   ELSE Result!Undefined
    <2> DEFINE D == PathChars \cup {"\n", "0", "1"}
               file == path \o <<"\n">> \o Result!ResultLine(r)
    <2>1. Len(file) = Len(path) + 3 /\ Result!Parsed(file) = [path |-> path, result |-> r]
      BY <1>1, <1>2, StatusIs
    <2>2. file \in Seq(D)
      <3>1. path \in Seq(D) /\ <<"\n">> \in Seq(D)
        BY <1>1
      <3>2. Result!ResultLine(r) \in Seq(D)
        <4>1. Result!ResultLine(r) = <<"1", "\n">> \/ Result!ResultLine(r) = <<"0", "\n">>
          BY Zenon DEF Result!ResultLine
        <4>2. "1" \in D /\ "0" \in D /\ "\n" \in D
          BY Zenon
        <4> HIDE DEF D
        <4>3. \A a, b \in D : <<a, b>> \in Seq(D)
          OBVIOUS
        <4> QED
          BY <4>1, <4>2, <4>3, Zenon
      <3> HIDE DEF D
      <3> QED
        BY <3>1, <3>2
    <2> HIDE DEF D, file
    <2>3. Len(path) \in Nat
      BY <1>1
    <2>4. Result!StatusOf(file) = IF Len(file) < PathMax + 2 THEN Result!Parsed(file)
                                  ELSE Result!Undefined
      BY <1>1, <2>1, <2>2, <2>3, TakenIs
    <2>5. Len(file) < PathMax + 2 <=> Len(path) < PathMax - 1
      BY <1>1, <2>1, <2>3
    <2> QED
      BY <2>1, <2>4, <2>5 DEF file
  <1> QED
    BY <1>2 DEF Result!WholeFileRead

\* The helpers of utils.cpp and fs_utils.cpp, on any text.
LEMMA TextIsKept ==
  ASSUME TextsInv
  PROVE  /\ Strings!UrlNameIsLast /\ Strings!TrimKeepsText /\ Strings!SplitIsComplete
         /\ Strings!LastLineCounts /\ Strings!ReadFileKeepsText
  <1>1. /\ text \in Seq(TextChars) /\ Strings!Space \in TextChars /\ "/" \in TextChars
             /\ "\n" \in TextChars
        /\ Prefix \in Seq(TextChars) /\ Prefix # << >>
        /\ Throws \notin Seq(TextChars) /\ Throws # Default
    <2>1. Strings!StringAssumption
      BY DeviceAssumption
    <2>2. Prefix \in Seq(TextChars)
      <3>1. Prefix \in Seq(TextChars \ {"\n"}) /\ TextChars \ {"\n"} \subseteq TextChars
        BY <2>1 DEF Strings!StringAssumption
      <3> QED
        BY <3>1, SeqMonotonic
    <2> QED
      BY <2>1, <2>2 DEF Strings!StringAssumption, TextsInv
  <1>2. Strings!UrlNameIsLast
    BY <1>1, UrlNameIs DEF Strings!UrlNameIsLast
  <1>3. Strings!TrimKeepsText
    BY <1>1, TrimIs DEF Strings!TrimKeepsText
  <1>4. Strings!SplitIsComplete
    BY <1>1, SplitKeeps DEF Strings!SplitIsComplete
  <1>5. Strings!LastLineCounts
    BY <1>1, LastLine DEF Strings!LastLineCounts
  <1>6. Strings!ReadFileKeepsText
    BY <1>1, FileKept DEF Strings!ReadFileKeepsText
  <1> QED
    BY <1>2, <1>3, <1>4, <1>5, <1>6

\* Any last_install that recovery finished is read for what it says, whatever
\* lay in the buffer, but for the one that fills the buffer, behind which the
\* terminator is written (librecovery.c:246); any text comes out of the trimming, the splitting, the
\* name of the package, the search of a proc file and the reading of a file
\* with what it should keep, for any characters and any length.
THEOREM TextsAlwaysRight == Spec => []TextsRight
  <1>1. TextsInv /\ [Next]_vars => TextsInv'
    BY TextsNext
  <1>2. TextsInv => TextsRight
    BY ResultIsRead, TextIsKept DEF TextsRight
  <1> QED
    BY <1>1, <1>2, TextsInit, PTL DEF Spec, vars
=============================================================================
