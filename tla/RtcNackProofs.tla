---------------------------- MODULE RtcNackProofs ----------------------------
(***************************************************************************)
(* What RtcNack says of every window of sequence numbers: what is missing  *)
(* is listed, the list is bounded, and the sequence number that is         *)
(* reported is not ahead.                                                  *)
(*                                                                         *)
(* The code compares numbers modulo Width.  The first part shows that the  *)
(* distance of two numbers is that of the packets they stand for, if these *)
(* are less than half of Width apart; the second that all that the code    *)
(* ever compares are.                                                      *)
(***************************************************************************)
EXTENDS RtcNack, FiniteSetTheorems, TLAPS

Half == Width \div 2

-----------------------------------------------------------------------------
(***************************************************************************)
(* Sequence numbers.                                                       *)
(***************************************************************************)

\* Width is even.
LEMMA HalfIs == Width \in Nat /\ Width > 1 /\ Half \in Nat /\ Half > 0 /\ Width = 2 * Half
BY NackAssumption DEF Half

\* The number of a packet is a sequence number.
LEMMA SeqType == \A a \in Int : SeqOf(a) \in Sequence
BY HalfIs DEF SeqOf, Sequence

\* A packet is some rounds and its number.
LEMMA Quotient == \A a \in Int : \E q \in Int : a = q * Width + SeqOf(a)
<1> SUFFICES ASSUME NEW a \in Int
             PROVE  \E q \in Int : a = q * Width + SeqOf(a)
  OBVIOUS
<1>1. a \div Width \in Int
  BY NackAssumption
<1>2. a = (a \div Width) * Width + (a % Width)
  BY NackAssumption
<1> QED BY <1>1, <1>2 DEF SeqOf

\* Rounds of numbers are at least one of them.
LEMMA Multiple == \A q \in Int : q > 0 => q * Width >= Width
BY HalfIs

\* Packets less than a round apart with the same number are the same.
LEMMA SeqUnique ==
    \A a, b \in Int :
        SeqOf(a) = SeqOf(b) /\ a - b < Width /\ b - a < Width => a = b
<1> SUFFICES ASSUME NEW a \in Int, NEW b \in Int, SeqOf(a) = SeqOf(b),
                    a - b < Width, b - a < Width
             PROVE  a = b
  OBVIOUS
<1>1. PICK p \in Int : a = p * Width + SeqOf(a)
  BY Quotient
<1>2. PICK q \in Int : b = q * Width + SeqOf(b)
  BY Quotient
<1>3. /\ (p - q) * Width = p * Width - q * Width
      /\ (q - p) * Width = q * Width - p * Width
  BY HalfIs
<1>4. (p - q) * Width = a - b /\ (q - p) * Width = b - a
  BY <1>1, <1>2, <1>3, SeqType, HalfIs DEF Sequence
<1>5. ~(p - q > 0) /\ ~(q - p > 0)
  BY <1>4, Multiple, HalfIs
<1>6. p = q
  BY <1>5
<1> QED BY <1>1, <1>2, <1>6

\* Numbers repeat every round.
LEMMA SeqRepeats == \A a, q \in Int : SeqOf(a + q * Width) = SeqOf(a)
<1> SUFFICES ASSUME NEW a \in Int, NEW q \in Int
             PROVE  SeqOf(a + q * Width) = SeqOf(a)
  OBVIOUS
<1>1. PICK p \in Int : a = p * Width + SeqOf(a)
  BY Quotient
<1>2. q * Width \in Int
  BY HalfIs
<1>3. PICK k \in Int : a + q * Width = k * Width + SeqOf(a + q * Width)
  BY <1>2, Quotient
<1>4. /\ (k - (p + q)) * Width = k * Width - p * Width - q * Width
      /\ ((p + q) - k) * Width = p * Width + q * Width - k * Width
  BY HalfIs
<1>5. SeqOf(a) \in Sequence /\ SeqOf(a + q * Width) \in Sequence
  BY <1>2, SeqType
<1>6. /\ p * Width \in Int /\ k * Width \in Int
      /\ SeqOf(a) \in 0..Width - 1 /\ SeqOf(a + q * Width) \in 0..Width - 1
  BY <1>5, HalfIs DEF Sequence
<1>7. /\ (k - (p + q)) * Width = SeqOf(a) - SeqOf(a + q * Width)
      /\ ((p + q) - k) * Width = SeqOf(a + q * Width) - SeqOf(a)
  BY <1>1, <1>2, <1>3, <1>4, <1>6
<1>8. ~(k - (p + q) > 0) /\ ~((p + q) - k > 0)
  BY <1>6, <1>7, Multiple, HalfIs
<1>9. k - (p + q) = 0
  BY <1>8
<1> QED BY <1>6, <1>7, <1>9, HalfIs

\* Below Width the number is the packet.
LEMMA SeqSmall == \A a \in Sequence : SeqOf(a) = a
BY HalfIs DEF SeqOf, Sequence

\* The number of a sum needs only the numbers of what is added.
LEMMA SeqSum ==
    \A a, b, c \in Int : SeqOf(SeqOf(a) - SeqOf(b) + c) = SeqOf(a - b + c)
<1> SUFFICES ASSUME NEW a \in Int, NEW b \in Int, NEW c \in Int
             PROVE  SeqOf(SeqOf(a) - SeqOf(b) + c) = SeqOf(a - b + c)
  OBVIOUS
<1>1. PICK p \in Int : a = p * Width + SeqOf(a)
  BY Quotient
<1>2. PICK q \in Int : b = q * Width + SeqOf(b)
  BY Quotient
<1>3. SeqOf(a) \in Int /\ SeqOf(b) \in Int
  BY SeqType, HalfIs DEF Sequence
<1>4. /\ (p - q) * Width = p * Width - q * Width
      /\ p * Width \in Int /\ q * Width \in Int
  BY HalfIs
<1>5. a - b + c = (SeqOf(a) - SeqOf(b) + c) + (p - q) * Width
  BY <1>1, <1>2, <1>3, <1>4
<1> QED BY <1>3, <1>5, SeqRepeats

\* The successor of a number is that of its packet's successor.
LEMMA SeqNext == \A a, i \in Int : SeqOf(SeqOf(a) + i) = SeqOf(a + i)
<1> SUFFICES ASSUME NEW a \in Int, NEW i \in Int
             PROVE  SeqOf(SeqOf(a) + i) = SeqOf(a + i)
  OBVIOUS
<1>1. SeqOf(0) = 0
  BY HalfIs, SeqSmall DEF Sequence
<1>2. SeqOf(a) \in Int
  BY SeqType, HalfIs DEF Sequence
<1>3. SeqOf(SeqOf(a) - SeqOf(0) + i) = SeqOf(a - 0 + i)
  BY SeqSum
<1> QED BY <1>1, <1>2, <1>3

\* The distance of the numbers of packets that are near is theirs.
LEMMA DistanceIs ==
    \A a, b \in Int :
        -Half <= b - a /\ b - a < Half => Distance(SeqOf(a), SeqOf(b)) = b - a
<1> SUFFICES ASSUME NEW a \in Int, NEW b \in Int, -Half <= b - a, b - a < Half
             PROVE  Distance(SeqOf(a), SeqOf(b)) = b - a
  OBVIOUS
<1>1. Distance(SeqOf(a), SeqOf(b)) = SeqOf(SeqOf(b) - SeqOf(a) + Half) - Half
  BY DEF Distance, SeqOf, Half
<1>2. SeqOf(SeqOf(b) - SeqOf(a) + Half) = SeqOf(b - a + Half)
  BY SeqSum, HalfIs
<1>3. b - a + Half \in Sequence
  BY HalfIs DEF Sequence
<1>4. SeqOf(b - a + Half) = b - a + Half
  BY <1>3, SeqSmall
<1> QED BY <1>1, <1>2, <1>4, HalfIs

\* What the list takes a number for is the packet of that number near n.
LEMMA PacketNearIs ==
    \A n, q \in Int :
        -Half <= q - n /\ q - n < Half => PacketNear(n, SeqOf(q)) = q
BY DistanceIs, HalfIs DEF PacketNear

\* A range holds the numbers of the packets from the first up to the last.
LEMMA BetweenIs ==
    \A a, b \in Int :
        0 <= b - a /\ b - a < Width =>
            Between(SeqOf(a), SeqOf(b)) = {SeqOf(q) : q \in a..b - 1}
<1> SUFFICES ASSUME NEW a \in Int, NEW b \in Int, 0 <= b - a, b - a < Width
             PROVE  Between(SeqOf(a), SeqOf(b)) = {SeqOf(q) : q \in a..b - 1}
  OBVIOUS
<1>1. SeqOf(a) \in Int /\ SeqOf(b) \in Int
  BY SeqType, HalfIs DEF Sequence
<1>2. SeqOf(SeqOf(b) - SeqOf(a) + 0) = SeqOf(b - a + 0)
  BY SeqSum
<1>3. (SeqOf(b) - SeqOf(a)) % Width = b - a
  <2>1. b - a \in Sequence
    BY HalfIs DEF Sequence
  <2>2. SeqOf(SeqOf(b) - SeqOf(a)) = b - a
    BY <1>1, <1>2, <2>1, SeqSmall
  <2> QED BY <2>2 DEF SeqOf
<1>4. Between(SeqOf(a), SeqOf(b)) = {SeqOf(SeqOf(a) + i) : i \in 0..b - a - 1}
  BY <1>3 DEF Between
<1>5. \A i \in 0..b - a - 1 : SeqOf(SeqOf(a) + i) = SeqOf(a + i)
  BY SeqNext
<1>6. \A i \in 0..b - a - 1 : a + i \in a..b - 1
  OBVIOUS
<1>7. \A q \in a..b - 1 : q - a \in 0..b - a - 1 /\ a + (q - a) = q
  OBVIOUS
<1> HIDE DEF SeqOf
<1> QED BY <1>4, <1>5, <1>6, <1>7

\* And as many of them, if these are less than a round.
LEMMA RangeCardinality ==
    \A a, b \in Int :
        a <= b /\ b - a <= Width =>
            /\ IsFiniteSet({SeqOf(q) : q \in a..b - 1})
            /\ Cardinality({SeqOf(q) : q \in a..b - 1}) = b - a
<1> SUFFICES ASSUME NEW a \in Int, NEW b \in Int, a <= b, b - a <= Width
             PROVE  /\ IsFiniteSet({SeqOf(q) : q \in a..b - 1})
                    /\ Cardinality({SeqOf(q) : q \in a..b - 1}) = b - a
  OBVIOUS
<1> DEFINE T == {SeqOf(q) : q \in a..b - 1}
           f == [q \in a..b - 1 |-> SeqOf(q)]
<1>1. f \in Bijection(a..b - 1, T)
  <2>1. \A p, q \in a..b - 1 : SeqOf(p) = SeqOf(q) => p = q
    BY SeqUnique, HalfIs
  <2>2. f \in [a..b - 1 -> T]
    OBVIOUS
  <2>3. \A p, q \in a..b - 1 : f[p] = f[q] => p = q
    BY <2>1
  <2>4. \A t \in T : \E q \in a..b - 1 : f[q] = t
    OBVIOUS
  <2> QED BY <2>2, <2>3, <2>4, Zenon DEF Bijection, Injection, Surjection, IsInjective
<1>2. ExistsBijection(a..b - 1, T)
  BY <1>1 DEF ExistsBijection
<1>3. IsFiniteSet(a..b - 1) /\ Cardinality(a..b - 1) = b - a
  <2>1. b - 1 \in Int
    OBVIOUS
  <2>2. /\ IsFiniteSet(a..b - 1)
        /\ Cardinality(a..b - 1) = IF a > b - 1 THEN 0 ELSE (b - 1) - a + 1
    BY <2>1, FS_Interval
  <2> QED BY <2>2
<1> QED BY <1>2, <1>3, FS_Bijection

\* The distance of a number leads to it.
LEMMA DistanceLeads ==
    \A a \in Int, s \in Sequence :
        /\ Distance(SeqOf(a), s) \in -Half..Half - 1
        /\ SeqOf(a + Distance(SeqOf(a), s)) = s
<1> SUFFICES ASSUME NEW a \in Int, NEW s \in Sequence
             PROVE  /\ Distance(SeqOf(a), s) \in -Half..Half - 1
                    /\ SeqOf(a + Distance(SeqOf(a), s)) = s
  OBVIOUS
<1> DEFINE x == s - SeqOf(a) + Half
<1>1. s \in Int /\ SeqOf(a) \in Int /\ x \in Int
  BY SeqType, HalfIs DEF Sequence
<1>2. Distance(SeqOf(a), s) = SeqOf(x) - Half
  BY DEF Distance, SeqOf, Half
<1>3. SeqOf(x) \in 0..Width - 1
  BY <1>1, SeqType DEF Sequence
<1> HIDE DEF x
<1>4. SeqOf(a + (SeqOf(x) - Half)) = s
  <2>1. PICK q \in Int : x = q * Width + SeqOf(x)
    BY <1>1, Quotient
  <2>2. x = s - SeqOf(a) + Half
    BY DEF x
  <2>3. PICK p \in Int : a = p * Width + SeqOf(a)
    BY Quotient
  <2>4. /\ (p - q) * Width = p * Width - q * Width
        /\ p * Width \in Int /\ q * Width \in Int
    BY HalfIs
  <2>5. a + (SeqOf(x) - Half) = s + (p - q) * Width
    BY <1>1, <1>3, <2>1, <2>2, <2>3, <2>4, HalfIs
  <2>6. p - q \in Int
    OBVIOUS
  <2> QED BY <1>1, <2>5, <2>6, SeqRepeats, SeqSmall
<1> QED BY <1>2, <1>3, <1>4, HalfIs

\* The successor's number is at most one more.
LEMMA SeqStep == \A a \in Int : SeqOf(a + 1) <= SeqOf(a) + 1
<1> SUFFICES ASSUME NEW a \in Int
             PROVE  SeqOf(a + 1) <= SeqOf(a) + 1
  OBVIOUS
<1>1. SeqOf(SeqOf(a) + 1) = SeqOf(a + 1)
  BY SeqNext
<1>2. SeqOf(a) \in 0..Width - 1 /\ SeqOf(a + 1) \in 0..Width - 1
  BY SeqType, HalfIs DEF Sequence
<1>3. CASE SeqOf(a) + 1 \in Sequence
  BY <1>1, <1>2, <1>3, SeqSmall
<1>4. CASE SeqOf(a) + 1 \notin Sequence
  BY <1>2, <1>4, HalfIs DEF Sequence
<1> QED BY <1>3, <1>4

\* Counting the wraps of numbers that grow by less than a round, one does not
\* get ahead.
LEMMA WrapsCount ==
    \A e, n, f \in Int :
        e <= n /\ n - e < Width /\ f * Width + SeqOf(e) <= e =>
            (IF SeqOf(n) < SeqOf(e) THEN f + 1 ELSE f) * Width + SeqOf(n + 1)
                <= n + 1
<1> SUFFICES ASSUME NEW e \in Int, NEW n \in Int, NEW f \in Int,
                    e <= n, n - e < Width, f * Width + SeqOf(e) <= e
             PROVE  (IF SeqOf(n) < SeqOf(e) THEN f + 1 ELSE f) * Width
                        + SeqOf(n + 1) <= n + 1
  OBVIOUS
<1> DEFINE g == IF SeqOf(n) < SeqOf(e) THEN f + 1 ELSE f
<1>1. PICK p \in Int : e = p * Width + SeqOf(e)
  BY Quotient
<1>2. PICK q \in Int : n = q * Width + SeqOf(n)
  BY Quotient
<1>3. /\ SeqOf(e) \in 0..Width - 1 /\ SeqOf(n) \in 0..Width - 1
      /\ SeqOf(n + 1) \in Int /\ SeqOf(n + 1) <= SeqOf(n) + 1
  BY SeqType, SeqStep, HalfIs DEF Sequence
<1>4. f <= p
  <2>1. /\ f * Width <= p * Width
        /\ (f - p) * Width = f * Width - p * Width
        /\ f * Width \in Int /\ p * Width \in Int
    BY <1>1, <1>3, HalfIs
  <2>2. ~((f - p) * Width >= Width)
    BY <2>1, HalfIs
  <2>3. ~(f - p > 0)
    BY <2>2, Multiple
  <2> QED BY <2>3
<1>5. IF SeqOf(n) < SeqOf(e) THEN p + 1 <= q ELSE p <= q
  <2>1. /\ (p - q) * Width = p * Width - q * Width
        /\ ((p + 1) - q) * Width = p * Width + Width - q * Width
        /\ q * Width \in Int /\ p * Width \in Int
    BY HalfIs
  <2>2. (p - q) * Width <= SeqOf(n) - SeqOf(e)
    BY <1>1, <1>2, <1>3, <2>1
  <2>3. CASE SeqOf(n) < SeqOf(e)
    <3>1. ((p + 1) - q) * Width < Width
      BY <1>3, <2>1, <2>2, <2>3, HalfIs
    <3>2. ~((p + 1) - q > 0)
      BY <3>1, Multiple, HalfIs
    <3> QED BY <2>3, <3>2
  <2>4. CASE ~(SeqOf(n) < SeqOf(e))
    <3>1. (p - q) * Width < Width
      BY <1>3, <2>1, <2>2, HalfIs
    <3>2. ~(p - q > 0)
      BY <3>1, Multiple, HalfIs
    <3> QED BY <2>4, <3>2
  <2> QED BY <2>3, <2>4
<1>6. g \in Int /\ g <= q
  BY <1>3, <1>4, <1>5
<1> HIDE DEF g
<1>7. g * Width <= q * Width /\ g * Width \in Int /\ q * Width \in Int
  BY <1>6, HalfIs
<1>8. g * Width + SeqOf(n + 1) <= n + 1
  BY <1>2, <1>3, <1>7
<1> QED BY <1>8 DEF g
-----------------------------------------------------------------------------
(***************************************************************************)
(* The inductive invariant.  The sequence numbers of the buffer and of the *)
(* list stand for packets: end for e, begin for b, and a listed s for      *)
(* PacketOf(s).  All of them but b are near the newest packet m.           *)
(***************************************************************************)

PacketOf(s) == nacks[s].packet

\* No packet of the span is q or follows it.
Beyond(q) == \A a \in span : a < q

\* A packet is listed under its number, and is not before the span.
Keyed ==
    \A s \in DOMAIN nacks :
        SeqOf(PacketOf(s)) = s /\ \E a \in span : a <= PacketOf(s)

\* A number that was not requested yet is due.
Fresh == \A s \in DOMAIN nacks : nacks[s].count = 0 => nacks[s].idle = LongAgo

SpanIsInterval == \A a, b \in span : \A q \in a..b : q \in span

\* The list may hold packets that did not exist yet: a late packet that is
\* compared with an old begin of the buffer lists them.  Then it holds all up
\* to the last of these, and a later one is not younger.  When one of them
\* arrives, those it shows missing are there already.
AheadIsListed ==
    \A s \in DOMAIN nacks, q \in Int :
        Beyond(q) /\ q <= PacketOf(s) =>
            SeqOf(q) \in DOMAIN nacks /\ PacketOf(SeqOf(q)) = q

NoOlder(i, j) ==
    /\ i.age <= j.age /\ i.count <= j.count
    /\ i.idle > j.idle => i.count < j.count

AheadAges ==
    \A s, t \in DOMAIN nacks :
        Beyond(PacketOf(s)) /\ PacketOf(s) <= PacketOf(t) =>
            NoOlder(nacks[s], nacks[t])

MissingKeyed ==
    \A n \in missing : SeqOf(n) \in DOMAIN nacks /\ PacketOf(SeqOf(n)) = n

\* The newest packet is ahead of the end by as many packets as are listed ahead
\* or arrive late.
Bounds(m, e, b) ==
    /\ newest = {m}
    /\ \A a \in span : a <= m
    /\ m < e + MaxQueue - 1 \/ m < e + Reorder
    /\ buf.end = SeqOf(e) /\ e - 1 \in span
    /\ buf.begin = SeqOf(b) /\ b < e + MaxQueue /\ \E a \in span : a <= b
    /\ \A s \in DOMAIN nacks :
          m - Half + MaxQueue < PacketOf(s) /\ PacketOf(s) < e + MaxQueue - 1
    /\ ~recounts => buf.flips * Width + buf.end <= e

BufferInv ==
    \/ /\ ~buf.initialized
       /\ span = {} /\ missing = {} /\ DOMAIN nacks = {}
       /\ newest = {} \/ \E m \in Packet : newest = {m}
    \/ /\ buf.initialized
       /\ \E m \in Packet, e, b \in Int : Bounds(m, e, b)

ListInv ==
    /\ Keyed /\ Fresh
    /\ AheadIsListed /\ AheadAges

NackInv == NackTypeOK /\ ListInv /\ SpanIsInterval /\ MissingKeyed /\ BufferInv

-----------------------------------------------------------------------------
(***************************************************************************)
(* What the invariant says of the list.                                    *)
(***************************************************************************)

\* LongAgo is the longest of the intervals.
LEMMA LongAgoType == LongAgo \in Nat /\ \A i \in Interval : i <= LongAgo
BY NackAssumption DEF LongAgo

\* The constants, as the proofs use them.
LEMMA ConstantTypes ==
    /\ MaxQueue \in Nat \ {0}
    /\ MaxAlive \in Nat /\ MaxCount \in Nat /\ FirstNack \in Nat
    /\ CheckEvery \in Nat \ {0}
    /\ First \in Nat /\ MaxSeq \in Nat /\ Reorder \in Nat /\ Burst \in Nat
    /\ Packet \subseteq Int
BY NackAssumption DEF Packet

\* The list as a function, and the parts of an entry.
LEMMA ListTypes ==
    ASSUME NackTypeOK
    PROVE  /\ DOMAIN nacks \subseteq Sequence
           /\ nacks \in [DOMAIN nacks -> InfoRec]
           /\ \A s \in DOMAIN nacks :
                /\ nacks[s] \in InfoRec
                /\ PacketOf(s) \in Int
                /\ nacks[s].age \in 0..MaxAlive + 1
                /\ nacks[s].idle \in 0..LongAgo
                /\ nacks[s].count \in 0..MaxCount + 1
BY DEF NackTypeOK, InfoRec, PacketOf

\* A part of the list is not longer.
LEMMA ListShrinks ==
    ASSUME NackTypeOK, NEW L \in SUBSET (DOMAIN nacks)
    PROVE  /\ L \subseteq Sequence
           /\ Cardinality(L) < MaxQueue
<1>1. IsFiniteSet(DOMAIN nacks)
  <2>1. IsFiniteSet(Sequence)
    <3>1. 0 \in Int /\ Width - 1 \in Int
      BY HalfIs
    <3> QED BY <3>1, FS_Interval DEF Sequence
  <2> QED BY <2>1, ListTypes, FS_Subset
<1>2. IsFiniteSet(L) /\ Cardinality(L) <= Cardinality(DOMAIN nacks)
  BY <1>1, FS_Subset
<1>3. Cardinality(L) \in Nat /\ Cardinality(DOMAIN nacks) \in Nat
  BY <1>1, <1>2, FS_CardinalityType
<1> QED BY <1>2, <1>3, ListTypes, ConstantTypes DEF NackTypeOK

-----------------------------------------------------------------------------
(***************************************************************************)
(* Initially there is nothing.                                             *)
(***************************************************************************)

\* NackInit establishes the invariant.
LEMMA NackInitial == NackInit => NackInv
<1> SUFFICES ASSUME NackInit
             PROVE  NackInv
  OBVIOUS
<1>1. nacks = Empty /\ DOMAIN nacks = {}
  BY DEF NackInit, Empty
<1>2. nacks \in [{} -> InfoRec]
  BY <1>1 DEF Empty
<1>3. Cardinality(DOMAIN nacks) < MaxQueue
  BY <1>1, ConstantTypes, FS_EmptySet
<1>4. NackTypeOK
  <2>1. buf \in BufferRec
    BY HalfIs DEF NackInit, BufferRec, Sequence
  <2>2. since \in 0..CheckEvery
    BY NackAssumption DEF NackInit
  <2>3. /\ newest \in SUBSET Packet /\ span \in SUBSET Packet
        /\ missing \in SUBSET Packet /\ recounts \in BOOLEAN
    BY DEF NackInit
  <2>4. \E L \in SUBSET Sequence : nacks \in [L -> InfoRec]
    BY <1>2
  <2> QED BY <1>3, <2>1, <2>2, <2>3, <2>4 DEF NackTypeOK
<1>5. ListInv
  BY <1>1 DEF ListInv, Keyed, Fresh, AheadIsListed, AheadAges
<1>6. SpanIsInterval /\ MissingKeyed
  BY DEF NackInit, SpanIsInterval, MissingKeyed
<1>7. BufferInv
  BY <1>1 DEF NackInit, BufferInv
<1> QED BY <1>4, <1>5, <1>6, <1>7 DEF NackInv
-----------------------------------------------------------------------------
(***************************************************************************)
(* Time passes.                                                            *)
(***************************************************************************)

\* The ages of all entries grow alike, up to their bounds.
LEMMA TickKeeps ==
    ASSUME NackInv, Tick
    PROVE  NackInv'
<1> USE DEF NackInv
<1>1. /\ DOMAIN nacks' = DOMAIN nacks
      /\ \A s \in DOMAIN nacks :
           nacks'[s] = [nacks[s] EXCEPT
                          !.age = IF @ <= MaxAlive THEN @ + 1 ELSE @,
                          !.idle = IF @ < LongAgo THEN @ + 1 ELSE @]
  BY DEF Tick
<1>2. \A s \in DOMAIN nacks :
         /\ nacks'[s] \in InfoRec
         /\ nacks'[s].packet = nacks[s].packet
         /\ nacks'[s].count = nacks[s].count
         /\ nacks'[s].age = IF nacks[s].age <= MaxAlive
                            THEN nacks[s].age + 1 ELSE nacks[s].age
         /\ nacks'[s].idle = IF nacks[s].idle < LongAgo
                             THEN nacks[s].idle + 1 ELSE nacks[s].idle
  <2> SUFFICES ASSUME NEW s \in DOMAIN nacks
               PROVE  /\ nacks'[s] \in InfoRec
                      /\ nacks'[s].packet = nacks[s].packet
                      /\ nacks'[s].count = nacks[s].count
                      /\ nacks'[s].age = IF nacks[s].age <= MaxAlive
                                         THEN nacks[s].age + 1 ELSE nacks[s].age
                      /\ nacks'[s].idle = IF nacks[s].idle < LongAgo
                                          THEN nacks[s].idle + 1
                                          ELSE nacks[s].idle
    OBVIOUS
  <2>1. /\ nacks[s] \in InfoRec
        /\ nacks[s].age \in 0..MaxAlive + 1 /\ nacks[s].idle \in 0..LongAgo
    BY ListTypes
  <2>2. /\ (IF nacks[s].age <= MaxAlive
            THEN nacks[s].age + 1 ELSE nacks[s].age) \in 0..MaxAlive + 1
        /\ (IF nacks[s].idle < LongAgo
            THEN nacks[s].idle + 1 ELSE nacks[s].idle) \in 0..LongAgo
    BY <2>1, LongAgoType, ConstantTypes
  <2> QED BY <1>1, <2>1, <2>2 DEF InfoRec
<1>3. UNCHANGED <<buf, newest, span, missing, recounts>>
  BY DEF Tick
<1>4. NackTypeOK'
  <2>1. nacks' \in [DOMAIN nacks -> InfoRec]
    BY <1>1, <1>2 DEF Tick
  <2>2. since' \in 0..CheckEvery
    <3>1. /\ since \in 0..CheckEvery
          /\ since' = IF since < CheckEvery THEN since + 1 ELSE since
      BY DEF Tick, NackTypeOK
    <3> QED BY <3>1, ConstantTypes
  <2> QED BY <1>1, <1>3, <2>1, <2>2, ListTypes DEF NackTypeOK
<1>5. ListInv'
  <2>1. Keyed' /\ AheadIsListed'
    BY <1>1, <1>2, <1>3 DEF ListInv, Keyed, AheadIsListed, PacketOf, Beyond
  <2>2. Fresh'
    <3> SUFFICES ASSUME NEW s \in DOMAIN nacks, nacks[s].count = 0
                 PROVE  nacks'[s].idle = LongAgo
      BY <1>1, <1>2 DEF Fresh
    <3>1. nacks[s].idle = LongAgo
      BY DEF ListInv, Fresh
    <3> QED BY <1>2, <3>1, LongAgoType
  <2>3. AheadAges'
    <3> SUFFICES ASSUME NEW s \in DOMAIN nacks, NEW t \in DOMAIN nacks,
                        Beyond(PacketOf(s)), PacketOf(s) <= PacketOf(t)
                 PROVE  NoOlder(nacks'[s], nacks'[t])
      BY <1>1, <1>2, <1>3 DEF AheadAges, PacketOf, Beyond
    <3>1. NoOlder(nacks[s], nacks[t])
      BY DEF ListInv, AheadAges
    <3> QED BY <1>2, <3>1, ListTypes, LongAgoType, ConstantTypes DEF NoOlder
  <2> QED BY <2>1, <2>2, <2>3 DEF ListInv
<1>6. SpanIsInterval' /\ MissingKeyed'
  BY <1>1, <1>2, <1>3 DEF SpanIsInterval, MissingKeyed, PacketOf
<1>7. BufferInv'
  BY <1>1, <1>2, <1>3 DEF BufferInv, Bounds, PacketOf
<1> QED BY <1>4, <1>5, <1>6, <1>7

-----------------------------------------------------------------------------
(***************************************************************************)
(* The timer checks the list.                                              *)
(***************************************************************************)

\* The packets of the list are less than half a round apart.
LEMMA ListedAreNear ==
    ASSUME NackInv, NEW s \in DOMAIN nacks, NEW t \in DOMAIN nacks
    PROVE  /\ Distance(s, t) = PacketOf(t) - PacketOf(s)
           /\ PacketOf(s) - PacketOf(t) < Half
<1>1. PICK m \in Packet, e \in Int, b \in Int : Bounds(m, e, b)
  BY DEF NackInv, BufferInv
<1>2. m \in Int /\ m >= e - 1
  BY <1>1, ConstantTypes DEF Bounds
<1>3. /\ PacketOf(s) \in Int /\ PacketOf(t) \in Int
      /\ SeqOf(PacketOf(s)) = s /\ SeqOf(PacketOf(t)) = t
  BY ListTypes DEF NackInv, ListInv, Keyed
<1>4. /\ m - Half + MaxQueue < PacketOf(s) /\ PacketOf(s) < e + MaxQueue - 1
      /\ m - Half + MaxQueue < PacketOf(t) /\ PacketOf(t) < e + MaxQueue - 1
  BY <1>1 DEF Bounds
<1>5. /\ PacketOf(s) - PacketOf(t) < Half
      /\ PacketOf(t) - PacketOf(s) < Half
  BY <1>2, <1>3, <1>4, ConstantTypes, HalfIs
<1> QED BY <1>3, <1>5, DistanceIs, HalfIs

\* Of the entries ahead of the span, the walk reaches all or none: a young one
\* among them, which ends it, is no younger than the first of them.
LEMMA WalkTogether ==
    ASSUME NackInv, NEW s \in DOMAIN nacks, NEW t \in DOMAIN nacks,
           Beyond(PacketOf(s)), PacketOf(s) <= PacketOf(t)
    PROVE  s \in Walked <=> t \in Walked
<1>1. PacketOf(s) \in Int /\ PacketOf(t) \in Int
  BY ListTypes DEF NackInv
<1>2. ASSUME NEW y \in DOMAIN nacks, Young(nacks[y]), PacketOf(s) <= PacketOf(y)
      PROVE  Young(nacks[s])
  <2>1. NoOlder(nacks[s], nacks[y])
    BY <1>2 DEF NackInv, ListInv, AheadAges
  <2> QED BY <1>2, <2>1, ListTypes, ConstantTypes
          DEF NoOlder, Young, Expired, NackInv
<1>3. ASSUME Young(nacks[s])
      PROVE  s \notin Walked /\ t \notin Walked
  <2>1. Distance(s, s) = PacketOf(s) - PacketOf(s)
    BY ListedAreNear
  <2>2. Distance(t, s) = PacketOf(s) - PacketOf(t)
    BY ListedAreNear
  <2>3. ~(Distance(s, s) > 0) /\ ~(Distance(t, s) > 0)
    BY <1>1, <2>1, <2>2
  <2> QED BY <1>3, <2>3 DEF Walked
<1>4. ASSUME ~Young(nacks[s]), s \notin Walked
      PROVE  t \notin Walked
  <2>1. PICK y \in DOMAIN nacks : Young(nacks[y]) /\ ~(Distance(s, y) > 0)
    BY <1>4 DEF Walked
  <2>2. PacketOf(y) \in Int /\ PacketOf(y) <= PacketOf(s)
    BY <1>1, <2>1, ListedAreNear, ListTypes DEF NackInv
  <2>3. ~(Distance(t, y) > 0)
    BY <1>1, <2>2, ListedAreNear
  <2> QED BY <2>1, <2>3 DEF Walked
<1>5. ASSUME ~Young(nacks[s]), t \notin Walked
      PROVE  s \notin Walked
  <2>1. PICK y \in DOMAIN nacks : Young(nacks[y]) /\ ~(Distance(t, y) > 0)
    BY <1>5 DEF Walked
  <2>2. PacketOf(y) \in Int /\ ~(PacketOf(s) <= PacketOf(y))
    BY <1>2, <1>5, <2>1, ListTypes DEF NackInv
  <2>3. ~(Distance(s, y) > 0)
    BY <1>1, <2>2, ListedAreNear
  <2> QED BY <2>1, <2>3 DEF Walked
<1> QED BY <1>3, <1>4, <1>5

\* The entries that stay follow each other as before: of two that are ahead of
\* the span either both were walked or none, and no expired one stays.
LEMMA CheckAges ==
    ASSUME NackInv, NEW interval \in Interval,
           NEW s \in DOMAIN nacks, NEW t \in DOMAIN nacks,
           Beyond(PacketOf(s)), PacketOf(s) <= PacketOf(t),
           ~(t \in Walked /\ Expired(nacks[t]))
    PROVE  NoOlder(IF s \in Walked /\ nacks[s].idle >= interval
                   THEN Requested(nacks[s]) ELSE nacks[s],
                   IF t \in Walked /\ nacks[t].idle >= interval
                   THEN Requested(nacks[t]) ELSE nacks[t])
<1>1. NoOlder(nacks[s], nacks[t])
  BY DEF NackInv, ListInv, AheadAges
<1>2. s \in Walked <=> t \in Walked
  BY WalkTogether
<1>3. CASE s \notin Walked
  BY <1>1, <1>2, <1>3
<1>4. CASE s \in Walked
  <2>1. t \in Walked /\ nacks[t].count <= MaxCount
    BY <1>2, <1>4, ListTypes, ConstantTypes DEF Expired, NackInv
  <2>2. interval \in Nat
    BY NackAssumption
  <2>3. /\ nacks[s] \in InfoRec /\ nacks[t] \in InfoRec
        /\ nacks[s].idle \in Nat /\ nacks[t].idle \in Nat
        /\ nacks[s].count \in Nat /\ nacks[t].count \in Nat
        /\ nacks[s].age \in Nat /\ nacks[t].age \in Nat
    BY ListTypes, LongAgoType, ConstantTypes DEF NackInv
  <2>4. \A u \in {s, t} :
           /\ Requested(nacks[u]).age = nacks[u].age
           /\ Requested(nacks[u]).idle = 0
           /\ Requested(nacks[u]).count = IF nacks[u].count <= MaxCount
                                          THEN nacks[u].count + 1
                                          ELSE nacks[u].count
    BY <2>3 DEF Requested, InfoRec
  <2> QED BY <1>1, <1>4, <2>1, <2>2, <2>3, <2>4, ConstantTypes DEF NoOlder
<1> QED BY <1>3, <1>4

\* An expired entry ahead of the span is dropped with all that follow it: an
\* entry that follows is expired too, and no young one ends the walk.
LEMMA DroppedTogether ==
    ASSUME NackInv, NEW s \in DOMAIN nacks, NEW t \in DOMAIN nacks,
           Beyond(PacketOf(s)), PacketOf(s) <= PacketOf(t),
           s \in Walked, Expired(nacks[s])
    PROVE  t \in Walked /\ Expired(nacks[t])
<1>1. NoOlder(nacks[s], nacks[t])
  BY DEF NackInv, ListInv, AheadAges
<1>2. Expired(nacks[t])
  BY <1>1, ListTypes, ConstantTypes DEF Expired, NoOlder, NackInv
<1> QED BY <1>2, WalkTogether

\* Requests and drops keep the invariant: the begin of the buffer follows the
\* last packet dropped, and what is missing is forgotten with its entry.
LEMMA CheckKeeps ==
    ASSUME NackInv, Check
    PROVE  NackInv'
<1> DEFINE dropped == {s \in Walked : Expired(nacks[s])}
<1>1. PICK interval \in Interval :
         nacks' = Erased([s \in DOMAIN nacks |->
                             IF s \in Walked /\ nacks[s].idle >= interval
                             THEN Requested(nacks[s]) ELSE nacks[s]],
                         dropped)
  BY DEF Check
<1>2. /\ DOMAIN nacks' = DOMAIN nacks \ dropped
      /\ \A s \in DOMAIN nacks' :
           nacks'[s] = IF s \in Walked /\ nacks[s].idle >= interval
                       THEN Requested(nacks[s]) ELSE nacks[s]
  BY <1>1 DEF Erased
<1>3. \A s \in DOMAIN nacks' :
         s \in DOMAIN nacks /\ ~(s \in Walked /\ Expired(nacks[s]))
  BY <1>2
<1>4. \A s \in DOMAIN nacks' :
         /\ nacks'[s] \in InfoRec
         /\ nacks'[s].packet = nacks[s].packet
         /\ nacks'[s].count = 0 =>
               nacks[s].count = 0 /\ nacks'[s].idle = nacks[s].idle
  <2> SUFFICES ASSUME NEW s \in DOMAIN nacks'
               PROVE  /\ nacks'[s] \in InfoRec
                      /\ nacks'[s].packet = nacks[s].packet
                      /\ nacks'[s].count = 0 =>
                            nacks[s].count = 0 /\ nacks'[s].idle = nacks[s].idle
    OBVIOUS
  <2>1. /\ nacks[s] \in InfoRec /\ nacks[s].count \in 0..MaxCount + 1
    BY <1>3, ListTypes DEF NackInv
  <2>2. /\ Requested(nacks[s]) \in InfoRec
        /\ Requested(nacks[s]).packet = nacks[s].packet
        /\ Requested(nacks[s]).count # 0
    <3>1. /\ (IF nacks[s].count <= MaxCount
              THEN nacks[s].count + 1 ELSE nacks[s].count) \in 1..MaxCount + 1
          /\ 0 \in 0..LongAgo
      BY <2>1, LongAgoType, ConstantTypes
    <3>2. Requested(nacks[s]) \in InfoRec
      <4> DEFINE c == IF nacks[s].count <= MaxCount
                     THEN nacks[s].count + 1 ELSE nacks[s].count
      <4>1. Requested(nacks[s]) = [nacks[s] EXCEPT !.count = c, !.idle = 0]
        BY DEF Requested
      <4>2. c \in 0..MaxCount + 1
        BY <3>1, ConstantTypes
      <4> HIDE DEF c
      <4> QED BY <2>1, <3>1, <4>1, <4>2 DEF InfoRec
    <3>3. Requested(nacks[s]).packet = nacks[s].packet
      BY <2>1 DEF Requested, InfoRec
    <3>4. Requested(nacks[s]).count \in 1..MaxCount + 1
      BY <2>1, <3>1 DEF Requested, InfoRec
    <3> QED BY <3>2, <3>3, <3>4, ConstantTypes
  <2> QED BY <1>2, <2>1, <2>2
<1>5. /\ UNCHANGED <<newest, span, recounts>>
      /\ missing' = missing \ {nacks[s].packet : s \in dropped}
      /\ since' = 0
  BY DEF Check
<1>6. \/ UNCHANGED buf
      \/ \E last \in DOMAIN nacks :
            buf' = [buf EXCEPT !.begin = SeqOf(last + 1)]
  BY DEF Check, Walked
<1> HIDE DEF dropped
<1>7. NackTypeOK'
  <2>1. DOMAIN nacks' \subseteq Sequence /\ Cardinality(DOMAIN nacks') < MaxQueue
    BY <1>2, ListShrinks DEF NackInv
  <2>2. nacks' \in [DOMAIN nacks' -> InfoRec]
    BY <1>1, <1>4 DEF Erased
  <2>3. \E L \in SUBSET Sequence : nacks' \in [L -> InfoRec]
    BY <2>1, <2>2
  <2>4. buf' \in BufferRec
    <3>1. \A last \in DOMAIN nacks : SeqOf(last + 1) \in Sequence
      BY ListTypes, SeqType, HalfIs DEF NackInv, Sequence
    <3>2. buf \in BufferRec
      BY DEF NackInv, NackTypeOK
    <3> QED BY <1>6, <3>1, <3>2 DEF BufferRec
  <2>5. since' \in 0..CheckEvery
    BY <1>5, ConstantTypes
  <2>6. /\ newest' \in SUBSET Packet /\ span' \in SUBSET Packet
        /\ missing' \in SUBSET Packet /\ recounts' \in BOOLEAN
    BY <1>5 DEF NackInv, NackTypeOK
  <2> QED BY <2>1, <2>3, <2>4, <2>5, <2>6 DEF NackTypeOK
<1>8. ListInv'
  <2>1. Keyed'
    BY <1>3, <1>4, <1>5 DEF NackInv, ListInv, Keyed, PacketOf
  <2>2. Fresh'
    BY <1>3, <1>4 DEF NackInv, ListInv, Fresh
  <2>3. AheadIsListed'
    <3> SUFFICES ASSUME NEW s \in DOMAIN nacks', NEW q \in Int,
                        Beyond(q), q <= PacketOf(s)
                 PROVE  SeqOf(q) \in DOMAIN nacks' /\ PacketOf(SeqOf(q))' = q
      BY <1>3, <1>4, <1>5 DEF AheadIsListed, PacketOf, Beyond
    <3>1. SeqOf(q) \in DOMAIN nacks /\ PacketOf(SeqOf(q)) = q
      BY <1>3 DEF NackInv, ListInv, AheadIsListed
    <3>2. SeqOf(q) \notin dropped
      BY <1>3, <3>1, DroppedTogether DEF dropped
    <3> QED BY <1>2, <1>4, <3>1, <3>2 DEF PacketOf
  <2>4. AheadAges'
    <3> SUFFICES ASSUME NEW s \in DOMAIN nacks', NEW t \in DOMAIN nacks',
                        Beyond(PacketOf(s)), PacketOf(s) <= PacketOf(t)
                 PROVE  NoOlder(nacks'[s], nacks'[t])
      BY <1>3, <1>4, <1>5 DEF AheadAges, PacketOf, Beyond
    <3> QED BY <1>2, <1>3, CheckAges
  <2> QED BY <2>1, <2>2, <2>3, <2>4 DEF ListInv
<1>9. SpanIsInterval' /\ MissingKeyed'
  <2>1. SpanIsInterval'
    BY <1>5 DEF NackInv, SpanIsInterval
  <2>2. MissingKeyed'
    <3> SUFFICES ASSUME NEW n \in missing'
                 PROVE  SeqOf(n) \in DOMAIN nacks' /\ PacketOf(SeqOf(n))' = n
      BY DEF MissingKeyed
    <3>1. SeqOf(n) \in DOMAIN nacks /\ nacks[SeqOf(n)].packet = n
      BY <1>5 DEF NackInv, MissingKeyed, PacketOf
    <3>2. SeqOf(n) \notin dropped
      BY <1>5, <3>1
    <3> QED BY <1>2, <1>4, <3>1, <3>2 DEF PacketOf
  <2> QED BY <2>1, <2>2
<1>10. BufferInv'
  <2>1. CASE ~buf.initialized
    <3>1. /\ DOMAIN nacks = {} /\ span = {} /\ missing = {}
          /\ newest = {} \/ \E m \in Packet : newest = {m}
      BY <2>1 DEF NackInv, BufferInv
    <3>2. buf' = buf /\ DOMAIN nacks' = {} /\ span' = {} /\ missing' = {}
      BY <1>2, <1>5, <1>6, <3>1
    <3> QED BY <1>5, <2>1, <3>1, <3>2 DEF BufferInv
  <2>2. CASE buf.initialized
    <3>1. PICK m \in Packet, e \in Int, b \in Int : Bounds(m, e, b)
      BY <2>2 DEF NackInv, BufferInv
    <3>2. \A s \in DOMAIN nacks' :
             /\ m - Half + MaxQueue < nacks'[s].packet
             /\ nacks'[s].packet < e + MaxQueue - 1
      BY <1>3, <1>4, <3>1 DEF Bounds, PacketOf
    <3>3. CASE UNCHANGED buf
      <4>1. Bounds(m, e, b)'
        BY <1>5, <3>1, <3>2, <3>3 DEF Bounds, PacketOf
      <4> QED BY <2>2, <3>3, <4>1 DEF BufferInv
    <3>4. CASE \E last \in DOMAIN nacks :
                  buf' = [buf EXCEPT !.begin = SeqOf(last + 1)]
      <4>1. PICK last \in DOMAIN nacks :
                buf' = [buf EXCEPT !.begin = SeqOf(last + 1)]
        BY <3>4
      <4>2. PICK p \in Int :
                /\ SeqOf(p) = last /\ \E a \in span : a <= p
                /\ p < e + MaxQueue - 1
        BY <3>1, ListTypes DEF NackInv, ListInv, Keyed, Bounds
      <4>3. buf \in BufferRec
        BY DEF NackInv, NackTypeOK
      <4>4. /\ buf'.begin = SeqOf(p + 1) /\ buf'.end = buf.end
            /\ buf'.flips = buf.flips /\ buf'.initialized = buf.initialized
        BY <4>1, <4>2, <4>3, SeqNext DEF BufferRec
      <4>5. p + 1 \in Int /\ p + 1 < e + MaxQueue /\ \E a \in span : a <= p + 1
        <5>1. span \subseteq Int
          BY ConstantTypes DEF NackInv, NackTypeOK
        <5> QED BY <4>2, <5>1, ConstantTypes
      <4>6. Bounds(m, e, p + 1)'
        BY <1>5, <3>1, <3>2, <4>4, <4>5 DEF Bounds, PacketOf
      <4> QED BY <2>2, <4>4, <4>5, <4>6 DEF BufferInv
    <3> QED BY <1>6, <3>3, <3>4
  <2> QED BY <2>1, <2>2
<1> QED BY <1>7, <1>8, <1>9, <1>10 DEF NackInv
-----------------------------------------------------------------------------
(***************************************************************************)
(* A packet arrives.                                                       *)
(***************************************************************************)

\* It is less than half a round from the end and from all that is listed.
LEMMA ArrivesNear ==
    ASSUME NackInv, NEW n \in Packet, Arrives(n),
           NEW m \in Packet, NEW e \in Int, NEW b \in Int, Bounds(m, e, b)
    PROVE  /\ m - Reorder <= n /\ e - 1 <= m
           /\ -Half <= n - e /\ n - e < Half
           /\ \A s \in DOMAIN nacks :
                -Half < n - PacketOf(s) /\ n - PacketOf(s) < Half - MaxQueue
<1>1. n \in Int /\ m \in Int /\ Reorder \in Nat /\ Burst \in Nat
      /\ MaxQueue \in Nat
  BY ConstantTypes
<1>2. m - Reorder <= n /\ n <= m + Burst + 1
  <2>1. newest = {m}
    BY DEF Bounds
  <2>2. n \in m - Reorder..m + Burst + 1
    BY <2>1 DEF Arrives
  <2> QED BY <1>1, <2>2
<1>3. e - 1 <= m /\ (m < e + MaxQueue - 1 \/ m < e + Reorder)
  BY DEF Bounds
<1>4. /\ 2 * MaxQueue <= Half /\ MaxQueue + Burst <= Half
      /\ MaxQueue + Reorder < Half /\ Reorder + Burst < Half
  BY WidthAssumption DEF Half
<1>5. -Half <= n - e /\ n - e < Half
  BY <1>1, <1>2, <1>3, <1>4, HalfIs, ConstantTypes
<1>6. ASSUME NEW s \in DOMAIN nacks
      PROVE  -Half < n - PacketOf(s) /\ n - PacketOf(s) < Half - MaxQueue
  <2>1. PacketOf(s) \in Int /\ PacketOf(s) < e + MaxQueue - 1
    BY ListTypes DEF NackInv, Bounds
  <2>2. n - PacketOf(s) < Half - MaxQueue
    BY DEF Arrives, PacketOf, Half
  <2> QED BY <1>1, <1>2, <1>3, <1>4, <2>1, <2>2, HalfIs
<1> QED BY <1>2, <1>3, <1>5, <1>6

\* A number that is listed is listed for the packet that arrives.
LEMMA ListedForIt ==
    ASSUME NackInv, NEW n \in Packet, Arrives(n), SeqOf(n) \in DOMAIN nacks
    PROVE  PacketOf(SeqOf(n)) = n
<1>1. PICK m \in Packet, e \in Int, b \in Int : Bounds(m, e, b)
  BY DEF NackInv, BufferInv
<1>2. /\ PacketOf(SeqOf(n)) \in Int
      /\ SeqOf(PacketOf(SeqOf(n))) = SeqOf(n)
  BY ListTypes DEF NackInv, ListInv, Keyed
<1>3. n \in Int /\ MaxQueue \in Nat
  BY ConstantTypes
<1>4. -Half < n - PacketOf(SeqOf(n)) /\ n - PacketOf(SeqOf(n)) < Half - MaxQueue
  BY <1>1, ArrivesNear
<1>5. n - PacketOf(SeqOf(n)) < Width /\ PacketOf(SeqOf(n)) - n < Width
  BY <1>2, <1>3, <1>4, HalfIs
<1> QED BY <1>2, <1>3, <1>5, SeqUnique

\* The span with the packet and the gap to it is an interval again.
LEMMA SpanGrows ==
    ASSUME NackInv, NEW n \in Packet, span' = span \union Gap(n) \union {n}
    PROVE  /\ span' \in SUBSET Packet
           /\ SpanIsInterval'
           /\ \A x \in span' : x <= n \/ \E a \in span : x <= a
<1>1. span \subseteq Packet /\ Packet \subseteq Int
  BY ConstantTypes DEF NackInv, NackTypeOK
<1>2. span' \in SUBSET Packet
  BY <1>1 DEF Gap
<1>3. \A x \in span' :
         x = n \/ x \in span \/ \E a \in span : (a < x /\ x < n) \/ (n < x /\ x < a)
  BY DEF Gap
<1>4. \A x \in span' : x <= n \/ \E a \in span : x <= a
  BY <1>1, <1>2, <1>3
<1>5. SpanIsInterval'
  <2> SUFFICES ASSUME NEW x \in span', NEW y \in span', NEW q \in x..y
               PROVE  q \in span'
    BY DEF SpanIsInterval
  <2>1. x \in Packet /\ y \in Packet /\ q \in Packet
    BY <1>2, ConstantTypes DEF Packet
  <2>2. x \in Int /\ y \in Int /\ q \in Int /\ n \in Int /\ x <= q /\ q <= y
    BY <1>1, <2>1
  <2>3. CASE q \in span \/ q = n \/ q = x \/ q = y
    BY <2>3
  <2>4. CASE q \notin span /\ q < n /\ x < q
    <3>1. \E a \in span : a < q /\ q < n
      BY <1>1, <1>3, <2>2, <2>4
    <3> QED BY <2>1, <2>4, <3>1 DEF Gap
  <2>5. CASE q \notin span /\ n < q /\ q < y
    <3>1. \E a \in span : n < q /\ q < a
      BY <1>1, <1>3, <2>2, <2>5
    <3> QED BY <2>1, <2>5, <3>1 DEF Gap
  <2> QED BY <2>2, <2>3, <2>4, <2>5
<1> QED BY <1>2, <1>4, <1>5

\* What receiving makes of the newest packet.
LEMMA NewestGrows ==
    ASSUME NEW n \in Packet, NEW m \in Packet, newest = {m},
           newest' = IF \E k \in newest : k > n THEN newest ELSE {n}
    PROVE  newest' = {IF m > n THEN m ELSE n}
OBVIOUS

\* The packet was listed.  Those that it shows missing are listed too: it was
\* ahead of the span, and so are they.
LEMMA ListedArrives ==
    ASSUME NackInv, NEW n \in Packet, Arrives(n), OnNackListed(n),
           newest' = IF \E k \in newest : k > n THEN newest ELSE {n},
           UNCHANGED since
    PROVE  NackInv'
<1> DEFINE s0 == SeqOf(n)
<1>1. /\ s0 \in DOMAIN nacks
      /\ nacks' = Erased(nacks, {s0})
      /\ span' = span \union Gap(n) \union {n}
      /\ missing' = (missing \union Gap(n)) \ {n}
      /\ UNCHANGED <<buf, recounts>>
  BY DEF OnNackListed
<1>2. /\ DOMAIN nacks' = DOMAIN nacks \ {s0}
      /\ \A s \in DOMAIN nacks' : s \in DOMAIN nacks /\ nacks'[s] = nacks[s]
  BY <1>1 DEF Erased
<1>3. PICK m \in Packet, e \in Int, b \in Int : Bounds(m, e, b)
  BY <1>1 DEF NackInv, BufferInv
<1>4. PacketOf(s0) = n
  BY <1>1, ListedForIt
<1>5. /\ span' \in SUBSET Packet /\ SpanIsInterval'
      /\ \A x \in span' : x <= n \/ \E a \in span : x <= a
  BY <1>1, SpanGrows
<1>6. /\ span \subseteq Int /\ n \in Int /\ m \in Int /\ Packet \subseteq Int
      /\ MaxQueue \in Nat \ {0} /\ Reorder \in Nat
  BY ConstantTypes DEF NackInv, NackTypeOK
<1> HIDE DEF s0
<1>7. NackTypeOK'
  <2>1. DOMAIN nacks' \subseteq Sequence /\ Cardinality(DOMAIN nacks') < MaxQueue
    BY <1>2, ListShrinks DEF NackInv
  <2>2. nacks' \in [DOMAIN nacks' -> InfoRec]
    BY <1>1, <1>2, ListTypes DEF Erased, NackInv
  <2>3. \E L \in SUBSET Sequence : nacks' \in [L -> InfoRec]
    BY <2>1, <2>2
  <2>4. newest' \in SUBSET Packet
    BY DEF NackInv, NackTypeOK
  <2>5. missing' \in SUBSET Packet
    BY <1>1 DEF NackInv, NackTypeOK, Gap
  <2> QED BY <1>1, <1>5, <2>1, <2>3, <2>4, <2>5 DEF NackInv, NackTypeOK
<1>8. ListInv'
  <2>1. Keyed'
    BY <1>1, <1>2 DEF NackInv, ListInv, Keyed, PacketOf
  <2>2. Fresh'
    BY <1>2 DEF NackInv, ListInv, Fresh
  <2>3. \A q \in Int : Beyond(q)' => Beyond(q) /\ n < q
    BY <1>1 DEF Beyond
  <2>4. AheadIsListed'
    <3> SUFFICES ASSUME NEW s \in DOMAIN nacks', NEW q \in Int,
                        Beyond(q)', q <= PacketOf(s)'
                 PROVE  SeqOf(q) \in DOMAIN nacks' /\ PacketOf(SeqOf(q))' = q
      BY DEF AheadIsListed
    <3>1. SeqOf(q) \in DOMAIN nacks /\ PacketOf(SeqOf(q)) = q /\ n < q
      BY <1>2, <2>3 DEF NackInv, ListInv, AheadIsListed, PacketOf
    <3>2. SeqOf(q) # s0
      BY <1>4, <1>6, <3>1
    <3> QED BY <1>2, <3>1, <3>2 DEF PacketOf
  <2>5. AheadAges'
    <3> SUFFICES ASSUME NEW s \in DOMAIN nacks', NEW t \in DOMAIN nacks',
                        Beyond(PacketOf(s))', PacketOf(s)' <= PacketOf(t)'
                 PROVE  NoOlder(nacks'[s], nacks'[t])
      BY DEF AheadAges
    <3>1. /\ s \in DOMAIN nacks /\ t \in DOMAIN nacks
          /\ PacketOf(s)' = PacketOf(s) /\ PacketOf(t)' = PacketOf(t)
          /\ PacketOf(s) \in Int
      BY <1>2, ListTypes DEF PacketOf, NackInv
    <3>2. Beyond(PacketOf(s)) /\ PacketOf(s) <= PacketOf(t)
      BY <1>1, <3>1 DEF Beyond
    <3> QED BY <1>2, <3>1, <3>2 DEF NackInv, ListInv, AheadAges
  <2> QED BY <2>1, <2>2, <2>4, <2>5 DEF ListInv
<1>9. MissingKeyed'
  <2> SUFFICES ASSUME NEW k \in missing'
               PROVE  SeqOf(k) \in DOMAIN nacks' /\ PacketOf(SeqOf(k))' = k
    BY DEF MissingKeyed
  <2>1. k # n /\ (k \in missing \/ k \in Gap(n))
    BY <1>1
  <2>2. SeqOf(k) \in DOMAIN nacks /\ PacketOf(SeqOf(k)) = k
    <3>1. CASE k \in missing
      BY <3>1 DEF NackInv, MissingKeyed
    <3>2. CASE k \in Gap(n)
      <4>1. k \in Int /\ k \notin span
        BY <1>6, <3>2 DEF Gap
      <4>2. PICK a \in span : a <= n
        BY <1>1, <1>4 DEF NackInv, ListInv, Keyed
      <4>3. PICK c \in span : (c < k /\ k < n) \/ (n < k /\ k < c)
        BY <3>2 DEF Gap
      <4>4. c < k /\ k < n
        <5>1. CASE n < k /\ k < c
          <6>1. k \in a..c
            BY <1>6, <4>1, <4>2, <5>1
          <6> QED BY <4>1, <6>1 DEF NackInv, SpanIsInterval
        <5> QED BY <4>3, <5>1
      <4>5. Beyond(k)
        <5> SUFFICES ASSUME NEW d \in span, ~(d < k)
                     PROVE  FALSE
          BY DEF Beyond
        <5>1. k \in c..d
          BY <1>6, <4>1, <4>4
        <5> QED BY <4>1, <5>1 DEF NackInv, SpanIsInterval
      <4> QED BY <1>1, <1>4, <1>6, <4>1, <4>4, <4>5
              DEF NackInv, ListInv, AheadIsListed
    <3> QED BY <2>1, <3>1, <3>2
  <2>3. SeqOf(k) # s0
    BY <1>4, <2>1, <2>2
  <2> QED BY <1>2, <2>2, <2>3 DEF PacketOf
<1>10. BufferInv'
  <2>1. PICK mm \in Packet : newest' = {mm} /\ mm = IF m > n THEN m ELSE n
    BY <1>3, NewestGrows DEF Bounds
  <2>2. /\ \A x \in span : x <= m
        /\ n < e + MaxQueue - 1
    BY <1>1, <1>3, <1>4 DEF Bounds
  <2>3. \A x \in span' : x <= mm
    BY <1>5, <1>6, <2>1, <2>2
  <2>4. mm < e + MaxQueue - 1 \/ mm < e + Reorder
    BY <1>3, <2>1, <2>2 DEF Bounds
  <2>5. \A s \in DOMAIN nacks :
           mm - Half + MaxQueue < PacketOf(s) /\ PacketOf(s) < e + MaxQueue - 1
    <3> SUFFICES ASSUME NEW s \in DOMAIN nacks
                 PROVE  /\ mm - Half + MaxQueue < PacketOf(s)
                        /\ PacketOf(s) < e + MaxQueue - 1
      OBVIOUS
    <3>1. n - PacketOf(s) < Half - MaxQueue /\ PacketOf(s) \in Int
      BY <1>3, ArrivesNear, ListTypes DEF NackInv
    <3> QED BY <1>3, <1>6, <2>1, <3>1, HalfIs DEF Bounds
  <2>6. Bounds(mm, e, b)'
    BY <1>1, <1>2, <1>3, <2>1, <2>3, <2>4, <2>5 DEF Bounds, PacketOf
  <2>7. buf.initialized
    BY <1>1 DEF NackInv, BufferInv
  <2> QED BY <1>1, <2>6, <2>7 DEF BufferInv
<1> QED BY <1>5, <1>7, <1>8, <1>9, <1>10 DEF NackInv

\* The range that the buffer reports stands for the packets from f up to g: those
\* from the end to the new packet, or from it to the begin.  It covers what
\* the packet shows missing.
LEMMA RangeIs ==
    ASSUME NackInv, NEW n \in Packet, Arrives(n), buf.initialized,
           NEW m \in Packet, NEW e \in Int, NEW b \in Int, Bounds(m, e, b)
    PROVE  \E f, g \in Int :
              /\ f <= g /\ -Half <= f - n /\ g - n <= Half
              /\ (e <= n /\ f = e /\ g = n) \/ (n < e /\ f = n)
              /\ RangeOf(SeqOf(n)) = {SeqOf(q) : q \in f..g - 1}
              /\ Gap(n) \subseteq f..g - 1
<1>1. /\ n \in Int /\ m \in Int /\ span \subseteq Int /\ Packet \subseteq Int
      /\ MaxQueue \in Nat \ {0} /\ Reorder \in Nat
  BY ConstantTypes DEF NackInv, NackTypeOK
<1>2. /\ m - Reorder <= n /\ e - 1 <= m
      /\ -Half <= n - e /\ n - e < Half
  BY ArrivesNear
<1>3. buf.end = SeqOf(e) /\ buf.begin = SeqOf(b) /\ e - 1 \in span
  BY DEF Bounds
<1>4. Distance(buf.end, SeqOf(n)) = n - e
  BY <1>1, <1>2, <1>3, DistanceIs
<1>5. ASSUME NEW k \in Gap(n)
      PROVE  /\ k \in Int /\ k \notin span
             /\ \E a \in span : (a < k /\ k < n) \/ (n < k /\ k < a)
             /\ \A a, c \in span : ~(a <= k /\ k <= c)
  <2>1. /\ k \in Int /\ k \notin span
        /\ \E a \in span : (a < k /\ k < n) \/ (n < k /\ k < a)
    BY <1>1 DEF Gap
  <2>2. ASSUME NEW a \in span, NEW c \in span, a <= k, k <= c
        PROVE  FALSE
    <3>1. k \in a..c
      BY <1>1, <2>1, <2>2
    <3> QED BY <2>1, <3>1 DEF NackInv, SpanIsInterval
  <2> QED BY <2>1, <2>2
<1>6. CASE e <= n
  <2>1. RangeOf(SeqOf(n)) = {SeqOf(q) : q \in e..n - 1}
    <3>1. CASE n - e > 0
      <4>1. RangeOf(SeqOf(n)) = Between(SeqOf(e), SeqOf(n))
        BY <1>3, <1>4, <3>1, <1>1 DEF RangeOf
      <4> QED BY <1>1, <1>2, <3>1, <4>1, BetweenIs, HalfIs
    <3>2. CASE ~(n - e > 0)
      <4>1. RangeOf(SeqOf(n)) = {}
        BY <1>4, <1>6, <3>2, <1>1 DEF RangeOf
      <4>2. e..n - 1 = {}
        BY <1>1, <3>2
      <4> QED BY <4>1, <4>2
    <3> QED BY <3>1, <3>2
  <2>2. Gap(n) \subseteq e..n - 1
    <3> SUFFICES ASSUME NEW k \in Gap(n)
                 PROVE  k \in e..n - 1
      OBVIOUS
    <3>1. PICK a \in span : (a < k /\ k < n) \/ (n < k /\ k < a)
      BY <1>5
    <3>2. ~(a <= k /\ k <= e - 1) /\ ~(e - 1 <= k /\ k <= a)
      BY <1>3, <1>5
    <3> QED BY <1>1, <1>5, <1>6, <3>1, <3>2
  <2> QED BY <1>1, <1>2, <1>6, <2>1, <2>2, HalfIs
<1>7. CASE n < e
  <2> DEFINE d == Distance(SeqOf(n), buf.begin)
             g == IF d > 0 THEN n + d ELSE n
  <2>1. /\ d \in -Half..Half - 1
        /\ SeqOf(n + d) = buf.begin
    BY <1>1, <1>3, SeqType, DistanceLeads
  <2>2. d \in Int
    BY <2>1, HalfIs
  <2>3. RangeOf(SeqOf(n)) = IF d > 0 THEN Between(SeqOf(n), buf.begin) ELSE {}
    BY <1>1, <1>4, <1>7 DEF RangeOf
  <2> HIDE DEF d
  <2>4. RangeOf(SeqOf(n)) = {SeqOf(q) : q \in n..g - 1}
    <3>1. CASE d > 0
      <4>1. Between(SeqOf(n), SeqOf(n + d)) = {SeqOf(q) : q \in n..(n + d) - 1}
        BY <1>1, <2>1, <2>2, <3>1, BetweenIs, HalfIs
      <4> QED BY <2>1, <2>3, <3>1, <4>1
    <3>2. CASE ~(d > 0)
      <4>1. n..g - 1 = {}
        BY <1>1, <3>2
      <4> QED BY <2>3, <3>2, <4>1
    <3> QED BY <3>1, <3>2
  <2>5. Gap(n) \subseteq n..g - 1
    <3> SUFFICES ASSUME NEW k \in Gap(n)
                 PROVE  k \in n..g - 1
      OBVIOUS
    <3>1. PICK a \in span : (a < k /\ k < n) \/ (n < k /\ k < a)
      BY <1>5
    <3>2. n < k /\ k < a
      <4>1. ~(a <= k /\ k <= e - 1)
        BY <1>3, <1>5
      <4> QED BY <1>1, <1>5, <1>7, <3>1, <4>1
    <3>3. PICK c \in span : c <= b
      BY DEF Bounds
    <3>4. k < c
      <4>1. ~(c <= k /\ k <= a)
        BY <1>5
      <4> QED BY <1>1, <1>5, <3>2, <4>1
    <3>5. b - n < Half /\ 0 < b - n
      <4>1. b < e + MaxQueue
        BY DEF Bounds
      <4>2. MaxQueue + Reorder < Half
        BY WidthAssumption DEF Half
      <4> QED BY <1>1, <1>2, <1>5, <3>2, <3>3, <3>4, <4>1, <4>2, HalfIs
    <3>6. d = b - n
      BY <1>1, <1>3, <3>5, DistanceIs, HalfIs DEF d
    <3> QED BY <1>1, <1>5, <3>2, <3>3, <3>4, <3>5, <3>6
  <2>6. g \in Int /\ n <= g /\ g - n <= Half
    BY <1>1, <2>1, <2>2, HalfIs
  <2> HIDE DEF g
  <2> QED BY <1>1, <1>7, <2>4, <2>5, <2>6, HalfIs
<1> QED BY <1>1, <1>6, <1>7

\* Listing a range of packets that are near keeps what is known of the list.
LEMMA InsertKeeps ==
    ASSUME NackInv, NEW n \in Packet, NEW f \in Int, NEW g \in Int,
           f <= g, -Half <= f - n, g - n <= Half, f = n \/ g <= n,
           \E a \in span \union {n} : a <= f,
           \A s \in DOMAIN nacks : -Half < n - PacketOf(s) /\ n - PacketOf(s) < Half,
           nacks' = Inserted(nacks, {SeqOf(q) : q \in f..g - 1}, n),
           span' = span \union Gap(n) \union {n}
    PROVE  /\ DOMAIN nacks' \subseteq Sequence
           /\ nacks' \in [DOMAIN nacks' -> InfoRec]
           /\ ListInv'
           /\ \A s \in DOMAIN nacks :
                s \in DOMAIN nacks' /\ PacketOf(s)' = PacketOf(s)
           /\ \A q \in f..g - 1 :
                SeqOf(q) \in DOMAIN nacks' /\ PacketOf(SeqOf(q))' = q
           /\ \A s \in DOMAIN nacks' :
                s \in DOMAIN nacks \/ PacketOf(s)' \in f..g - 1
<1> DEFINE S == {SeqOf(q) : q \in f..g - 1}
           fresh(p) == [packet |-> p, age |-> 0, idle |-> LongAgo, count |-> 0]
<1>1. /\ n \in Int /\ span \subseteq Int /\ Packet \subseteq Int
      /\ MaxAlive \in Nat /\ MaxCount \in Nat
  BY ConstantTypes DEF NackInv, NackTypeOK
<1>2. \A q \in f..g - 1 :
         /\ q \in Int /\ SeqOf(q) \in S
         /\ -Half <= q - n /\ q - n < Half
         /\ PacketNear(n, SeqOf(q)) = q
  <2> SUFFICES ASSUME NEW q \in f..g - 1
               PROVE  /\ q \in Int /\ SeqOf(q) \in S
                      /\ -Half <= q - n /\ q - n < Half
                      /\ PacketNear(n, SeqOf(q)) = q
    OBVIOUS
  <2>1. q \in Int /\ -Half <= q - n /\ q - n < Half
    BY <1>1, HalfIs
  <2>2. SeqOf(q) \in S
    OBVIOUS
  <2> HIDE DEF S
  <2> QED BY <1>1, <2>1, <2>2, PacketNearIs
<1>3. \A s \in S : \E q \in f..g - 1 : s = SeqOf(q)
  OBVIOUS
<1>4. /\ DOMAIN nacks' = DOMAIN nacks \union S
      /\ \A s \in DOMAIN nacks' :
           nacks'[s] = IF s \in S THEN fresh(PacketNear(n, s)) ELSE nacks[s]
  BY DEF Inserted
<1>5. \A s \in DOMAIN nacks :
         /\ nacks[s] \in InfoRec /\ PacketOf(s) \in Int
         /\ SeqOf(PacketOf(s)) = s
  BY ListTypes DEF NackInv, ListInv, Keyed
<1> HIDE DEF S
<1>6. \A q \in f..g - 1 :
         SeqOf(q) \in DOMAIN nacks' /\ nacks'[SeqOf(q)] = fresh(q)
  BY <1>2, <1>4
<1> HIDE DEF fresh
<1>7. \A p : /\ fresh(p).packet = p /\ fresh(p).age = 0
             /\ fresh(p).idle = LongAgo /\ fresh(p).count = 0
  BY DEF fresh
<1>8. \A p \in Int : fresh(p) \in InfoRec
  <2>1. 0 \in 0..MaxAlive + 1 /\ LongAgo \in 0..LongAgo /\ 0 \in 0..MaxCount + 1
    BY <1>1, LongAgoType
  <2> QED BY <2>1 DEF fresh, InfoRec
<1>9. \A s \in DOMAIN nacks' :
         \/ s \notin S /\ s \in DOMAIN nacks /\ nacks'[s] = nacks[s]
         \/ \E q \in f..g - 1 : s \in S /\ s = SeqOf(q) /\ nacks'[s] = fresh(q)
  BY <1>3, <1>4, <1>6
<1>10. \A s \in DOMAIN nacks :
          s \in DOMAIN nacks' /\ PacketOf(s)' = PacketOf(s)
  <2> SUFFICES ASSUME NEW s \in DOMAIN nacks
               PROVE  s \in DOMAIN nacks' /\ PacketOf(s)' = PacketOf(s)
    OBVIOUS
  <2>1. CASE s \notin S
    BY <1>4, <2>1 DEF PacketOf
  <2>2. CASE s \in S
    <3>1. PICK q \in f..g - 1 : s = SeqOf(q)
      BY <1>3, <2>2
    <3>2. PacketOf(s) - q < Width /\ q - PacketOf(s) < Width
      BY <1>1, <1>2, <1>5, HalfIs
    <3>3. PacketOf(s) = q
      BY <1>2, <1>5, <3>1, <3>2, SeqUnique
    <3> QED BY <1>6, <1>7, <3>1, <3>3 DEF PacketOf
  <2> QED BY <2>1, <2>2
<1>11. \A q \in f..g - 1 :
          SeqOf(q) \in DOMAIN nacks' /\ PacketOf(SeqOf(q))' = q
  BY <1>6, <1>7 DEF PacketOf
<1>12. \A s \in DOMAIN nacks' :
          s \in DOMAIN nacks \/ PacketOf(s)' \in f..g - 1
  BY <1>9, <1>7 DEF PacketOf
<1>13. DOMAIN nacks' \subseteq Sequence /\ nacks' \in [DOMAIN nacks' -> InfoRec]
  <2>1. DOMAIN nacks' \subseteq Sequence
    BY <1>2, <1>3, <1>4, SeqType, ListTypes DEF NackInv
  <2>2. \A s \in DOMAIN nacks' : nacks'[s] \in InfoRec
    BY <1>2, <1>5, <1>8, <1>9
  <2> QED BY <2>1, <2>2 DEF Inserted
<1>14. \A q \in Int : Beyond(q)' => Beyond(q) /\ n < q
  BY DEF Beyond
<1>15. ListInv'
  <2>1. Keyed'
    <3> SUFFICES ASSUME NEW s \in DOMAIN nacks'
                 PROVE  /\ SeqOf(PacketOf(s)') = s
                        /\ \E a \in span' : a <= PacketOf(s)'
      BY DEF Keyed
    <3>1. CASE s \in DOMAIN nacks
      BY <1>10, <3>1 DEF NackInv, ListInv, Keyed
    <3>2. CASE s \notin DOMAIN nacks
      <4>1. PICK q \in f..g - 1 : s = SeqOf(q) /\ PacketOf(s)' = q
        BY <1>9, <1>11, <3>2
      <4>2. PICK a \in span \union {n} : a <= f
        OBVIOUS
      <4>3. a <= q
        BY <1>1, <4>2
      <4> QED BY <4>1, <4>3
    <3> QED BY <3>1, <3>2
  <2>2. Fresh'
    BY <1>7, <1>9 DEF NackInv, ListInv, Fresh
  <2>3. \A s \in DOMAIN nacks', q \in Int :
           Beyond(q)' /\ q <= PacketOf(s)' =>
              \/ q \in f..g - 1
              \/ s \in DOMAIN nacks /\ s \notin S
    <3> SUFFICES ASSUME NEW s \in DOMAIN nacks', NEW q \in Int,
                        Beyond(q)', q <= PacketOf(s)', s \in S
                 PROVE  q \in f..g - 1
      BY <1>9
    <3>1. PacketOf(s)' \in f..g - 1
      BY <1>3, <1>11
    <3>2. n < q
      BY <1>14
    <3> QED BY <1>1, <3>1, <3>2
  <2>4. AheadIsListed'
    <3> SUFFICES ASSUME NEW s \in DOMAIN nacks', NEW q \in Int,
                        Beyond(q)', q <= PacketOf(s)'
                 PROVE  SeqOf(q) \in DOMAIN nacks' /\ PacketOf(SeqOf(q))' = q
      BY DEF AheadIsListed
    <3>1. CASE q \in f..g - 1
      BY <1>11, <3>1
    <3>2. CASE s \in DOMAIN nacks
      <4>1. SeqOf(q) \in DOMAIN nacks /\ PacketOf(SeqOf(q)) = q
        BY <1>10, <1>14, <3>2 DEF NackInv, ListInv, AheadIsListed
      <4> QED BY <1>10, <4>1
    <3> QED BY <2>3, <3>1, <3>2
  <2>5. AheadAges'
    <3> SUFFICES ASSUME NEW s \in DOMAIN nacks', NEW t \in DOMAIN nacks',
                        Beyond(PacketOf(s)'), PacketOf(s)' <= PacketOf(t)',
                        Beyond(PacketOf(s))'
                 PROVE  NoOlder(nacks'[s], nacks'[t])
      <4>1. \A s \in DOMAIN nacks' : PacketOf(s)' \in Int
        BY <1>13 DEF PacketOf, InfoRec
      <4> QED BY <1>14, <4>1 DEF AheadAges
    <3>1. /\ nacks'[t] \in InfoRec /\ PacketOf(s)' \in Int
          /\ nacks'[t].age \in Nat /\ nacks'[t].count \in Nat
          /\ nacks'[t].idle \in 0..LongAgo
      BY <1>1, <1>13, LongAgoType DEF PacketOf, InfoRec
    <3>2. CASE s \in S
      <4>1. nacks'[s].age = 0 /\ nacks'[s].count = 0 /\ nacks'[s].idle = LongAgo
        BY <1>7, <1>9, <3>2
      <4>2. nacks'[t].count = 0 => nacks'[t].idle = LongAgo
        BY <2>2 DEF Fresh
      <4> QED BY <3>1, <4>1, <4>2, LongAgoType DEF NoOlder
    <3>3. CASE s \notin S
      <4>1. s \in DOMAIN nacks /\ nacks'[s] = nacks[s] /\ PacketOf(s)' = PacketOf(s)
        BY <1>9, <1>10, <3>3
      <4>2. PacketOf(s)' \notin f..g - 1
        BY <1>2, <1>5, <3>3, <4>1
      <4>3. t \in DOMAIN nacks /\ t \notin S
        BY <2>3, <3>1, <4>2
      <4>4. nacks'[t] = nacks[t] /\ PacketOf(t)' = PacketOf(t)
        BY <1>9, <1>10, <4>3
      <4> QED BY <4>1, <4>3, <4>4 DEF NackInv, ListInv, AheadAges
    <3> QED BY <3>2, <3>3
  <2> QED BY <2>1, <2>2, <2>4, <2>5 DEF ListInv
<1> QED BY <1>10, <1>11, <1>12, <1>13, <1>15

\* The packet was not listed, and the buffer is empty: both ends are it.
LEMMA FirstArrives ==
    ASSUME NackInv, NEW n \in Packet, NEW breaker \in BOOLEAN,
           Arrives(n), ~buf.initialized, OnNackNew(n, breaker),
           newest' = IF \E k \in newest : k > n THEN newest ELSE {n},
           UNCHANGED since
    PROVE  NackInv'
<1>1. /\ span = {} /\ missing = {} /\ DOMAIN nacks = {}
      /\ newest = {} \/ \E m \in Packet : newest = {m}
  BY DEF NackInv, BufferInv
<1>2. Gap(n) = {}
  BY <1>1 DEF Gap
<1>3. RangeOf(SeqOf(n)) = {}
  BY DEF RangeOf
<1>4. /\ buf' = Updated(SeqOf(n))
      /\ nacks' = Inserted(nacks, {}, n)
      /\ span' = {n} /\ missing' = {}
      /\ recounts' = (recounts \/ (~buf.initialized /\ n \div Width < buf.flips))
  <2>1. (IF breaker THEN {} ELSE RangeOf(SeqOf(n))) = {}
    BY <1>3
  <2> QED BY <1>1, <1>2, <2>1 DEF OnNackNew
<1>5. DOMAIN nacks' = {} /\ nacks' \in [{} -> InfoRec]
  BY <1>1, <1>4 DEF Inserted
<1>6. n \in Int /\ MaxQueue \in Nat \ {0} /\ Reorder \in Nat /\ Packet \subseteq Int
  BY ConstantTypes
<1>7. buf \in BufferRec
  BY DEF NackInv, NackTypeOK
<1>8. /\ buf'.initialized /\ buf'.flips = buf.flips
      /\ buf'.begin = SeqOf(n) /\ buf'.end = SeqOf(n + 1)
      /\ buf' \in BufferRec
  <2>1. /\ SeqOf(n) \in Sequence /\ SeqOf(n + 1) \in Sequence
        /\ SeqOf(SeqOf(n) + 1) = SeqOf(n + 1)
    <3>1. n + 1 \in Int /\ 1 \in Int
      BY <1>6
    <3>2. SeqOf(n) \in Sequence /\ SeqOf(n + 1) \in Sequence
      BY <1>6, <3>1, SeqType, Zenon
    <3>3. SeqOf(SeqOf(n) + 1) = SeqOf(n + 1)
      BY <1>6, <3>1, SeqNext, Zenon
    <3> QED BY <3>2, <3>3
  <2>2. buf' = [buf EXCEPT !.initialized = TRUE, !.begin = SeqOf(n),
                           !.end = SeqOf(n + 1)]
    BY <1>4, <2>1 DEF Updated
  <2> QED BY <1>7, <2>1, <2>2 DEF BufferRec
<1>9. PICK mm \in Packet :
         newest' = {mm} /\ n <= mm /\ mm < (n + 1) + Reorder
  <2>1. CASE newest = {}
    BY <1>6, <2>1
  <2>2. ASSUME NEW m \in Packet, newest = {m}
        PROVE  /\ newest' = {IF m > n THEN m ELSE n}
               /\ m < n + 1 + Reorder
    <3>1. n \in m - Reorder..m + Burst + 1
      BY <2>2 DEF Arrives
    <3> QED BY <1>6, <2>2, <3>1, NewestGrows
  <2> QED BY <1>1, <1>6, <2>1, <2>2
<1>10. NackTypeOK'
  <2>1. Cardinality(DOMAIN nacks') < MaxQueue
    BY <1>5, <1>6, FS_EmptySet
  <2>2. \E L \in SUBSET Sequence : nacks' \in [L -> InfoRec]
    BY <1>5
  <2>3. recounts' \in BOOLEAN
    BY <1>4
  <2> QED BY <1>4, <1>8, <1>9, <2>1, <2>2, <2>3 DEF NackInv, NackTypeOK
<1>11. ListInv'
  BY <1>5 DEF ListInv, Keyed, Fresh, AheadIsListed, AheadAges
<1>12. SpanIsInterval' /\ MissingKeyed'
  BY <1>4, <1>6 DEF SpanIsInterval, MissingKeyed
<1>13. ~recounts' => buf.flips * Width + SeqOf(n + 1) <= n + 1
  <2> SUFFICES ASSUME ~recounts'
               PROVE  buf.flips * Width + SeqOf(n + 1) <= n + 1
    OBVIOUS
  <2>1. ~(n \div Width < buf.flips) /\ buf.flips \in Int
    <3>1. ~(n \div Width < buf.flips)
      BY <1>4, Zenon
    <3> QED BY <1>7, <3>1 DEF BufferRec
  <2>2. n \div Width \in Int /\ n = (n \div Width) * Width + SeqOf(n)
    BY <1>6, NackAssumption DEF SeqOf
  <2>3. buf.flips * Width <= (n \div Width) * Width
    <3>1. buf.flips <= n \div Width
      BY <2>1, <2>2
    <3> QED BY <2>1, <2>2, <3>1, HalfIs
  <2>4. SeqOf(n + 1) <= SeqOf(n) + 1 /\ SeqOf(n) \in Int /\ SeqOf(n + 1) \in Int
    BY <1>6, SeqStep, SeqType, HalfIs DEF Sequence
  <2>5. buf.flips * Width \in Int /\ (n \div Width) * Width \in Int
    BY <2>1, <2>2, HalfIs
  <2> QED BY <1>6, <2>2, <2>3, <2>4, <2>5
<1>14. Bounds(mm, n + 1, n)'
  <2>1. /\ mm \in Int /\ (n + 1) - 1 = n /\ n <= mm /\ n <= n
        /\ n < n + 1 + MaxQueue /\ mm < n + 1 + Reorder
    BY <1>6, <1>9
  <2>2. newest' = {mm} /\ \A a \in span' : a <= mm
    BY <1>4, <1>9
  <2>3. /\ buf'.end = SeqOf(n + 1) /\ (n + 1) - 1 \in span'
        /\ buf'.begin = SeqOf(n) /\ \E a \in span' : a <= n
    BY <1>4, <1>8, <2>1
  <2>4. ~recounts' => buf'.flips * Width + buf'.end <= n + 1
    BY <1>8, <1>13
  <2> QED BY <1>5, <2>1, <2>2, <2>3, <2>4 DEF Bounds
<1>15. BufferInv'
  <2>1. n + 1 \in Int
    BY <1>6
  <2> QED BY <1>6, <1>8, <1>14, <2>1 DEF BufferInv
<1> QED BY <1>10, <1>11, <1>12, <1>15 DEF NackInv

\* The buffer stays well typed.
LEMMA UpdatedType ==
    ASSUME buf \in BufferRec, NEW n \in Packet
    PROVE  Updated(SeqOf(n)) \in BufferRec
<1>1. SeqOf(n) \in Sequence /\ SeqOf(SeqOf(n) + 1) \in Sequence
  <2>1. n \in Int /\ n + 1 \in Int
    BY ConstantTypes
  <2> QED BY <2>1, SeqType, SeqNext
<1>2. \A x \in Sequence :
         [buf EXCEPT !.initialized = TRUE, !.begin = SeqOf(n), !.end = x]
            \in BufferRec
  BY <1>1 DEF BufferRec
<1>3. \A x \in Sequence, k \in Nat :
         [buf EXCEPT !.flips = k, !.end = x] \in BufferRec
  BY DEF BufferRec
<1>4. [buf EXCEPT !.begin = SeqOf(n)] \in BufferRec
  BY <1>1 DEF BufferRec
<1>5. buf.flips \in Nat /\ buf.flips + 1 \in Nat
  BY DEF BufferRec
<1>6. (IF Wraps(SeqOf(n)) THEN buf.flips + 1 ELSE buf.flips) \in Nat
  BY <1>5
<1> HIDE DEF BufferRec
<1> QED BY <1>1, <1>2, <1>3, <1>4, <1>6 DEF Updated

\* The packet was not listed, and what it shows missing fills the list: the
\* list and the buffer are cleared.
LEMMA FullArrives ==
    ASSUME NackInv, NEW n \in Packet,
           newest' = IF \E k \in newest : k > n THEN newest ELSE {n},
           UNCHANGED since,
           buf' = Reset(Updated(SeqOf(n))), nacks' = Empty,
           span' = {}, missing' = {},
           recounts' = (recounts \/ (~buf.initialized /\ n \div Width < buf.flips))
    PROVE  NackInv'
<1>1. DOMAIN nacks' = {} /\ nacks' \in [{} -> InfoRec]
  BY DEF Empty
<1>2. n \in Int /\ MaxQueue \in Nat \ {0}
  BY ConstantTypes
<1>3. ~buf'.initialized /\ buf' \in BufferRec
  <2>1. Updated(SeqOf(n)) \in BufferRec
    BY UpdatedType DEF NackInv, NackTypeOK
  <2>2. 0 \in Sequence
    BY HalfIs DEF Sequence
  <2> QED BY <2>1, <2>2 DEF Reset, BufferRec
<1>4. \E mm \in Packet : newest' = {mm}
  <2>1. newest = {} \/ \E m \in Packet : newest = {m}
    BY DEF NackInv, BufferInv, Bounds
  <2> QED BY <2>1
<1>5. NackTypeOK'
  <2>1. Cardinality(DOMAIN nacks') < MaxQueue
    BY <1>1, <1>2, FS_EmptySet
  <2>2. \E L \in SUBSET Sequence : nacks' \in [L -> InfoRec]
    BY <1>1
  <2> QED BY <1>3, <1>4, <2>1, <2>2 DEF NackInv, NackTypeOK
<1>6. ListInv' /\ SpanIsInterval' /\ MissingKeyed'
  BY <1>1 DEF ListInv, Keyed, Fresh, AheadIsListed, AheadAges, SpanIsInterval,
              MissingKeyed
<1>7. BufferInv'
  BY <1>1, <1>3, <1>4 DEF BufferInv
<1> QED BY <1>5, <1>6, <1>7 DEF NackInv

\* The packet was not listed, and the list takes in what it shows missing.
LEMMA RangeArrives ==
    ASSUME NackInv, NEW n \in Packet, NEW f \in Int, NEW g \in Int,
           Arrives(n), buf.initialized,
           newest' = IF \E k \in newest : k > n THEN newest ELSE {n},
           UNCHANGED <<since, recounts>>,
           NEW m \in Packet, NEW e \in Int, NEW b \in Int, Bounds(m, e, b),
           f <= g, -Half <= f - n, g - n <= Half,
           (e <= n /\ f = e /\ g = n) \/ (n < e /\ f = n) \/ (f = n /\ g = n),
           f = g \/ g - f < MaxQueue,
           buf' = Updated(SeqOf(n)),
           nacks' = Inserted(nacks, {SeqOf(q) : q \in f..g - 1}, n),
           Cardinality(DOMAIN nacks') < MaxQueue,
           span' = span \union Gap(n) \union {n},
           n \notin missing', missing' \in SUBSET Packet,
           \A k \in missing' : k \in missing \/ k \in f..g - 1
    PROVE  NackInv'
<1>1. /\ span \subseteq Int /\ n \in Int /\ m \in Int /\ Packet \subseteq Int
      /\ MaxQueue \in Nat \ {0} /\ Reorder \in Nat
  BY ConstantTypes DEF NackInv, NackTypeOK
<1>2. /\ m - Reorder <= n /\ e - 1 <= m
      /\ -Half <= n - e /\ n - e < Half
      /\ \A s \in DOMAIN nacks :
            -Half < n - PacketOf(s) /\ n - PacketOf(s) < Half - MaxQueue
  BY ArrivesNear
<1>3. /\ span' \in SUBSET Packet /\ SpanIsInterval'
      /\ \A x \in span' : x <= n \/ \E a \in span : x <= a
  BY SpanGrows
<1>4. /\ DOMAIN nacks' \subseteq Sequence
      /\ nacks' \in [DOMAIN nacks' -> InfoRec]
      /\ ListInv'
      /\ \A s \in DOMAIN nacks :
            s \in DOMAIN nacks' /\ PacketOf(s)' = PacketOf(s)
      /\ \A q \in f..g - 1 :
            SeqOf(q) \in DOMAIN nacks' /\ PacketOf(SeqOf(q))' = q
      /\ \A s \in DOMAIN nacks' :
            s \in DOMAIN nacks \/ PacketOf(s)' \in f..g - 1
  <2>1. f = n \/ g <= n
    BY <1>1
  <2>2. \E a \in span \union {n} : a <= f
    BY <1>1 DEF Bounds
  <2>3. \A s \in DOMAIN nacks :
            -Half < n - PacketOf(s) /\ n - PacketOf(s) < Half
    BY <1>1, <1>2, HalfIs, ListTypes DEF NackInv
  <2> QED BY <2>1, <2>2, <2>3, InsertKeeps
<1>5. buf \in BufferRec /\ buf.end = SeqOf(e) /\ buf.begin = SeqOf(b)
  BY DEF NackInv, NackTypeOK, Bounds
<1>6. Distance(buf.end, SeqOf(n)) = n - e
  BY <1>1, <1>2, <1>5, DistanceIs
<1>7. /\ SeqOf(n) \in Sequence /\ SeqOf(n + 1) \in Sequence
      /\ SeqOf(SeqOf(n) + 1) = SeqOf(n + 1) /\ n + 1 \in Int
  <2>1. n \in Int /\ n + 1 \in Int /\ 1 \in Int
    BY <1>1
  <2>2. SeqOf(n) \in Sequence /\ SeqOf(n + 1) \in Sequence
    BY <2>1, SeqType, Zenon
  <2>3. SeqOf(SeqOf(n) + 1) = SeqOf(n + 1)
    BY <2>1, SeqNext, Zenon
  <2> QED BY <2>1, <2>2, <2>3
<1>8. NackTypeOK'
  <2>1. \E L \in SUBSET Sequence : nacks' \in [L -> InfoRec]
    BY <1>4
  <2>2. newest' \in SUBSET Packet
    BY DEF NackInv, NackTypeOK
  <2>3. buf' \in BufferRec
    BY <1>5, UpdatedType
  <2> QED BY <1>3, <2>1, <2>2, <2>3 DEF NackInv, NackTypeOK
<1>9. MissingKeyed'
  <2> SUFFICES ASSUME NEW k \in missing'
               PROVE  SeqOf(k) \in DOMAIN nacks' /\ PacketOf(SeqOf(k))' = k
    BY DEF MissingKeyed
  <2>1. CASE k \in missing
    BY <1>4, <2>1 DEF NackInv, MissingKeyed
  <2>2. CASE k \in f..g - 1
    BY <1>4, <2>2
  <2> QED BY <2>1, <2>2
<1>10. PICK mm \in Packet : newest' = {mm} /\ mm = IF m > n THEN m ELSE n
  BY NewestGrows DEF Bounds
<1>11. \A x \in span' : x <= mm
  BY <1>1, <1>3, <1>10 DEF Bounds
<1>12. ASSUME NEW E \in Int, NEW B \in Int, e <= E,
              mm < E + MaxQueue - 1 \/ mm < E + Reorder,
              \A q \in f..g - 1 : q < E + MaxQueue - 1,
              buf'.initialized, buf'.end = SeqOf(E), buf'.begin = SeqOf(B),
              E - 1 \in span', B < E + MaxQueue, \E a \in span' : a <= B,
              ~recounts' => buf'.flips * Width + buf'.end <= E
       PROVE  BufferInv'
  <2>1. ASSUME NEW s \in DOMAIN nacks'
        PROVE  /\ mm - Half + MaxQueue < PacketOf(s)'
               /\ PacketOf(s)' < E + MaxQueue - 1
    <3>1. CASE s \in DOMAIN nacks
      <4>1. /\ PacketOf(s)' = PacketOf(s) /\ PacketOf(s) \in Int
            /\ n - PacketOf(s) < Half - MaxQueue
            /\ m - Half + MaxQueue < PacketOf(s)
            /\ PacketOf(s) < e + MaxQueue - 1
        BY <1>2, <1>4, <3>1, ListTypes DEF NackInv, Bounds
      <4> QED BY <1>1, <1>10, <1>12, <4>1, HalfIs
    <3>2. CASE PacketOf(s)' \in f..g - 1
      <4>1. PICK q \in f..g - 1 : PacketOf(s)' = q
        BY <3>2
      <4>2. q < E + MaxQueue - 1
        BY <1>12
      <4>3. g - f < MaxQueue
        BY <1>1, <4>1
      <4>4. 2 * MaxQueue <= Half /\ MaxQueue + Reorder < Half
        BY WidthAssumption DEF Half
      <4>5. n - Half + MaxQueue < q
        <5>1. n - f <= g - f
          BY <1>1
        <5> QED BY <1>1, <4>1, <4>3, <4>4, <5>1, HalfIs
      <4>6. m > n => m - Half + MaxQueue < q
        <5>1. m < e + MaxQueue - 1 \/ m < e + Reorder
          BY DEF Bounds
        <5>2. CASE f = n
          BY <1>1, <1>2, <4>1, <4>4, <5>2, HalfIs
        <5>3. CASE f = e
          BY <1>1, <1>2, <4>1, <4>4, <5>1, <5>3, HalfIs
        <5> QED BY <5>2, <5>3
      <4> QED BY <1>10, <4>1, <4>2, <4>5, <4>6
    <3> QED BY <1>4, <3>1, <3>2
  <2>2. Bounds(mm, E, B)'
    BY <1>10, <1>11, <1>12, <2>1 DEF Bounds
  <2> QED BY <1>12, <2>2 DEF BufferInv
<1>13. BufferInv'
  <2>1. CASE e <= n
    <3>1. buf' = [buf EXCEPT !.flips = IF SeqOf(n) < SeqOf(e) THEN @ + 1 ELSE @,
                             !.end = SeqOf(n + 1)]
      <4>1. Distance(buf.end, SeqOf(n)) >= 0
        BY <1>1, <1>6, <2>1
      <4>2. buf' = [buf EXCEPT !.flips = IF SeqOf(n) < buf.end THEN @ + 1 ELSE @,
                               !.end = SeqOf(SeqOf(n) + 1)]
        BY <4>1, Zenon DEF Updated, Wraps
      <4> QED BY <1>5, <1>7, <4>2
    <3>2. /\ buf'.initialized /\ buf'.end = SeqOf(n + 1)
          /\ buf'.begin = SeqOf(b)
          /\ buf'.flips = IF SeqOf(n) < SeqOf(e) THEN buf.flips + 1 ELSE buf.flips
      BY <1>5, <3>1 DEF BufferRec
    <3>3. ~recounts' => buf'.flips * Width + buf'.end <= n + 1
      <4> SUFFICES ASSUME ~recounts
                   PROVE  buf'.flips * Width + buf'.end <= n + 1
        OBVIOUS
      <4>1. buf.flips * Width + SeqOf(e) <= e /\ buf.flips \in Int
        BY <1>5 DEF Bounds, BufferRec
      <4>2. n - e < Width
        BY <1>1, <1>2, HalfIs
      <4>3. (IF SeqOf(n) < SeqOf(e) THEN buf.flips + 1 ELSE buf.flips) * Width
                + SeqOf(n + 1) <= n + 1
        BY <1>1, <2>1, <4>1, <4>2, WrapsCount
      <4> QED BY <3>2, <4>3
    <3>4. /\ e <= n + 1 /\ (n + 1) - 1 = n
          /\ mm < (n + 1) + MaxQueue - 1 \/ mm < (n + 1) + Reorder
          /\ b < (n + 1) + MaxQueue
      <4>1. b < e + MaxQueue
        BY DEF Bounds
      <4> QED BY <1>1, <1>2, <1>10, <2>1, <4>1
    <3>5. \A q \in f..g - 1 : q < (n + 1) + MaxQueue - 1
      BY <1>1, <2>1
    <3>6. (n + 1) - 1 \in span' /\ \E a \in span' : a <= b
      BY <3>4 DEF Bounds
    <3> QED BY <1>7, <1>12, <3>2, <3>3, <3>4, <3>5, <3>6
  <2>2. CASE n < e
    <3>1. buf' = IF Distance(SeqOf(n), buf.begin) > 0
                 THEN [buf EXCEPT !.begin = SeqOf(n)] ELSE buf
      BY <1>1, <1>6, <2>2 DEF Updated
    <3>2. PICK B \in Int : buf'.begin = SeqOf(B) /\ (B = n \/ B = b)
      BY <1>1, <1>5, <3>1 DEF BufferRec
    <3>3. /\ buf'.initialized /\ buf'.end = SeqOf(e) /\ buf'.flips = buf.flips
      BY <1>5, <3>1 DEF BufferRec
    <3>4. ~recounts' => buf'.flips * Width + buf'.end <= e
      BY <1>5, <3>3 DEF Bounds
    <3>5. /\ mm < e + MaxQueue - 1 \/ mm < e + Reorder
          /\ B < e + MaxQueue
      BY <1>1, <1>2, <1>10, <2>2, <3>2 DEF Bounds
    <3>6. \A q \in f..g - 1 : q < e + MaxQueue - 1
      BY <1>1, <2>2
    <3>7. e - 1 \in span' /\ \E a \in span' : a <= B
      BY <1>1, <3>2 DEF Bounds
    <3> QED BY <1>12, <3>2, <3>3, <3>4, <3>5, <3>6, <3>7
  <2> QED BY <1>1, <2>1, <2>2
<1> QED BY <1>3, <1>4, <1>8, <1>9, <1>13 DEF NackInv

\* The packet was not listed: the buffer was empty, is cleared, or takes it in.
LEMMA NewArrives ==
    ASSUME NackInv, NEW n \in Packet, NEW breaker \in BOOLEAN,
           Arrives(n), OnNackNew(n, breaker),
           newest' = IF \E k \in newest : k > n THEN newest ELSE {n},
           UNCHANGED since
    PROVE  NackInv'
<1> DEFINE S == IF breaker THEN {} ELSE RangeOf(SeqOf(n))
           list == Inserted(nacks, S, n)
<1>1. /\ \/ /\ S # {} /\ Full(list)
            /\ buf' = Reset(Updated(SeqOf(n))) /\ nacks' = Empty
            /\ span' = {} /\ missing' = {}
         \/ /\ ~(S # {} /\ Full(list))
            /\ buf' = Updated(SeqOf(n)) /\ nacks' = list
            /\ span' = span \union Gap(n) \union {n}
            /\ missing' =
                  (missing \union (IF breaker THEN {} ELSE Gap(n))) \ {n}
      /\ recounts' = (recounts \/ (~buf.initialized /\ n \div Width < buf.flips))
  BY Zenon DEF OnNackNew
<1> HIDE DEF list, S
<1>2. CASE ~buf.initialized
  BY <1>2, FirstArrives
<1>3. CASE S # {} /\ Full(list)
  BY <1>1, <1>3, FullArrives
<1>4. CASE buf.initialized /\ ~(S # {} /\ Full(list))
  <2>1. PICK m \in Packet, e \in Int, b \in Int : Bounds(m, e, b)
    BY <1>4 DEF NackInv, BufferInv
  <2>2. PICK f0 \in Int, g0 \in Int :
           /\ f0 <= g0 /\ -Half <= f0 - n /\ g0 - n <= Half
           /\ (e <= n /\ f0 = e /\ g0 = n) \/ (n < e /\ f0 = n)
           /\ RangeOf(SeqOf(n)) = {SeqOf(q) : q \in f0..g0 - 1}
           /\ Gap(n) \subseteq f0..g0 - 1
    BY <1>4, <2>1, RangeIs
  <2>3. n \in Int /\ MaxQueue \in Nat \ {0}
    BY ConstantTypes
  <2>4. PICK f \in Int, g \in Int :
           /\ f <= g /\ -Half <= f - n /\ g - n <= Half
           /\ (e <= n /\ f = e /\ g = n) \/ (n < e /\ f = n) \/ (f = n /\ g = n)
           /\ S = {SeqOf(q) : q \in f..g - 1}
           /\ (IF breaker THEN {} ELSE Gap(n)) \subseteq f..g - 1
    <3>1. CASE breaker
      <4>1. n..n - 1 = {} /\ n <= n /\ -Half <= n - n /\ n - n <= Half
        BY <2>3, HalfIs
      <4>2. S = {SeqOf(q) : q \in n..n - 1}
        BY <3>1, <4>1 DEF S
      <4> QED BY <2>3, <3>1, <4>1, <4>2
    <3>2. CASE ~breaker
      BY <2>2, <3>2 DEF S
    <3> QED BY <3>1, <3>2
  <2>5. /\ buf' = Updated(SeqOf(n)) /\ nacks' = list
        /\ span' = span \union Gap(n) \union {n}
        /\ missing' = (missing \union (IF breaker THEN {} ELSE Gap(n))) \ {n}
        /\ recounts' = recounts
    <3>1. recounts' = recounts
      BY <1>1, <1>4, Zenon DEF NackInv, NackTypeOK
    <3> QED BY <1>1, <1>4, <3>1
  <2>6. DOMAIN list = DOMAIN nacks \union S
    BY DEF list, Inserted
  <2>7. Cardinality(DOMAIN list) < MaxQueue /\ (f = g \/ g - f < MaxQueue)
    <3>1. CASE S = {}
      <4>1. f = g
        <5>1. ~(f <= g - 1)
          BY <2>4, <3>1
        <5> QED BY <2>4, <5>1
      <4>2. DOMAIN list = DOMAIN nacks
        BY <2>6, <3>1
      <4> QED BY <4>1, <4>2 DEF NackInv, NackTypeOK
    <3>2. CASE S # {}
      <4>1. ~Full(list)
        BY <1>4, <3>2
      <4>2. IsFiniteSet(DOMAIN list) /\ S \subseteq DOMAIN list
        <5>1. IsFiniteSet(Sequence)
          <6>1. 0 \in Int /\ Width - 1 \in Int
            BY HalfIs
          <6> QED BY <6>1, FS_Interval DEF Sequence
        <5>2. S \subseteq Sequence
          BY <2>4, SeqType
        <5>3. DOMAIN list \subseteq Sequence
          BY <2>6, <5>2, ListTypes DEF NackInv
        <5> QED BY <2>6, <5>1, <5>3, FS_Subset
      <4>3. IsFiniteSet(S) /\ Cardinality(S) = g - f
        <5>1. g - f <= Width
          BY <2>3, <2>4, HalfIs
        <5> QED BY <2>4, <5>1, RangeCardinality
      <4>4. /\ Cardinality(S) <= Cardinality(DOMAIN list)
            /\ Cardinality(DOMAIN list) \in Nat
        BY <4>2, FS_Subset, FS_CardinalityType
      <4> QED BY <2>3, <2>4, <4>1, <4>3, <4>4 DEF Full
    <3> QED BY <3>1, <3>2
  <2>8. nacks' = Inserted(nacks, {SeqOf(q) : q \in f..g - 1}, n)
    BY <2>4, <2>5 DEF list
  <2>9. /\ n \notin missing' /\ missing' \in SUBSET Packet
        /\ \A k \in missing' : k \in missing \/ k \in f..g - 1
    BY <2>4, <2>5 DEF Gap, NackInv, NackTypeOK
  <2>10. Cardinality(DOMAIN nacks') < MaxQueue
    BY <2>5, <2>7
  <2> QED BY <1>4, <2>1, <2>4, <2>5, <2>7, <2>8, <2>9, <2>10, RangeArrives
<1> QED BY <1>2, <1>3, <1>4

-----------------------------------------------------------------------------
(***************************************************************************)
(* The theorems.                                                           *)
(***************************************************************************)

\* Every step keeps the invariant.
LEMMA NackStep == NackInv /\ [NackNext]_vars => NackInv'
<1> SUFFICES ASSUME NackInv, [NackNext]_vars
             PROVE  NackInv'
  OBVIOUS
<1>1. ASSUME NEW n \in Packet, Receive(n)
      PROVE  NackInv'
  <2>1. /\ Arrives(n) /\ UNCHANGED since
        /\ newest' = IF \E k \in newest : k > n THEN newest ELSE {n}
        /\ OnNackListed(n) \/ \E breaker \in BOOLEAN : OnNackNew(n, breaker)
    BY <1>1 DEF Receive
  <2>2. CASE OnNackListed(n)
    BY <2>1, <2>2, ListedArrives
  <2>3. ASSUME NEW breaker \in BOOLEAN, OnNackNew(n, breaker)
        PROVE  NackInv'
    BY <2>1, <2>3, NewArrives
  <2> QED BY <2>1, <2>2, <2>3
<1>2. CASE Tick
  BY <1>2, TickKeeps
<1>3. CASE Check
  BY <1>3, CheckKeeps
<1>4. CASE UNCHANGED vars
  BY <1>4 DEF vars, NackInv, NackTypeOK, ListInv, Keyed, Fresh, AheadIsListed,
              AheadAges, SpanIsInterval, MissingKeyed, BufferInv, Bounds,
              PacketOf, Beyond
<1> QED BY <1>1, <1>2, <1>3, <1>4 DEF NackNext

\* The inductive invariant: what the buffer and the list say of sequence
\* numbers, they say of packets less than half a round from the newest.
THEOREM NackInvariance == NackSpec => []NackInv
<1>1. NackInv /\ [NackNext]_vars => NackInv'
  BY NackStep
<1> QED BY <1>1, NackInitial, PTL DEF NackSpec

\* The list, the buffer and what is known of the packets are well typed, and
\* the list has fewer than max_queue_size_ entries after every packet.
THEOREM NackTypeCorrect == NackSpec => []NackTypeOK
<1>1. NackInv => NackTypeOK
  BY DEF NackInv
<1> QED BY <1>1, NackInvariance, PTL

\* Every missing packet is on the list until it arrives or is given up.
THEOREM MissingAreListed == NackSpec => []MissingIsListed
<1>1. NackInv => MissingIsListed
  BY DEF NackInv, MissingKeyed, MissingIsListed, PacketOf
<1> QED BY <1>1, NackInvariance, PTL

\* The extended highest sequence number is not ahead of the packets, unless the
\* buffer was started again before a wrap it had counted.
THEOREM NeverReportsAhead == NackSpec => []ExtendedNeverAhead
<1>1. NackInv => ExtendedNeverAhead
  <2> SUFFICES ASSUME NackInv, buf.initialized, ~recounts, NEW n \in newest
               PROVE  buf.flips * Width + buf.end - 1 <= n
    BY DEF ExtendedNeverAhead
  <2>1. PICK m \in Packet, e \in Int, b \in Int : Bounds(m, e, b)
    BY DEF NackInv, BufferInv
  <2>2. /\ n = m /\ m \in Int /\ e - 1 <= m
        /\ buf.flips * Width + buf.end <= e
    BY <2>1, ConstantTypes DEF Bounds
  <2>3. buf.flips * Width \in Int /\ buf.end \in Int
    BY HalfIs DEF NackInv, NackTypeOK, BufferRec, Sequence
  <2> QED BY <2>2, <2>3
<1> QED BY <1>1, NackInvariance, PTL
=============================================================================
