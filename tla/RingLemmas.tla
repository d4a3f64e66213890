----------------------------- MODULE RingLemmas ------------------------------
(***************************************************************************)
(* What the proofs about both echo paths rest on: products and remainders,  *)
(* of which the SMT solver knows little when N is not a number; the offsets  *)
(* of the entries of a ring; what a DMA changes.                             *)
(***************************************************************************)
EXTENDS DeviceMeta, TLAPS

\* Division with remainder, as the solver knows it.
LEMMA Euclid ==
  ASSUME NEW n \in Nat, NEW N \in Nat, N >= 1
  PROVE  /\ n \div N \in Nat
         /\ n % N \in 0 .. (N - 1)
         /\ n = N * (n \div N) + (n % N)
  BY SMT

\* Multiples of P are at least P apart.
LEMMA MultiplesApart ==
  ASSUME NEW i \in Nat, NEW j \in Nat, NEW P \in Nat, i < j
  PROVE  P * i + P <= P * j
<1>1. PICK k \in Nat : j = i + 1 + k
  <2>1. j - i - 1 \in Nat /\ j = i + 1 + (j - i - 1)
    OBVIOUS
  <2>2. QED BY <2>1
<1>2. P * j = P * i + P + P * k
  BY <1>1
<1>3. P * k \in Nat /\ P * i \in Nat
  OBVIOUS
<1>4. QED BY <1>2, <1>3

\* Quotient and remainder are determined by the number they make up.
LEMMA EuclidUnique ==
  ASSUME NEW N \in Nat, N >= 1, NEW q1 \in Nat, NEW q2 \in Nat,
         NEW r1 \in 0 .. (N - 1), NEW r2 \in 0 .. (N - 1),
         N * q1 + r1 = N * q2 + r2
  PROVE  q1 = q2 /\ r1 = r2
<1>1. N * q1 \in Nat /\ N * q2 \in Nat
  OBVIOUS
<1>2. ASSUME q1 < q2 PROVE FALSE
  <2>1. N * q1 + N <= N * q2
    BY <1>2, MultiplesApart
  <2>2. QED BY <2>1, <1>1
<1>3. ASSUME q2 < q1 PROVE FALSE
  <2>1. N * q2 + N <= N * q1
    BY <1>3, MultiplesApart
  <2>2. QED BY <2>1, <1>1
<1>4. q1 = q2
  BY <1>2, <1>3
<1>5. QED BY <1>4, <1>1

\* How to compute a remainder.
LEMMA ModIs ==
  ASSUME NEW n \in Nat, NEW N \in Nat, N >= 1,
         NEW q \in Nat, NEW r \in 0 .. (N - 1), n = N * q + r
  PROVE  n % N = r
<1>1. /\ n = N * (n \div N) + (n % N)
      /\ n \div N \in Nat
      /\ n % N \in 0 .. (N - 1)
  BY Euclid
<1>2. N * (n \div N) + (n % N) = N * q + r
  BY <1>1
<1>3. QED BY <1>1, <1>2, EuclidUnique

\* The successor modulo N is the wrapping increment.
LEMMA ModSuccessor ==
  ASSUME NEW n \in Nat, NEW N \in Nat, N >= 1
  PROVE  (n + 1) % N = IF (n % N) + 1 = N THEN 0 ELSE (n % N) + 1
<1> DEFINE q == n \div N
           r == n % N
<1>1. n = N * q + r /\ q \in Nat /\ r \in 0 .. (N - 1)
  BY Euclid
<1> HIDE DEF q, r
<1>2. N * q \in Nat
  BY <1>1
<1>3. CASE r + 1 = N
  <2>1. N * (q + 1) = N * q + N
    BY <1>1
  <2>2. n + 1 = N * (q + 1) + 0
    BY <1>1, <1>2, <1>3, <2>1
  <2>3. (n + 1) % N = 0
    BY <2>2, <1>1, ModIs
  <2>4. QED BY <2>3, <1>3 DEF r
<1>4. CASE r + 1 # N
  <2>1. n + 1 = N * q + (r + 1) /\ r + 1 \in 0 .. (N - 1)
    BY <1>1, <1>2, <1>4
  <2>2. (n + 1) % N = r + 1
    BY <2>1, <1>1, ModIs
  <2>3. QED BY <2>2, <1>4 DEF r
<1>5. QED BY <1>3, <1>4

\* Numbers at most N apart that agree modulo N are equal or N apart.
LEMMA ModEqual ==
  ASSUME NEW a \in Nat, NEW b \in Nat, NEW N \in Nat, N >= 1,
         a <= b, b - a <= N, a % N = b % N
  PROVE  a = b \/ b = a + N
<1> DEFINE qa == a \div N
           qb == b \div N
           r == a % N
<1>1. /\ a = N * qa + r /\ b = N * qb + r
      /\ qa \in Nat /\ qb \in Nat /\ r \in 0 .. (N - 1)
  BY Euclid
<1> HIDE DEF qa, qb, r
<1>2. N * qa \in Nat /\ N * qb \in Nat
  BY <1>1
<1>3. CASE qb < qa
  <2>1. N * qb + N <= N * qa
    BY <1>1, <1>3, MultiplesApart
  <2>2. QED BY <2>1, <1>1, <1>2
<1>4. CASE qb = qa
  BY <1>4, <1>1, <1>2
<1>5. CASE qa < qb
  <2>1. N * qa + N <= N * qb
    BY <1>1, <1>5, MultiplesApart
  <2>2. QED BY <2>1, <1>1, <1>2
<1>6. QED BY <1>1, <1>3, <1>4, <1>5

\* Going once around changes nothing modulo N.
LEMMA ModAround ==
  ASSUME NEW a \in Nat, NEW N \in Nat, N >= 1
  PROVE  (a + N) % N = a % N
<1> DEFINE q == a \div N
           r == a % N
<1>1. a = N * q + r /\ q \in Nat /\ r \in 0 .. (N - 1)
  BY Euclid
<1> HIDE DEF q, r
<1>2. N * (q + 1) = N * q + N /\ N * q \in Nat
  BY <1>1
<1>3. a + N = N * (q + 1) + r
  BY <1>1, <1>2
<1>4. (a + N) % N = r
  BY <1>3, <1>1, ModIs
<1>5. QED BY <1>4 DEF r
-----------------------------------------------------------------------------
USE SizesAssumption

(***************************************************************************)
(* The indices, for configurations with whole entries.  OffsetOf             *)
(* turns the wrapping of the code into counting.                            *)
(***************************************************************************)
LEMMA SlotFacts ==
  ASSUME WholeSlots
  PROVE  NumSlots \in Nat /\ NumSlots >= 2 /\ UDP_PACKET_SIZE >= 1
BY DEF WholeSlots, NumSlots

\* OffsetOf(n) is the offset of an entry that lies inside the ring.
LEMMA OffsetInside ==
  ASSUME WholeSlots, NEW n \in Nat
  PROVE  /\ OffsetOf(n) \in Offsets
         /\ OffsetOf(n) + UDP_PACKET_SIZE <= RING_BUFFER_SIZE
<1> DEFINE r == n % NumSlots
<1>1. r \in 0 .. (NumSlots - 1)
  BY SlotFacts, Euclid
<1>2. OffsetOf(n) = UDP_PACKET_SIZE * r
  BY <1>1 DEF OffsetOf
<1> HIDE DEF r
<1>3. UDP_PACKET_SIZE * r + UDP_PACKET_SIZE <= UDP_PACKET_SIZE * NumSlots
  BY <1>1, SlotFacts, MultiplesApart
<1>4. UDP_PACKET_SIZE * NumSlots = RING_BUFFER_SIZE
  BY SlotFacts DEF WholeSlots
<1>5. UDP_PACKET_SIZE * r \in Nat
  BY <1>1
<1>6. QED BY <1>2, <1>3, <1>4, <1>5, SlotFacts DEF Offsets

\* The first packet is at offset 0.
LEMMA OffsetZero ==
  ASSUME WholeSlots
  PROVE  OffsetOf(0) = 0
<1>1. 0 % NumSlots = 0
  <2>1. 0 = NumSlots * 0 + 0 /\ 0 \in 0 .. (NumSlots - 1)
    BY SlotFacts
  <2>2. QED BY <2>1, SlotFacts, ModIs
<1>2. QED BY <1>1 DEF OffsetOf

\* One step of the code's wrapping addition is the next packet's offset ...
LEMMA OffsetNext ==
  ASSUME WholeSlots, NEW n \in Nat
  PROVE  /\ Advance(OffsetOf(n), UDP_PACKET_SIZE, RING_BUFFER_SIZE)
              = OffsetOf(n + 1)
         /\ (OffsetOf(n) + UDP_PACKET_SIZE) % RING_BUFFER_SIZE = OffsetOf(n + 1)
<1> DEFINE r == n % NumSlots
           P == UDP_PACKET_SIZE
<1>0. NumSlots \in Nat /\ NumSlots >= 1
  BY SlotFacts
<1>1. r \in 0 .. (NumSlots - 1)
  BY SlotFacts, Euclid
<1>2. OffsetOf(n) = P * r
  BY <1>1 DEF OffsetOf
<1>3. (n + 1) % NumSlots = IF r + 1 = NumSlots THEN 0 ELSE r + 1
  BY <1>0, ModSuccessor
<1>4. OffsetOf(n + 1) = IF r + 1 = NumSlots THEN 0 ELSE P * (r + 1)
  BY <1>1, <1>3, SlotFacts DEF OffsetOf
<1> HIDE DEF r
<1>5. P * (r + 1) = P * r + P /\ P * r \in Nat
  BY <1>1
<1>6. P * NumSlots = RING_BUFFER_SIZE
  BY SlotFacts DEF WholeSlots
<1>7. CASE r + 1 = NumSlots
  <2>1. P * r + P = RING_BUFFER_SIZE
    BY <1>5, <1>6, <1>7
  <2>2. RING_BUFFER_SIZE % RING_BUFFER_SIZE = 0
    <3>1. RING_BUFFER_SIZE = RING_BUFFER_SIZE * 1 + 0
      OBVIOUS
    <3>2. QED BY <3>1, ModIs
  <2>3. QED BY <1>2, <1>4, <1>7, <2>1, <2>2 DEF Advance
<1>8. CASE r + 1 # NumSlots
  <2>1. P * (r + 1) + P <= P * NumSlots
    BY <1>1, <1>8, SlotFacts, MultiplesApart
  <2>2. P * r + P < RING_BUFFER_SIZE
    BY <1>5, <1>6, <2>1
  <2>3. (P * r + P) % RING_BUFFER_SIZE = P * r + P
    <3>1. P * r + P = RING_BUFFER_SIZE * 0 + (P * r + P)
      BY <1>5
    <3>2. P * r + P \in 0 .. (RING_BUFFER_SIZE - 1)
      BY <1>5, <2>2
    <3>3. QED BY <3>1, <3>2, ModIs
  <2>4. QED BY <1>2, <1>4, <1>5, <1>8, <2>2, <2>3 DEF Advance
<1>9. QED BY <1>7, <1>8

\* ... once around the ring is the same offset again ...
LEMMA OffsetAround ==
  ASSUME WholeSlots, NEW n \in Nat
  PROVE  OffsetOf(n + NumSlots) = OffsetOf(n)
BY SlotFacts, ModAround DEF OffsetOf

\* ... and within one turn different packets have disjoint entries.
LEMMA OffsetDisjoint ==
  ASSUME WholeSlots, NEW a \in Nat, NEW b \in Nat, a < b, b - a < NumSlots,
         NEW i \in PacketOffsets, NEW j \in PacketOffsets
  PROVE  OffsetOf(a) + i # OffsetOf(b) + j
<1> DEFINE ra == a % NumSlots
           rb == b % NumSlots
           P == UDP_PACKET_SIZE
<1>0. NumSlots \in Nat /\ NumSlots >= 1
  BY SlotFacts
<1>1. ra \in 0 .. (NumSlots - 1) /\ rb \in 0 .. (NumSlots - 1)
  BY <1>0, Euclid
<1>2. ASSUME ra = rb PROVE FALSE
  <2>1. a <= b /\ b - a <= NumSlots
    BY <1>0
  <2>2. a = b \/ b = a + NumSlots
    BY <1>0, <1>2, <2>1, ModEqual
  <2>3. QED BY <1>0, <2>2
<1>3. OffsetOf(a) = P * ra /\ OffsetOf(b) = P * rb
  BY <1>1 DEF OffsetOf
<1> HIDE DEF ra, rb
<1>4. P * ra \in Nat /\ P * rb \in Nat
  BY <1>1
<1>5. CASE ra < rb
  <2>1. P * ra + P <= P * rb
    BY <1>1, <1>5, MultiplesApart
  <2>2. QED BY <1>3, <1>4, <2>1 DEF PacketOffsets
<1>6. CASE rb < ra
  <2>1. P * rb + P <= P * ra
    BY <1>1, <1>6, MultiplesApart
  <2>2. QED BY <1>3, <1>4, <2>1 DEF PacketOffsets
<1>7. QED BY <1>1, <1>2, <1>5, <1>6

-----------------------------------------------------------------------------
\* The bytes of a packet that are in place when the DMAs `pending' are not.
DoneBytes(pending) == {b \in PacketOffsets : \A part \in pending : b \notin part}

\* Advancing an offset by one packet yields an offset of the ring again.
LEMMA AdvanceType ==
  ASSUME NEW off \in Offsets
  PROVE  Advance(off, UDP_PACKET_SIZE, RING_BUFFER_SIZE) \in Offsets
BY DEF Offsets, Advance

\* The DMAs that move a packet are sets of byte positions of the packet.
LEMMA DmaPartsType ==
  ASSUME NEW window \in Nat \ {0}
  PROVE  DmaParts(UDP_PACKET_SIZE, window) \in SUBSET SUBSET PacketOffsets
BY DEF DmaParts, PacketOffsets

\* A DMA into a ring keeps the ring an array of bytes.
LEMMA StoreType ==
  ASSUME NEW Byte, NEW mem \in [HostBytes -> Byte], NEW at \in Offsets,
         NEW part \in SUBSET PacketOffsets,
         NEW data \in [PacketOffsets -> Byte]
  PROVE  Store(mem, at, part, data) \in [HostBytes -> Byte]
BY DEF Store

\* A DMA out of a ring keeps the packet an array of bytes.
LEMMA FetchType ==
  ASSUME NEW Byte, NEW mem \in [HostBytes -> Byte], NEW at \in Offsets,
         NEW part \in SUBSET PacketOffsets,
         NEW data \in [PacketOffsets -> Byte]
  PROVE  Fetch(mem, at, part, data) \in [PacketOffsets -> Byte]
<1>1. \A b \in PacketOffsets : at + b \in HostBytes
  BY DEF PacketOffsets, HostBytes, Offsets
<1>2. QED BY <1>1 DEF Fetch

\* The DMAs of a packet reach every byte of it: when they start none is done,
\* when none is left all are.
LEMMA PartsCover ==
  ASSUME NEW window \in Nat \ {0}
  PROVE  DoneBytes(DmaParts(UDP_PACKET_SIZE, window)) = {}
<1> DEFINE w == IF window < UDP_PACKET_SIZE THEN window ELSE UDP_PACKET_SIZE
           ctm == 0 .. (w - 1)
           mu == w .. (UDP_PACKET_SIZE - 1)
<1>1. w \in Nat /\ w <= UDP_PACKET_SIZE
  OBVIOUS
<1>2. DmaParts(UDP_PACKET_SIZE, window) = {ctm, mu} \ {{}}
  BY DEF DmaParts
<1> HIDE DEF w
<1>3. ASSUME NEW b \in PacketOffsets PROVE b \in ctm \/ b \in mu
  BY <1>1 DEF PacketOffsets
<1>4. \A b \in PacketOffsets :
        \E part \in DmaParts(UDP_PACKET_SIZE, window) : b \in part
  <2> HIDE DEF ctm, mu
  <2>1. QED BY <1>2, <1>3
<1>5. QED BY <1>4 DEF DoneBytes

\* With no DMA part outstanding, every byte of a packet has been transferred.
LEMMA NothingPending == DoneBytes({}) = PacketOffsets
BY DEF DoneBytes

\* What a store leaves and what it changes.
LEMMA StoreAt ==
  ASSUME NEW mem, DOMAIN mem = HostBytes, NEW at \in Offsets,
         NEW part \in SUBSET PacketOffsets, NEW data,
         NEW a \in Offsets, NEW b \in PacketOffsets
  PROVE  /\ b \in part => Store(mem, at, part, data)[at + b] = data[b]
         /\ (\A j \in part : a + b # at + j) =>
                Store(mem, at, part, data)[a + b] = mem[a + b]
<1>1. at + b \in HostBytes /\ a + b \in HostBytes /\ (at + b) - at = b
  BY DEF HostBytes, Offsets, PacketOffsets
<1>2. Store(mem, at, part, data)[at + b]
        = IF (at + b) - at \in part THEN data[(at + b) - at] ELSE mem[at + b]
  BY <1>1 DEF Store
<1>3. Store(mem, at, part, data)[a + b]
        = IF (a + b) - at \in part THEN data[(a + b) - at] ELSE mem[a + b]
  BY <1>1 DEF Store
<1>4. ASSUME \A j \in part : a + b # at + j PROVE (a + b) - at \notin part
  <2>1. a + b = at + ((a + b) - at)
    BY DEF Offsets, PacketOffsets
  <2>2. QED BY <1>4, <2>1
<1>5. QED BY <1>1, <1>2, <1>3, <1>4
==============================================================================
