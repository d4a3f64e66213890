-------------------------- MODULE RingBufferProofs ---------------------------
(***************************************************************************)
(* The host's ring library, proved for every entry size and every capacity  *)
(* that is a whole number of entries.                                        *)
(***************************************************************************)
EXTENDS RingBuffer, TLAPS

(***************************************************************************)
(* SizeIsItems alone is not inductive: that a push does not jump over the    *)
(* head, and that both offsets wrap exactly at the end, needs the offsets to  *)
(* be those of entries.  `slots' is the number of entries of the ring.       *)
(***************************************************************************)
slots == capacity \div entry_size

Slot(off) == \E k \in 0 .. (slots - 1) : off = entry_size * k

RingInv ==
    /\ RingTypeOK
    /\ Slot(rb.head) /\ Slot(rb.tail)
    /\ SizeIsItems

\* The capacity is a whole number of entries.
LEMMA WholeRing ==
  ASSUME Divides
  PROVE  slots \in Nat /\ slots >= 2 /\ capacity = entry_size * slots
<1> USE DEF Divides
<1>1. /\ capacity = entry_size * (capacity \div entry_size) + (capacity % entry_size)
      /\ capacity \div entry_size \in Nat
  BY SMT
<1>2. capacity = entry_size * slots /\ slots \in Nat
  BY <1>1 DEF Divides, slots
<1>3. ASSUME slots < 2 PROVE FALSE
  <2>1. slots = 0 \/ slots = 1
    BY <1>2, <1>3
  <2>2. entry_size * 0 = 0 /\ entry_size * 1 = entry_size
    OBVIOUS
  <2>3. QED BY <1>2, <2>1, <2>2 DEF Divides
<1>4. QED BY <1>2, <1>3

\* Two entries are at least one entry size apart.
LEMMA SlotGap ==
  ASSUME entry_size \in Nat, NEW i \in Nat, NEW j \in Nat, i < j
  PROVE  entry_size * i + entry_size <= entry_size * j
<1>1. PICK k \in Nat : j = i + 1 + k
  <2>1. j - i - 1 \in Nat /\ j = i + 1 + (j - i - 1)
    OBVIOUS
  <2>2. QED BY <2>1
<1>2. entry_size * j = entry_size * i + entry_size + entry_size * k
  BY <1>1
<1>3. entry_size * k \in Nat /\ entry_size * i \in Nat
  OBVIOUS
<1>4. QED BY <1>2, <1>3

\* An offset of an entry moves to the offset of the next one, or to 0 from the
\* last one.
LEMMA AdvanceSlot ==
  ASSUME Divides, NEW off, Slot(off)
  PROVE  /\ off \in Nat /\ off + entry_size <= capacity
         /\ Advance(off, entry_size, capacity)
              = IF off + entry_size = capacity THEN 0 ELSE off + entry_size
         /\ Slot(Advance(off, entry_size, capacity))
<1> USE DEF Divides
<1>1. PICK k \in 0 .. (slots - 1) : off = entry_size * k
  BY DEF Slot
<1>2. k \in Nat /\ k < slots /\ slots \in Nat /\ capacity = entry_size * slots
  BY <1>1, WholeRing
<1>3. off \in Nat /\ off + entry_size <= capacity
  BY <1>1, <1>2, SlotGap
<1>4. Advance(off, entry_size, capacity)
        = IF off + entry_size = capacity THEN 0 ELSE off + entry_size
  BY <1>3 DEF Advance
<1>5. CASE off + entry_size = capacity
  <2>1. 0 \in 0 .. (slots - 1) /\ 0 = entry_size * 0
    BY <1>2, WholeRing
  <2>2. QED BY <1>3, <1>4, <1>5, <2>1 DEF Slot
<1>6. CASE off + entry_size # capacity
  <2>1. off + entry_size = entry_size * (k + 1)
    BY <1>1, <1>2
  <2>2. k + 1 # slots
    BY <1>2, <1>6, <2>1
  <2>3. k + 1 \in 0 .. (slots - 1)
    BY <1>2, <2>2
  <2>4. QED BY <1>3, <1>4, <1>6, <2>1, <2>3 DEF Slot
<1>7. QED BY <1>5, <1>6

\* Different entries are at least one entry size apart.
LEMMA SlotsApart ==
  ASSUME Divides, NEW a, NEW b, Slot(a), Slot(b), a < b
  PROVE  a + entry_size <= b
<1> USE DEF Divides
<1>1. PICK i \in 0 .. (slots - 1) : a = entry_size * i
  BY DEF Slot
<1>2. PICK j \in 0 .. (slots - 1) : b = entry_size * j
  BY DEF Slot
<1>3. i \in Nat /\ j \in Nat
  BY WholeRing
<1>4. ASSUME j <= i PROVE FALSE
  <2>1. CASE i = j
    <3>1. a = b /\ a \in Nat
      BY <1>1, <1>2, <1>3, <2>1
    <3>2. QED BY <3>1
  <2>2. CASE j < i
    <3>1. entry_size * j + entry_size <= entry_size * i
      BY <1>3, <2>2, SlotGap
    <3>2. a \in Nat /\ b \in Nat
      BY <1>1, <1>2, <1>3
    <3>3. QED BY <1>1, <1>2, <3>1, <3>2
  <2>3. QED BY <1>3, <1>4, <2>1, <2>2
<1>5. entry_size * i + entry_size <= entry_size * j
  BY <1>3, <1>4, SlotGap
<1>6. QED BY <1>1, <1>2, <1>5

\* A ring is full exactly when the entry after its tail is the one at its head.
LEMMA FullMeans ==
  ASSUME Divides, RingInv
  PROVE  ringbuffer_full(rb) <=> Advance(rb.tail, entry_size, capacity) = rb.head
<1> USE DEF Divides
<1>1. /\ rb.tail \in Nat /\ rb.tail + entry_size <= capacity
      /\ Advance(rb.tail, entry_size, capacity)
           = IF rb.tail + entry_size = capacity THEN 0 ELSE rb.tail + entry_size
  BY AdvanceSlot DEF RingInv
<1>2. rb.entry_size = entry_size /\ rb.capacity = capacity
  BY DEF RingInv, RingTypeOK
<1>3. CASE rb.tail + entry_size = capacity
  <2>1. capacity % capacity = 0
    BY SMT
  <2>2. QED BY <1>1, <1>2, <1>3, <2>1 DEF ringbuffer_full
<1>4. CASE rb.tail + entry_size < capacity
  <2>1. (rb.tail + entry_size) % capacity = rb.tail + entry_size
    BY <1>1, <1>4, SMT
  <2>2. QED BY <1>1, <1>2, <1>4, <2>1 DEF ringbuffer_full
<1>5. QED BY <1>1, <1>3, <1>4

\* The ring starts empty.
LEMMA RingInvInit ==
  ASSUME Divides, RingInit
  PROVE  RingInv
<1> USE DEF Divides
<1>1. RingTypeOK
  BY DEF RingInit, RingTypeOK
<1>2. rb.head = 0 /\ rb.tail = 0 /\ items = 0
  BY DEF RingInit
<1>3. Slot(0)
  <2>1. 0 \in 0 .. (slots - 1) /\ 0 = entry_size * 0
    BY WholeRing
  <2>2. QED BY <2>1 DEF Slot
<1>4. SizeIsItems
  BY <1>2 DEF SizeIsItems, ringbuffer_size
<1>5. QED BY <1>1, <1>2, <1>3, <1>4 DEF RingInv

\* A push moves the tail to the next entry, which is not the head's.
LEMMA PushStep ==
  ASSUME Divides, RingInv, Push
  PROVE  RingInv'
<1> USE DEF Divides
<1> DEFINE t == Advance(rb.tail, entry_size, capacity)
<1>1. /\ rb.entry_size = entry_size /\ rb.capacity = capacity
      /\ rb.head \in 0 .. (capacity - 1) /\ rb.tail \in 0 .. (capacity - 1)
      /\ items \in Nat
      /\ rb \in [entry_size : {entry_size}, capacity : {capacity},
               head : 0 .. (capacity - 1), tail : 0 .. (capacity - 1)]
  BY DEF RingInv, RingTypeOK
<1>2. rb' = [rb EXCEPT !.tail = t] /\ items' = items + 1
  BY <1>1 DEF Push, ringbuffer_push
<1>3. /\ t = IF rb.tail + entry_size = capacity THEN 0 ELSE rb.tail + entry_size
      /\ Slot(t) /\ rb.tail + entry_size <= capacity
  BY AdvanceSlot DEF RingInv
<1>4. t # rb.head
  BY FullMeans DEF Push
<1> HIDE DEF t
<1>5. t \in 0 .. (capacity - 1)
  BY <1>1, <1>3
<1>6. /\ rb'.head = rb.head /\ rb'.tail = t
      /\ rb'.entry_size = entry_size /\ rb'.capacity = capacity
      /\ rb' \in [entry_size : {entry_size}, capacity : {capacity},
               head : 0 .. (capacity - 1), tail : 0 .. (capacity - 1)]
  BY <1>1, <1>2, <1>5
<1>7. RingTypeOK'
  BY <1>1, <1>2, <1>6 DEF RingTypeOK
<1>8. Slot(rb.head) /\ Slot(rb.tail)
  BY DEF RingInv
<1>9. ringbuffer_size(rb') = ringbuffer_size(rb) + entry_size
  <2>1. CASE rb.head > rb.tail
    <3>1. rb.tail + entry_size <= rb.head
      BY <1>1, <1>8, <2>1, SlotsApart
    <3>2. t = rb.tail + entry_size /\ t < rb.head
      BY <1>1, <1>3, <1>4, <3>1
    <3>3. QED BY <1>1, <1>6, <2>1, <3>2 DEF ringbuffer_size
  <2>2. CASE rb.head <= rb.tail
    <3>1. CASE rb.tail + entry_size = capacity
      BY <1>1, <1>3, <1>4, <1>6, <2>2, <3>1 DEF ringbuffer_size
    <3>2. CASE rb.tail + entry_size # capacity
      BY <1>1, <1>3, <1>6, <2>2, <3>2 DEF ringbuffer_size
    <3>3. QED BY <3>1, <3>2
  <2>3. QED BY <1>1, <2>1, <2>2
<1>10. SizeIsItems'
  <2>1. (items + 1) * entry_size = items * entry_size + entry_size
    BY <1>1
  <2>2. QED BY <1>2, <1>9, <2>1 DEF RingInv, SizeIsItems
<1>11. Slot(rb'.head) /\ Slot(rb'.tail)
  BY <1>3, <1>6, <1>8
<1>12. QED BY <1>6, <1>7, <1>10, <1>11 DEF RingInv, Slot

\* A pop moves the head to the next entry; what was there has been pushed.
LEMMA PopStep ==
  ASSUME Divides, RingInv, Pop
  PROVE  RingInv'
<1> USE DEF Divides
<1> DEFINE h == Advance(rb.head, entry_size, capacity)
<1>1. /\ rb.entry_size = entry_size /\ rb.capacity = capacity
      /\ rb.head \in 0 .. (capacity - 1) /\ rb.tail \in 0 .. (capacity - 1)
      /\ items \in Nat /\ rb.head # rb.tail
      /\ rb \in [entry_size : {entry_size}, capacity : {capacity},
               head : 0 .. (capacity - 1), tail : 0 .. (capacity - 1)]
  BY DEF RingInv, RingTypeOK, Pop, ringbuffer_empty
<1>2. rb' = [rb EXCEPT !.head = h] /\ items' = items - 1
  BY <1>1 DEF Pop, ringbuffer_pop
<1>3. /\ h = IF rb.head + entry_size = capacity THEN 0 ELSE rb.head + entry_size
      /\ Slot(h) /\ rb.head + entry_size <= capacity
  BY AdvanceSlot DEF RingInv
<1> HIDE DEF h
<1>4. h \in 0 .. (capacity - 1)
  BY <1>1, <1>3
<1>5. /\ rb'.tail = rb.tail /\ rb'.head = h
      /\ rb'.entry_size = entry_size /\ rb'.capacity = capacity
      /\ rb' \in [entry_size : {entry_size}, capacity : {capacity},
               head : 0 .. (capacity - 1), tail : 0 .. (capacity - 1)]
  BY <1>1, <1>2, <1>4
<1>6. Slot(rb.head) /\ Slot(rb.tail)
  BY DEF RingInv
<1>7. ringbuffer_size(rb') = ringbuffer_size(rb) - entry_size /\ ringbuffer_size(rb) > 0
  <2>1. CASE rb.head > rb.tail
    <3>1. CASE rb.head + entry_size = capacity
      BY <1>1, <1>3, <1>5, <2>1, <3>1 DEF ringbuffer_size
    <3>2. CASE rb.head + entry_size # capacity
      BY <1>1, <1>3, <1>5, <2>1, <3>2 DEF ringbuffer_size
    <3>3. QED BY <3>1, <3>2
  <2>2. CASE rb.head < rb.tail
    <3>1. rb.head + entry_size <= rb.tail
      BY <1>6, <2>2, SlotsApart
    <3>2. h = rb.head + entry_size
      BY <1>1, <1>3, <3>1
    <3>3. QED BY <1>1, <1>5, <2>2, <3>1, <3>2 DEF ringbuffer_size
  <2>3. QED BY <1>1, <2>1, <2>2
<1>8. items # 0
  BY <1>7 DEF RingInv, SizeIsItems
<1>9. RingTypeOK'
  BY <1>1, <1>2, <1>5, <1>8 DEF RingTypeOK
<1>10. SizeIsItems'
  <2>1. (items - 1) * entry_size = items * entry_size - entry_size
    BY <1>1
  <2>2. QED BY <1>2, <1>7, <2>1 DEF RingInv, SizeIsItems
<1>11. Slot(rb'.head) /\ Slot(rb'.tail)
  BY <1>3, <1>5, <1>6
<1>12. QED BY <1>9, <1>10, <1>11 DEF RingInv, Slot

\* The ring invariant holds in every reachable state.
LEMMA RingInvariant ==
  ASSUME Divides
  PROVE  RingSpec => []RingInv
<1> USE DEF Divides
<1>1. RingInit => RingInv
  BY RingInvInit
<1>2. RingInv /\ [RingNext]_ringVars => RingInv'
  <2>1. CASE UNCHANGED ringVars
    BY <2>1 DEF ringVars, RingInv, RingTypeOK, SizeIsItems, ringbuffer_size, Slot
  <2>2. QED BY <2>1, PushStep, PopStep DEF RingNext
<1>3. QED BY <1>1, <1>2, PTL DEF RingSpec

(***************************************************************************)
(* For every entry size and every capacity of two or more whole entries,     *)
(* ringbuffer_size (ring_buffer.h:30-38) is the number of bytes pushed and   *)
(* not yet popped: the empty ring and the full one are never confused.       *)
(***************************************************************************)
THEOREM SizeCounts ==
  ASSUME Divides
  PROVE  RingSpec => []SizeIsItems
<1> USE DEF Divides
<1>1. RingInv => SizeIsItems
  BY DEF RingInv
<1>2. QED BY <1>1, RingInvariant, PTL
==============================================================================
