------------------------------- MODULE RingOps -------------------------------
(***************************************************************************)
(* The ring arithmetic of the echo path, as pure operators on byte         *)
(* offsets.  The host library (user/lib/ring_buffer) and the firmware       *)
(* (rx.c, tx.c, multi_rx.c, multi_tx.c) advance an offset in the same way:  *)
(* add one entry and restart at 0 once the end of the ring is reached.      *)
(* Only ringbuffer_full looks at the end of the ring differently (modulo).  *)
(* The entry size is positive and offsets stay far below 2^32, so the       *)
(* uint32_t additions never wrap.                                           *)
(***************************************************************************)
EXTENDS Integers

\* Mutant: wraps one entry late (> for >=).
AdvanceLate(off, entry_size, capacity) ==
    IF off + entry_size > capacity THEN 0 ELSE off + entry_size

\* The offset of the entry after the one at `off'.
Advance(off, entry_size, capacity) ==
    IF off + entry_size >= capacity THEN 0 ELSE off + entry_size

(***************************************************************************)
(* struct ringbuffer_t and its operations; base_addr is left out, offsets   *)
(* are relative to it.                                                      *)
(***************************************************************************)
ringbuffer_t(Offset) ==
    [entry_size : Nat, capacity : Nat, head : Offset, tail : Offset]

ringbuffer_empty(rb) == rb.head = rb.tail

ringbuffer_size(rb) ==
    IF rb.head > rb.tail THEN (rb.capacity - rb.head) + rb.tail
                         ELSE rb.tail - rb.head

\* Mutant: the modulo is forgotten.
ringbuffer_full_unwrapped(rb) == rb.tail + rb.entry_size = rb.head

ringbuffer_full(rb) == (rb.tail + rb.entry_size) % rb.capacity = rb.head

\* ringbuffer_push and ringbuffer_pop crash on a full, an empty ring: a
\* caller's step is enabled only where the assertion holds.
ringbuffer_push(rb) ==
    [rb EXCEPT !.tail = Advance(rb.tail, rb.entry_size, rb.capacity)]

ringbuffer_pop(rb) ==
    [rb EXCEPT !.head = Advance(rb.head, rb.entry_size, rb.capacity)]
==============================================================================
