----------------------------- MODULE RingBuffer ------------------------------
(***************************************************************************)
(* The host's ring library on its own (user/lib/ring_buffer): one ring whose *)
(* user pushes only after ringbuffer_full and pops only after               *)
(* ringbuffer_empty said it may, as udp_worker does.  It is also what each   *)
(* ring of EchoPath promises to be, which two parties move.                  *)
(***************************************************************************)
EXTENDS RingOps

CONSTANTS entry_size, capacity  \* UDP_PACKET_SIZE and RING_BUFFER_SIZE

VARIABLES rb,    \* the struct ringbuffer_t
          items  \* history: entries pushed and not popped

ringVars == <<rb, items>>

\* The struct as udp_worker sets it up: offsets start at 0.
RingInit ==
    /\ rb = [entry_size |-> entry_size, capacity |-> capacity,
             head |-> 0, tail |-> 0]
    /\ items = 0

Push ==
    /\ ~ ringbuffer_full(rb)
    /\ rb' = ringbuffer_push(rb)
    /\ items' = items + 1

Pop ==
    /\ ~ ringbuffer_empty(rb)
    /\ rb' = ringbuffer_pop(rb)
    /\ items' = items - 1

RingNext == Push \/ Pop

RingSpec == RingInit /\ [][RingNext]_ringVars

-----------------------------------------------------------------------------
\* The ring holds a whole number of entries, and more than one.
Divides ==
    /\ entry_size \in Nat \ {0}
    /\ capacity \in Nat \ {0}
    /\ capacity % entry_size = 0
    /\ entry_size < capacity

\* The offsets of the ring stay inside it (ring_buffer.h:9-16).
RingTypeOK ==
    /\ rb \in [entry_size : {entry_size}, capacity : {capacity},
               head : 0 .. (capacity - 1), tail : 0 .. (capacity - 1)]
    /\ items \in Nat

(***************************************************************************)
(* ringbuffer_size counts exactly the bytes pushed and not yet popped, so   *)
(* that head = tail always means empty and never full (ring_buffer.h:18-38). *)
(***************************************************************************)
SizeIsItems == ringbuffer_size(rb) = items * entry_size
==============================================================================
