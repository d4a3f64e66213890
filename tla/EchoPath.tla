------------------------------ MODULE EchoPath -------------------------------
(***************************************************************************)
(* The single-context echo path: the receive engine, the host worker and    *)
(* the transmit engine, which share only cfg and the two rings.              *)
(***************************************************************************)
EXTENDS RxSingle, TxSingle, HostWorker

vars == <<cfg, rx_mem, tx_mem, rxVars, txVars, hostVars>>

Init == MetaInit /\ RxInit /\ TxInit /\ HostInit

RxStep   == RxNext   /\ UNCHANGED <<tx_mem, txVars, hostVars>>
TxStep   == TxNext   /\ UNCHANGED <<rx_mem, rxVars, hostVars>>
HostStep == HostNext /\ UNCHANGED <<rxVars, txVars>>

Next == RxStep \/ TxStep \/ HostStep

\* Each engine runs its program, the worker thread is scheduled and the NBI
\* drains; nothing makes a frame arrive.
Fairness ==
    /\ WF_vars(RxProcess /\ UNCHANGED <<tx_mem, txVars, hostVars>>)
    /\ WF_vars(TxProcess /\ UNCHANGED <<rx_mem, rxVars, hostVars>>)
    /\ WF_vars(NbiTransmit /\ UNCHANGED <<rx_mem, rxVars, hostVars>>)
    /\ WF_vars(HostStep)

Spec == Init /\ [][Next]_vars

FairSpec == Spec /\ Fairness

-----------------------------------------------------------------------------
Bytes == (Packets \X PacketOffsets) \cup {Zero}

(***************************************************************************)
(* Every word of shared and local state keeps its type; in particular no    *)
(* offset ever leaves the ring.                                             *)
(***************************************************************************)
TypeOK ==
    /\ cfg \in device_meta_t
    /\ rx_mem \in [HostBytes -> Bytes]
    /\ tx_mem \in [HostBytes -> Bytes]
    /\ RxTypeOK
    /\ TxTypeOK(Bytes)
    /\ HostTypeOK

-----------------------------------------------------------------------------
\* How far the engines have got, in packets.  The four words of cfg are
\* Published, Released, Handed and Fetched reduced to offsets.
Published == Len(admitted) - Count(rx.pc = "dma")
Fetched   == Len(sent) + Count(tx.pc = "send")

(***************************************************************************)
(* The four indices of device_meta_t always denote the true progress of     *)
(* their owners, and each ring keeps one entry free: the receive engine     *)
(* never laps the worker and the worker never laps the transmit engine      *)
(* (updated_tail == head in rx.c:68, ringbuffer_full in app_main.c:152).    *)
(***************************************************************************)
NoOverrun ==
    /\ cfg.rx_tail = OffsetOf(Published)
    /\ cfg.rx_head = OffsetOf(Released)
    /\ cfg.tx_tail = OffsetOf(Handed)
    /\ cfg.tx_head = OffsetOf(Fetched)
    /\ Released <= echoed /\ echoed <= Published
    /\ Len(admitted) - Released <= NumSlots - 1
    /\ Fetched <= Handed /\ Handed <= echoed
    /\ echoed - Fetched <= NumSlots - 1

(***************************************************************************)
(* A published packet stays whole until it is copied, and a copied packet   *)
(* until the transmit engine has fetched it: no DMA and no memcpy hits an   *)
(* entry somebody still has to read, and no entry is published while one of *)
(* its two DMAs is outstanding (dma.c:123, rx.c:76-79, app_main.c:157-165). *)
(***************************************************************************)
EntriesIntact ==
    /\ \A n \in (echoed + 1) .. Published : \A b \in PacketOffsets :
           rx_mem[OffsetOf(n - 1) + b] = <<admitted[n], b>>
    /\ \A n \in (Fetched + 1) .. echoed : \A b \in PacketOffsets :
           tx_mem[OffsetOf(n - 1) + b] = <<admitted[n], b>>

(***************************************************************************)
(* An engine works on an entry only with the sizes the host configured: the *)
(* start signal is seen after everything else that configure_device writes  *)
(* (app_main.c:108-117, rx.c:96-105, tx.c:69-78).                           *)
(***************************************************************************)
ConfiguredBeforeUse ==
    /\ rx.pc # "start" => /\ rx.packet_size = UDP_PACKET_SIZE
                          /\ rx.buffer_capacity = RING_BUFFER_SIZE
    /\ tx.pc # "start" => /\ tx.packet_size = UDP_PACKET_SIZE
                          /\ tx.buffer_capacity = RING_BUFFER_SIZE

(***************************************************************************)
(* Packet buffers are neither lost nor handed out twice: those not free are *)
(* with the NBI or with the packet the transmit engine works on             *)
(* (txops.c:22-36, tx.c:55).                                                *)
(***************************************************************************)
BuffersConserved ==
    tx.pc # "start" =>
        pool + nbi + Count(tx.pc \in {"head", "data", "dma", "send"}) = TxBuffers

-----------------------------------------------------------------------------
\* What the wire must see for an admitted packet.
EchoOf(p) == [len |-> UDP_PACKET_SIZE + MAC_PREPEND_BYTES,
              data |-> PacketBytes(p)]

(***************************************************************************)
(* The path implements the echo service: each ring holds one packet less    *)
(* than it has entries and the transmit engine one more.                    *)
(***************************************************************************)
Service == INSTANCE EchoService
              WITH Reply <- EchoOf, Capacity <- 2 * (NumSlots - 1) + 1

EchoSafety   == Service!Safety
EchoLiveness == Service!Spec

-----------------------------------------------------------------------------
\* What the two offsets in cfg make of the memory between them.
RingAt(head, tail) ==
    [entry_size |-> UDP_PACKET_SIZE, capacity |-> RING_BUFFER_SIZE,
     head |-> head, tail |-> tail]

RxRing == INSTANCE RingBuffer
             WITH entry_size <- UDP_PACKET_SIZE, capacity <- RING_BUFFER_SIZE,
                  rb <- RingAt(cfg.rx_head, cfg.rx_tail),
                  items <- Published - Released

TxRing == INSTANCE RingBuffer
             WITH entry_size <- UDP_PACKET_SIZE, capacity <- RING_BUFFER_SIZE,
                  rb <- RingAt(cfg.tx_head, cfg.tx_tail),
                  items <- Handed - Fetched

(***************************************************************************)
(* Each shared ring is the ring of the library, although its two offsets    *)
(* are moved by two parties that decide on old copies and compute the new   *)
(* offset in their own way (rx.c:62-79, tx.c:37-54, app_main.c:150-168):     *)
(* one entry is pushed at a time and never into a full ring, one is popped   *)
(* at a time and never from an empty one, and no update of one side undoes   *)
(* one of the other.                                                         *)
(***************************************************************************)
RingsSafe == RxRing!RingSpec /\ TxRing!RingSpec
==============================================================================
