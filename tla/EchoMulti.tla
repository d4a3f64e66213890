------------------------------ MODULE EchoMulti ------------------------------
(***************************************************************************)
(* The multi-context echo path (app_mc): the contexts of the receive        *)
(* engine, the host worker and the contexts of the transmit engine.          *)
(***************************************************************************)
EXTENDS RxMulti, TxMulti, HostWorker, FiniteSets

vars == <<cfg, rx_mem, tx_mem, rxVars, txVars, hostVars>>

Init == MetaInit /\ RxInit /\ TxInit /\ HostInit

Next ==
    \/ RxNext   /\ UNCHANGED <<tx_mem, txVars, hostVars>>
    \/ TxNext   /\ UNCHANGED <<rx_mem, rxVars, hostVars>>
    \/ HostNext /\ UNCHANGED <<rxVars, txVars>>

\* Every context gets its turn, the worker thread is scheduled and the NBI
\* drains; nothing makes a frame arrive.
Fairness ==
    /\ \A c \in RxContexts :
           WF_vars(UNCHANGED <<tx_mem, txVars, hostVars>> /\ RxProcess(c))
    /\ \A c \in TxContexts :
           WF_vars(UNCHANGED <<rx_mem, rxVars, hostVars>> /\ TxProcess(c))
    /\ WF_vars(UNCHANGED <<rx_mem, rxVars, hostVars>> /\ NbiTransmit)
    /\ WF_vars(UNCHANGED <<rxVars, txVars>> /\ HostNext)

Spec == Init /\ [][Next]_vars

FairSpec == Spec /\ Fairness

-----------------------------------------------------------------------------
Bytes == (Packets \X PacketOffsets) \cup {Zero}

\* Every word of shared memory, local memory and context state keeps its type.
TypeOK ==
    /\ cfg \in device_meta_t
    /\ rx_mem \in [HostBytes -> Bytes]
    /\ tx_mem \in [HostBytes -> Bytes]
    /\ RxTypeOK
    /\ TxTypeOK(Bytes)
    /\ HostTypeOK

\* The contexts of the transmit engine that have allocated a packet.
TxWorking == {c \in TxContexts :
                 txc[c].pc \in {"tail", "resume", "dma", "publish", "send"}}

(***************************************************************************)
(* No context, not only context 0, works before context 0 has seen the      *)
(* start signal and loaded the sizes the host configured, in whatever order  *)
(* the contexts start (app_main.c:108-117, multi_rx.c:110-125,               *)
(* multi_tx.c:85-99).                                                        *)
(***************************************************************************)
ConfiguredBeforeUse ==
    /\ \A c \in RxContexts : rxc[c].pc # "start" =>
           /\ rxl.packet_size = UDP_PACKET_SIZE
           /\ rxl.buffer_capacity = RING_BUFFER_SIZE
    /\ \A c \in TxContexts : txc[c].pc # "start" =>
           /\ txl.packet_size = UDP_PACKET_SIZE
           /\ txl.buffer_capacity = RING_BUFFER_SIZE

(***************************************************************************)
(* The contexts share one pool of packet buffers and lose or reuse none:    *)
(* those not free are with the NBI or with a context, also while every       *)
(* context holds one and waits (txops.c:22-36, multi_tx.c:36, 76).           *)
(***************************************************************************)
BuffersConserved == pool + nbi + Cardinality(TxWorking) = TxBuffers

\* How far the engines have got, in packets.
Published == Len(admitted) - Cardinality(RxHolding)
Fetched   == claimed - Cardinality(TxHolding)

(***************************************************************************)
(* The contexts publish in the order in which they reserved, one entry at a *)
(* time, although they finish their DMAs in any order: the published tail   *)
(* and head count exactly the finished entries, and the contexts in between *)
(* hold the entries from there to the shadow index, each its own            *)
(* (multi_rx.c:84-100, multi_tx.c:56-73, "Access to CLS is in-order. No     *)
(* need for atomic update").                                                *)
(***************************************************************************)
OrderedPublication ==
    /\ cfg.rx_tail = OffsetOf(Published)
    /\ rxl.shadow_tail = OffsetOf(Len(admitted))
    /\ {rxc[c].tail : c \in RxHolding}
         = {OffsetOf(n) : n \in Published .. (Len(admitted) - 1)}
    /\ cfg.tx_head = OffsetOf(Fetched)
    /\ txl.shadow_head = OffsetOf(claimed)
    /\ {txc[c].head : c \in TxHolding}
         = {OffsetOf(n) : n \in Fetched .. (claimed - 1)}

(***************************************************************************)
(* A context reserves a receive entry only if it is free: the contexts      *)
(* never lap the worker (multi_rx.c:66-84, "Buffer full").                  *)
(***************************************************************************)
ReserveOnlyFree == Len(admitted) - Released <= NumSlots - 1

(***************************************************************************)
(* A context claims a transmit entry only if the worker has handed one over *)
(* (multi_tx.c:38-56, "Wait until TX ring is non-empty").                   *)
(***************************************************************************)
ClaimOnlyHanded == claimed <= Handed

(***************************************************************************)
(* What the worker or a transmit context still has to read is whole.        *)
(***************************************************************************)
EntriesIntact ==
    /\ \A n \in (echoed + 1) .. Published : \A b \in PacketOffsets :
           rx_mem[OffsetOf(n - 1) + b] = <<admitted[n], b>>
    /\ \A n \in (Fetched + 1) .. echoed : \A b \in PacketOffsets :
           tx_mem[OffsetOf(n - 1) + b] = <<admitted[n], b>>

-----------------------------------------------------------------------------
EchoOf(p) == [len |-> UDP_PACKET_SIZE + MAC_PREPEND_BYTES,
              data |-> PacketBytes(p)]

(***************************************************************************)
(* The path implements the unordered echo service: each ring holds one      *)
(* packet less than it has entries, each transmit context one more.         *)
(***************************************************************************)
Service == INSTANCE UnorderedEcho
              WITH Reply <- EchoOf,
                   Capacity <- 2 * (NumSlots - 1) + Cardinality(TxContexts)

EchoSafety   == Service!Safety
EchoLiveness == Service!Liveness
==============================================================================
