------------------------------- MODULE RxMulti -------------------------------
(***************************************************************************)
(* The multi-context receive firmware (firmware/multi_rx.c): the contexts   *)
(* of one microengine run rx_process together.  A context reserves an entry *)
(* by advancing shadow_tail in local memory, fills it by DMA at its own      *)
(* pace, waits until the published tail reaches its entry and then moves     *)
(* the tail past it.                                                         *)
(***************************************************************************)
EXTENDS DeviceMeta, PacketOps, Contexts

CONSTANTS RxContexts,   \* the contexts
          rx_ctx0,      \* context 0, which loads the configuration
          Frames,       \* the frames the network may deliver
          MaxFrames,    \* bound: how many frames arrive
          RxCtmWindow,  \* payload bytes of a received packet kept in the CTM
          NoPkt         \* no packet in hand

ASSUME RxMultiAssumption ==
    /\ rx_ctx0 \in RxContexts
    /\ IsFiniteSet(RxContexts)
    /\ MaxFrames \in Nat
    /\ RxCtmWindow \in Nat \ {0}

VARIABLES rxl,      \* the shared local memory of the engine
          rxc,      \* the contexts
          rxq,      \* contexts with a read of cfg.rx_head, in CLS order
          arrived,  \* number of frames taken from the NBI
          admitted  \* history: the packets that reserved an entry, in order

rxVars == <<rxl, rxc, rxq, arrived, admitted>>

Packets == [id : 1 .. MaxFrames, hdr : {modify_packet_header(f) : f \in Frames}]

RxLocal == [buffer_capacity : Nat, packet_size : Nat, shadow_tail : Offsets,
            init : {0, 1}]

RxContext == [pc : {"start", "receive", "head", "resume", "dma", "publish"},
              pkt : Packets \cup {NoPkt}, head : Offsets, tail : Offsets,
              updated_tail : Offsets, pending : SUBSET SUBSET PacketOffsets]

RxTypeOK ==
    /\ rxl \in RxLocal
    /\ rxc \in [RxContexts -> RxContext]
    /\ rxq \in Seq(RxContexts)
    /\ arrived \in 0 .. MaxFrames
    /\ admitted \in Seq(Packets)

\* A context between two packets: the locals of rx_process are dead.
RxIdle(pc) == [pc |-> pc, pkt |-> NoPkt, head |-> 0, tail |-> 0,
               updated_tail |-> 0, pending |-> {}]

RxInit ==
    /\ rxl = [buffer_capacity |-> 0, packet_size |-> 0, shadow_tail |-> 0,
              init |-> 0]
    /\ rxc = [c \in RxContexts |-> RxIdle("start")]
    /\ rxq = <<>>
    /\ arrived = 0
    /\ admitted = <<>>

\* main on context 0: the start signal is seen, the sizes are loaded.
RxMain0 ==
    /\ rxc[rx_ctx0].pc = "start"
    /\ cfg.start_signal # 0
    /\ rxl' = [rxl EXCEPT !.buffer_capacity = cfg.buffer_size,
                          !.packet_size = cfg.packet_size, !.init = 1]
    /\ rxc' = [rxc EXCEPT ![rx_ctx0].pc = "receive"]
    /\ UNCHANGED <<cfg, rx_mem, rxq, arrived, admitted>>

\* Mutant: does not wait for context 0.
RxMainAtOnce(c) ==
    /\ c # rx_ctx0
    /\ rxc[c].pc = "start"
    /\ rxc' = [rxc EXCEPT ![c].pc = "receive"]
    /\ UNCHANGED <<cfg, rx_mem, rxl, rxq, arrived, admitted>>

\* main on another context: context 0 has loaded the configuration.
RxMain(c) ==
    /\ c # rx_ctx0
    /\ rxc[c].pc = "start"
    /\ rxl.init # 0
    /\ rxc' = [rxc EXCEPT ![c].pc = "receive"]
    /\ UNCHANGED <<cfg, rx_mem, rxl, rxq, arrived, admitted>>

RxDrop(c, f) ==
    /\ rxc[c].pc = "receive"
    /\ arrived < MaxFrames
    /\ filter_packets(f, rxl.packet_size) = "DROP"
    /\ arrived' = arrived + 1
    /\ UNCHANGED <<cfg, rx_mem, rxl, rxc, rxq, admitted>>

RxAllow(c, f) ==
    /\ rxc[c].pc = "receive"
    /\ arrived < MaxFrames
    /\ filter_packets(f, rxl.packet_size) = "ALLOW"
    /\ arrived' = arrived + 1
    /\ rxc' = [rxc EXCEPT ![c].pc = "head",
                          ![c].pkt = [id |-> arrived + 1,
                                      hdr |-> modify_packet_header(f)]]
    /\ UNCHANGED <<cfg, rx_mem, rxl, rxq, admitted>>

\* The CLS is read; the context is still swapped out.
RxReadHead(c) ==
    /\ rxc[c].pc = "head"
    /\ rxc' = [rxc EXCEPT ![c].pc = "resume", ![c].head = cfg.rx_head]
    /\ rxq' = Append(rxq, c)
    /\ UNCHANGED <<cfg, rx_mem, rxl, arrived, admitted>>

UpdatedTail == Advance(rxl.shadow_tail, rxl.packet_size, rxl.buffer_capacity)

\* The context runs with the head it read: the buffer looks full ...
RxRetry(c) ==
    /\ rxc[c].pc = "resume"
    /\ Resumes(rxq, c)
    /\ UpdatedTail = rxc[c].head
    /\ rxc' = [rxc EXCEPT ![c].pc = "head"]
    /\ rxq' = RemoveFirst(rxq, c)
    /\ UNCHANGED <<cfg, rx_mem, rxl, arrived, admitted>>

\* Mutant: reserves whatever the head says.
RxReserveAlways(c) ==
    /\ rxc[c].pc = "resume"
    /\ Resumes(rxq, c)
    /\ rxl' = [rxl EXCEPT !.shadow_tail = UpdatedTail]
    /\ rxc' = [rxc EXCEPT ![c].pc = "dma",
                          ![c].tail = rxl.shadow_tail,
                          ![c].updated_tail = UpdatedTail,
                          ![c].pending = DmaParts(rxl.packet_size, RxCtmWindow)]
    /\ rxq' = RemoveFirst(rxq, c)
    /\ admitted' = Append(admitted, rxc[c].pkt)
    /\ UNCHANGED <<cfg, rx_mem, arrived>>

\* ... or not: the entry at shadow_tail is reserved and the DMAs start.
RxReserve(c) ==
    /\ rxc[c].pc = "resume"
    /\ Resumes(rxq, c)
    /\ UpdatedTail # rxc[c].head
    /\ rxl' = [rxl EXCEPT !.shadow_tail = UpdatedTail]
    /\ rxc' = [rxc EXCEPT ![c].pc = "dma",
                          ![c].tail = rxl.shadow_tail,
                          ![c].updated_tail = UpdatedTail,
                          ![c].pending = DmaParts(rxl.packet_size, RxCtmWindow)]
    /\ rxq' = RemoveFirst(rxq, c)
    /\ admitted' = Append(admitted, rxc[c].pkt)
    /\ UNCHANGED <<cfg, rx_mem, arrived>>

RxDmaWrite(c, part) ==
    /\ rxc[c].pc = "dma"
    /\ part \in rxc[c].pending
    /\ rx_mem' = Store(rx_mem, rxc[c].tail, part, PacketBytes(rxc[c].pkt))
    /\ rxc' = [rxc EXCEPT ![c].pending = @ \ {part}]
    /\ UNCHANGED <<cfg, rxl, rxq, arrived, admitted>>

\* Mutant: publishes without waiting for the contexts before it.
RxTurnAny(c) ==
    /\ rxc[c].pc = "dma"
    /\ rxc[c].pending = {}
    /\ rxc' = [rxc EXCEPT ![c].pc = "publish"]
    /\ UNCHANGED <<cfg, rx_mem, rxl, rxq, arrived, admitted>>

\* Mutant: publishes without waiting for the DMA.
RxTurnEarly(c) ==
    /\ rxc[c].pc = "dma"
    /\ cfg.rx_tail = rxc[c].tail
    /\ rxc' = [rxc EXCEPT ![c].pc = "publish"]
    /\ UNCHANGED <<cfg, rx_mem, rxl, rxq, arrived, admitted>>

\* All completion signals are in and the published tail is at this entry.
RxTurn(c) ==
    /\ rxc[c].pc = "dma"
    /\ rxc[c].pending = {}
    /\ cfg.rx_tail = rxc[c].tail
    /\ rxc' = [rxc EXCEPT ![c].pc = "publish"]
    /\ UNCHANGED <<cfg, rx_mem, rxl, rxq, arrived, admitted>>

RxPublish(c) ==
    /\ rxc[c].pc = "publish"
    /\ cfg' = [cfg EXCEPT !.rx_tail = rxc[c].updated_tail]
    /\ rxc' = [rxc EXCEPT ![c] = RxIdle("receive")]
    /\ UNCHANGED <<rx_mem, rxl, rxq, arrived, admitted>>

\* The steps of a context: all but the arrival of a frame.
RxProcess(c) ==
    \/ c = rx_ctx0 /\ RxMain0
    \/ RxMain(c)
    \/ RxReadHead(c)
    \/ RxRetry(c)
    \/ RxReserve(c)
    \/ \E part \in rxc[c].pending : RxDmaWrite(c, part)
    \/ RxTurn(c)
    \/ RxPublish(c)

RxNext ==
    \E c \in RxContexts :
        \/ RxProcess(c)
        \/ \E f \in Frames : RxDrop(c, f) \/ RxAllow(c, f)

\* Contexts that hold an entry they have reserved and not published.
RxHolding == {c \in RxContexts : rxc[c].pc \in {"dma", "publish"}}
==============================================================================
