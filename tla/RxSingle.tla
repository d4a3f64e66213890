------------------------------ MODULE RxSingle -------------------------------
(***************************************************************************)
(* The single-context receive firmware (firmware/rx.c on i32.me0): wait for *)
(* the start signal, then for ever take a frame from the NBI, filter and    *)
(* rewrite it, wait for a free entry of the receive ring, DMA the packet     *)
(* into it and publish the new tail.                                         *)
(*                                                                          *)
(* A step of the model is one access to shared state (a CLS word, host      *)
(* memory); a loop that polls a CLS word is a guard on that word.            *)
(***************************************************************************)
EXTENDS DeviceMeta, PacketOps

CONSTANTS Frames,       \* the frames the network may deliver
          MaxFrames,    \* bound: how many frames arrive
          RxCtmWindow,  \* payload bytes of a received packet kept in the CTM
          NoPkt         \* no packet in hand

ASSUME RxAssumption == MaxFrames \in Nat /\ RxCtmWindow \in Nat \ {0}

VARIABLES rx,       \* the engine's context 0 and its local memory
          arrived,  \* number of frames taken from the NBI
          admitted  \* history: the packets that got a ring entry, in order

rxVars == <<rx, arrived, admitted>>

\* A packet is the rewritten header of a frame and the arrival's number, which
\* stands for its payload.
Packets == [id : 1 .. MaxFrames, hdr : {modify_packet_header(f) : f \in Frames}]

RxPc == {"start", "receive", "tail", "space", "dma"}

RxEngine ==
    [pc : RxPc, buffer_capacity : Nat, packet_size : Nat,
     pkt : Packets \cup {NoPkt}, tail : Offsets, updated_tail : Offsets,
     pending : SUBSET SUBSET PacketOffsets]

RxTypeOK ==
    /\ rx \in RxEngine
    /\ arrived \in 0 .. MaxFrames
    /\ admitted \in Seq(Packets)

RxInit ==
    /\ rx = [pc |-> "start", buffer_capacity |-> 0, packet_size |-> 0,
             pkt |-> NoPkt, tail |-> 0, updated_tail |-> 0, pending |-> {}]
    /\ arrived = 0
    /\ admitted = <<>>

\* Mutant: main does not wait for the start signal.
RxMainUnsignalled ==
    /\ rx.pc = "start"
    /\ rx' = [rx EXCEPT !.pc = "receive",
                        !.buffer_capacity = cfg.buffer_size,
                        !.packet_size = cfg.packet_size]
    /\ UNCHANGED <<cfg, rx_mem, arrived, admitted>>

\* main: the start signal is seen, the sizes are loaded.
RxMain ==
    /\ rx.pc = "start"
    /\ cfg.start_signal # 0
    /\ rx' = [rx EXCEPT !.pc = "receive",
                        !.buffer_capacity = cfg.buffer_size,
                        !.packet_size = cfg.packet_size]
    /\ UNCHANGED <<cfg, rx_mem, arrived, admitted>>

\* rx_process up to the ring: a frame arrives and is dropped ...
RxDrop(f) ==
    /\ rx.pc = "receive"
    /\ arrived < MaxFrames
    /\ filter_packets(f, rx.packet_size) = "DROP"
    /\ arrived' = arrived + 1
    /\ UNCHANGED <<cfg, rx_mem, rx, admitted>>

\* ... or allowed and rewritten.
RxAllow(f) ==
    /\ rx.pc = "receive"
    /\ arrived < MaxFrames
    /\ filter_packets(f, rx.packet_size) = "ALLOW"
    /\ arrived' = arrived + 1
    /\ rx' = [rx EXCEPT !.pc = "tail",
                        !.pkt = [id |-> arrived + 1,
                                 hdr |-> modify_packet_header(f)]]
    /\ UNCHANGED <<cfg, rx_mem, admitted>>

RxReadTail ==
    /\ rx.pc = "tail"
    /\ rx' = [rx EXCEPT !.pc = "space",
                        !.tail = cfg.rx_tail,
                        !.updated_tail = Advance(cfg.rx_tail, rx.packet_size,
                                                 rx.buffer_capacity)]
    /\ UNCHANGED <<cfg, rx_mem, arrived, admitted>>

\* Mutant: compares the tail itself with the head, so the last entry is used.
RxAwaitSpaceFull ==
    /\ rx.pc = "space"
    /\ rx.tail # cfg.rx_head \/ admitted = <<>>
    /\ rx' = [rx EXCEPT !.pc = "dma",
                        !.pending = DmaParts(rx.packet_size, RxCtmWindow)]
    /\ admitted' = Append(admitted, rx.pkt)
    /\ UNCHANGED <<cfg, rx_mem, arrived>>

\* The polling loop ends: the entry is free, dma_packet_send starts the DMAs.
RxAwaitSpace ==
    /\ rx.pc = "space"
    /\ rx.updated_tail # cfg.rx_head
    /\ rx' = [rx EXCEPT !.pc = "dma",
                        !.pending = DmaParts(rx.packet_size, RxCtmWindow)]
    /\ admitted' = Append(admitted, rx.pkt)
    /\ UNCHANGED <<cfg, rx_mem, arrived>>

\* One of the DMAs completes; they do so in either order.
RxDmaWrite(part) ==
    /\ rx.pc = "dma"
    /\ part \in rx.pending
    /\ rx_mem' = Store(rx_mem, rx.tail, part, PacketBytes(rx.pkt))
    /\ rx' = [rx EXCEPT !.pending = @ \ {part}]
    /\ UNCHANGED <<cfg, arrived, admitted>>

\* Mutant: waits for the first of the two completion signals only.
RxPublishEarly ==
    /\ rx.pc = "dma"
    /\ rx.pending # DmaParts(rx.packet_size, RxCtmWindow)
    /\ cfg' = [cfg EXCEPT !.rx_tail = rx.updated_tail]
    /\ rx' = [rx EXCEPT !.pc = "receive", !.pkt = NoPkt]
    /\ UNCHANGED <<rx_mem, arrived, admitted>>

\* All completion signals are in: publish the entry, free the packet.
RxPublish ==
    /\ rx.pc = "dma"
    /\ rx.pending = {}
    /\ cfg' = [cfg EXCEPT !.rx_tail = rx.updated_tail]
    /\ rx' = [rx EXCEPT !.pc = "receive", !.pkt = NoPkt]
    /\ UNCHANGED <<rx_mem, arrived, admitted>>

\* The engine's own steps: all but the arrival of a frame.
RxProcess ==
    \/ RxMain
    \/ RxReadTail
    \/ RxAwaitSpace
    \/ \E part \in rx.pending : RxDmaWrite(part)
    \/ RxPublish

RxNext ==
    \/ RxProcess
    \/ \E f \in Frames : RxDrop(f) \/ RxAllow(f)
==============================================================================
