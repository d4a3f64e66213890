--------------------------- MODULE EchoPathProofs ----------------------------
(***************************************************************************)
(* EchoPath, proved for every packet size, ring size, number of buffers and *)
(* set of frames: its types, configuration and buffers; and, for every       *)
(* configuration with whole entries, that its rings are never overrun, what  *)
(* they hold, and that EchoPath implements EchoService.                      *)
(***************************************************************************)
EXTENDS EchoPath, RingLemmas

(***************************************************************************)
(* Types.  TypeOK is not inductive: that the offsets stay inside    *)
(* the ring needs the sizes the engines and the worker compute with, that   *)
(* only packets reach the ring needs the packet in hand, and that the pool  *)
(* keeps its bounds needs the count of the buffers in use.                  *)
(***************************************************************************)
Configured == worker \notin {"configure", "exit"}

ConfigInv ==
    /\ Configured => /\ cfg.packet_size = UDP_PACKET_SIZE
                     /\ cfg.buffer_size = RING_BUFFER_SIZE
                     /\ ring_rx.entry_size = UDP_PACKET_SIZE
                     /\ ring_rx.capacity = RING_BUFFER_SIZE
                     /\ ring_tx.entry_size = UDP_PACKET_SIZE
                     /\ ring_tx.capacity = RING_BUFFER_SIZE
    /\ cfg.start_signal # 0 <=> Configured /\ worker # "start"
    /\ rx.pc # "start" => cfg.start_signal # 0
    /\ tx.pc # "start" => cfg.start_signal # 0
    /\ ConfiguredBeforeUse

HandsInv ==
    /\ rx.pc \in {"tail", "space", "dma"} => rx.pkt \in Packets
    /\ tx.pc = "start" => pool = 0 /\ nbi = 0
    /\ BuffersConserved

TypeInv == TypeOK /\ ConfigInv /\ HandsInv

USE SizesAssumption, PrependAssumption, RxAssumption, TxAssumption

\* The bytes of a received frame are bytes the rings may hold.
LEMMA PacketBytesType ==
  ASSUME NEW p \in Packets
  PROVE  PacketBytes(p) \in [PacketOffsets -> Bytes]
BY DEF PacketBytes, Bytes

\* The initial state is well typed.
LEMMA TypeInit == Init => TypeInv
<1> SUFFICES ASSUME Init PROVE TypeInv
  OBVIOUS
<1> USE DEF Init, MetaInit, RxInit, TxInit, HostInit
<1>0. 0 \in Offsets
  BY DEF Offsets
<1>1. cfg \in device_meta_t /\ rx_mem \in [HostBytes -> Bytes]
      /\ tx_mem \in [HostBytes -> Bytes]
  BY <1>0 DEF device_meta_t, Bytes
<1>2. RxTypeOK
  BY <1>0 DEF RxTypeOK, RxEngine, RxPc
<1>3. TxTypeOK(Bytes)
  BY <1>0 DEF TxTypeOK, TxEngine, TxPc, TxPackets, Bytes
<1>4. HostTypeOK
  BY <1>0 DEF HostTypeOK, WorkerPc, ringbuffer_t
<1>5. ConfigInv
  BY DEF ConfigInv, ConfiguredBeforeUse, Configured
<1>6. HandsInv
  BY DEF HandsInv, BuffersConserved
<1>7. QED BY <1>1, <1>2, <1>3, <1>4, <1>5, <1>6 DEF TypeInv, TypeOK

\* Every step of the receive engine (rx.c) preserves the types.
LEMMA RxTypeStep == TypeInv /\ RxStep => TypeInv'
<1> SUFFICES ASSUME TypeInv, RxStep PROVE TypeInv'
  OBVIOUS
<1> USE DEF TypeInv, TypeOK, ConfigInv, HandsInv, RxStep, RxEngine, Configured,
            ConfiguredBeforeUse, BuffersConserved, txVars, hostVars
<1>0. UNCHANGED <<tx_mem, tx, pool, nbi, sent, worker, ring_rx, ring_tx, echoed>>
  OBVIOUS
<1>1. TxTypeOK(Bytes)' /\ HostTypeOK'
  BY <1>0 DEF TxTypeOK, HostTypeOK
<1>2. CASE RxMain
  <2>1. RxTypeOK'
    BY <1>2 DEF RxMain, RxTypeOK, RxPc, device_meta_t
  <2>2. QED BY <1>0, <1>1, <1>2, <2>1 DEF RxMain, RxTypeOK
<1>3. ASSUME NEW f \in Frames, RxDrop(f) PROVE TypeInv'
  BY <1>0, <1>1, <1>3 DEF RxDrop, RxTypeOK
<1>4. ASSUME NEW f \in Frames, RxAllow(f) PROVE TypeInv'
  <2>1. [id |-> arrived + 1, hdr |-> modify_packet_header(f)] \in Packets
    BY <1>4 DEF RxAllow, RxTypeOK, Packets
  <2>2. RxTypeOK'
    <3>1. rx'.pc = "tail" /\ "tail" \in RxPc
      BY <1>4 DEF RxAllow, RxTypeOK, RxPc
    <3>2. arrived' \in 0 .. MaxFrames
      BY <1>4 DEF RxAllow, RxTypeOK
    <3>3. QED BY <1>4, <2>1, <3>1, <3>2 DEF RxAllow, RxTypeOK
  <2>3. QED BY <1>0, <1>1, <1>4, <2>1, <2>2 DEF RxAllow, RxTypeOK
<1>5. CASE RxReadTail
  <2>1. Advance(cfg.rx_tail, rx.packet_size, rx.buffer_capacity) \in Offsets
    BY <1>5, AdvanceType DEF RxReadTail, device_meta_t
  <2>2. RxTypeOK'
    BY <1>5, <2>1 DEF RxReadTail, RxTypeOK, RxPc, device_meta_t
  <2>3. QED BY <1>0, <1>1, <1>5, <2>2 DEF RxReadTail, RxTypeOK
<1>6. CASE RxAwaitSpace
  <2>1. DmaParts(rx.packet_size, RxCtmWindow) \in SUBSET SUBSET PacketOffsets
    BY <1>6, DmaPartsType DEF RxAwaitSpace
  <2>2. admitted' \in Seq(Packets)
    BY <1>6 DEF RxAwaitSpace, RxTypeOK
  <2>3. RxTypeOK'
    BY <1>6, <2>1, <2>2 DEF RxAwaitSpace, RxTypeOK, RxPc
  <2>4. QED BY <1>0, <1>1, <1>6, <2>3 DEF RxAwaitSpace, RxTypeOK
<1>7. ASSUME NEW part \in rx.pending, RxDmaWrite(part) PROVE TypeInv'
  <2>1. rx.pkt \in Packets /\ rx.tail \in Offsets
        /\ part \in SUBSET PacketOffsets
    BY <1>7 DEF RxDmaWrite, RxTypeOK
  <2>2. rx_mem' \in [HostBytes -> Bytes]
    BY <1>7, <2>1, StoreType, PacketBytesType DEF RxDmaWrite
  <2>3. RxTypeOK'
    BY <1>7 DEF RxDmaWrite, RxTypeOK
  <2>4. QED BY <1>0, <1>1, <1>7, <2>2, <2>3 DEF RxDmaWrite, RxTypeOK
<1>8. CASE RxPublish
  <2>1. cfg' \in device_meta_t
    BY <1>8 DEF RxPublish, RxTypeOK, device_meta_t
  <2>2. RxTypeOK'
    BY <1>8 DEF RxPublish, RxTypeOK, RxPc
  <2>3. QED BY <1>0, <1>1, <1>8, <2>1, <2>2
            DEF RxPublish, RxTypeOK, device_meta_t
<1>9. QED
  BY <1>2, <1>3, <1>4, <1>5, <1>6, <1>7, <1>8 DEF RxNext, RxProcess

\* Every step of the transmit engine (tx.c) preserves the types.
LEMMA TxTypeStep == TypeInv /\ TxStep => TypeInv'
<1> SUFFICES ASSUME TypeInv, TxStep PROVE TypeInv'
  OBVIOUS
<1>0. UNCHANGED <<rx_mem, rx, arrived, admitted, worker, ring_rx, ring_tx, echoed>>
  BY DEF TxStep, rxVars, hostVars
<1>1. cfg \in device_meta_t /\ tx_mem \in [HostBytes -> Bytes]
      /\ rx_mem \in [HostBytes -> Bytes] /\ TxTypeOK(Bytes)
  BY DEF TypeInv, TypeOK
<1>2. RxTypeOK' /\ HostTypeOK'
  BY <1>0 DEF TypeInv, TypeOK, RxTypeOK, HostTypeOK
<1>3. ConfigInv /\ HandsInv
  BY DEF TypeInv
<1>4. ASSUME cfg' \in device_meta_t, tx_mem' = tx_mem, TxTypeOK(Bytes)',
             ConfigInv', HandsInv'
      PROVE  TypeInv'
  BY <1>0, <1>1, <1>2, <1>4 DEF TypeInv, TypeOK
<1> DEFINE Config == <<cfg.packet_size, cfg.buffer_size, cfg.start_signal>>
<1>5. ASSUME UNCHANGED Config,
             tx'.packet_size = tx.packet_size \/ tx'.packet_size = cfg.packet_size,
             tx'.buffer_capacity = tx.buffer_capacity
               \/ tx'.buffer_capacity = cfg.buffer_size,
             tx.pc = "start" => /\ cfg.start_signal # 0
                                /\ tx'.packet_size = cfg.packet_size
                                /\ tx'.buffer_capacity = cfg.buffer_size
      PROVE  ConfigInv'
  BY <1>0, <1>3, <1>5 DEF ConfigInv, ConfiguredBeforeUse, Configured
<1>6. ASSUME tx'.pc # "start",
             pool' + nbi' + Count(tx'.pc \in {"head", "data", "dma", "send"})
               = TxBuffers
      PROVE  HandsInv'
  BY <1>0, <1>3, <1>6 DEF HandsInv, BuffersConserved, Count
<1>7. tx.pc # "start" =>
        pool + nbi + Count(tx.pc \in {"head", "data", "dma", "send"}) = TxBuffers
  BY <1>3 DEF HandsInv, BuffersConserved
<1>8. tx.pc = "start" => pool = 0 /\ nbi = 0
  BY <1>3 DEF HandsInv
<1>9. /\ tx \in TxEngine(Bytes)
      /\ tx.pc \in TxPc /\ tx.buffer_capacity \in Nat /\ tx.packet_size \in Nat
      /\ tx.head \in Offsets /\ tx.updated_head \in Offsets
      /\ tx.pending \in SUBSET SUBSET PacketOffsets
      /\ tx.pkt \in TxPackets(Bytes)
      /\ pool \in 0 .. TxBuffers /\ nbi \in 0 .. TxBuffers
      /\ sent \in Seq(TxPackets(Bytes))
  BY <1>1 DEF TxTypeOK, TxEngine
<1> HIDE DEF Config
<1>10. CASE TxMain
  <2>1. tx' = [tx EXCEPT !.pc = "allocate",
                         !.buffer_capacity = cfg.buffer_size,
                         !.packet_size = cfg.packet_size]
        /\ pool' = TxBuffers /\ UNCHANGED <<cfg, tx_mem, nbi, sent>>
        /\ tx.pc = "start" /\ cfg.start_signal # 0
    BY <1>10 DEF TxMain
  <2>2. tx' \in TxEngine(Bytes)
    BY <1>1, <1>9, <2>1 DEF TxEngine, TxPc, device_meta_t
  <2>3. TxTypeOK(Bytes)'
    BY <1>9, <2>1, <2>2 DEF TxTypeOK
  <2>4. HandsInv'
    BY <1>6, <1>8, <1>9, <2>1 DEF Count, TxEngine
  <2>5. ConfigInv'
    BY <1>5, <1>9, <2>1 DEF Config, TxEngine
  <2>6. QED BY <1>1, <1>4, <2>1, <2>3, <2>4, <2>5
<1>11. CASE TxAllocate
  <2>1. tx' = [tx EXCEPT !.pc = "head", !.pkt = [@ EXCEPT !.len = 0]]
        /\ tx.pc = "allocate" /\ pool > 0 /\ pool' = pool - 1
        /\ UNCHANGED <<cfg, tx_mem, nbi, sent>>
    BY <1>11 DEF TxAllocate
  <2>2. [tx.pkt EXCEPT !.len = 0] \in TxPackets(Bytes)
    BY <1>9 DEF TxPackets
  <2>3. tx' \in TxEngine(Bytes)
    BY <1>9, <2>1, <2>2 DEF TxEngine, TxPc
  <2>4. TxTypeOK(Bytes)'
    BY <1>9, <2>1, <2>3 DEF TxTypeOK
  <2>5. HandsInv'
    BY <1>6, <1>7, <1>9, <2>1 DEF Count, TxEngine
  <2>6. ConfigInv'
    BY <1>5, <1>9, <2>1 DEF Config, TxEngine
  <2>7. QED BY <1>1, <1>4, <2>1, <2>4, <2>5, <2>6
<1>12. CASE TxReadHead
  <2>1. tx' = [tx EXCEPT !.pc = "data", !.head = cfg.tx_head,
                         !.updated_head = Advance(cfg.tx_head, tx.packet_size,
                                                  tx.buffer_capacity)]
        /\ tx.pc = "head" /\ UNCHANGED <<cfg, tx_mem, pool, nbi, sent>>
    BY <1>12 DEF TxReadHead
  <2>2. Advance(cfg.tx_head, tx.packet_size, tx.buffer_capacity) \in Offsets
        /\ cfg.tx_head \in Offsets
    BY <1>1, <1>3, <2>1, AdvanceType
       DEF ConfigInv, ConfiguredBeforeUse, device_meta_t
  <2>3. tx' \in TxEngine(Bytes)
    BY <1>9, <2>1, <2>2 DEF TxEngine, TxPc
  <2>4. TxTypeOK(Bytes)'
    BY <1>9, <2>1, <2>3 DEF TxTypeOK
  <2>5. HandsInv'
    BY <1>6, <1>7, <1>9, <2>1 DEF Count, TxEngine
  <2>6. ConfigInv'
    BY <1>5, <1>9, <2>1 DEF Config, TxEngine
  <2>7. QED BY <1>1, <1>4, <2>1, <2>4, <2>5, <2>6
<1>13. CASE TxAwaitData
  <2>1. tx' = [tx EXCEPT !.pc = "dma",
                         !.pending = DmaParts(tx.packet_size, TxCtmWindow)]
        /\ tx.pc = "data" /\ UNCHANGED <<cfg, tx_mem, pool, nbi, sent>>
    BY <1>13 DEF TxAwaitData
  <2>2. DmaParts(tx.packet_size, TxCtmWindow) \in SUBSET SUBSET PacketOffsets
    BY <1>3, <2>1, DmaPartsType DEF ConfigInv, ConfiguredBeforeUse
  <2>3. tx' \in TxEngine(Bytes)
    BY <1>9, <2>1, <2>2 DEF TxEngine, TxPc
  <2>4. TxTypeOK(Bytes)'
    BY <1>9, <2>1, <2>3 DEF TxTypeOK
  <2>5. HandsInv'
    BY <1>6, <1>7, <1>9, <2>1 DEF Count, TxEngine
  <2>6. ConfigInv'
    BY <1>5, <1>9, <2>1 DEF Config, TxEngine
  <2>7. QED BY <1>1, <1>4, <2>1, <2>4, <2>5, <2>6
<1>14. ASSUME NEW part \in tx.pending, TxDmaRead(part) PROVE TypeInv'
  <2> DEFINE data == Fetch(tx_mem, tx.head, part, tx.pkt.data)
  <2>1. tx' = [tx EXCEPT !.pending = @ \ {part}, !.pkt = [@ EXCEPT !.data = data]]
        /\ tx.pc = "dma" /\ UNCHANGED <<cfg, tx_mem, pool, nbi, sent>>
    BY <1>14 DEF TxDmaRead
  <2>2. data \in [PacketOffsets -> Bytes]
    BY <1>1, <1>9, <1>14, FetchType DEF TxPackets
  <2> HIDE DEF data
  <2>3. [tx.pkt EXCEPT !.data = data] \in TxPackets(Bytes)
    BY <1>9, <2>2 DEF TxPackets
  <2>4. tx' \in TxEngine(Bytes)
    BY <1>9, <2>1, <2>3 DEF TxEngine
  <2>5. TxTypeOK(Bytes)'
    BY <1>9, <2>1, <2>4 DEF TxTypeOK
  <2>6. HandsInv'
    BY <1>6, <1>7, <1>9, <2>1 DEF Count, TxEngine
  <2>7. ConfigInv'
    BY <1>5, <1>9, <2>1 DEF Config, TxEngine
  <2>8. QED BY <1>1, <1>4, <2>1, <2>5, <2>6, <2>7
<1>15. CASE TxPublish
  <2> DEFINE len == tx.packet_size + MAC_PREPEND_BYTES
  <2>1. tx' = [tx EXCEPT !.pc = "send", !.pkt = [@ EXCEPT !.len = len]]
        /\ cfg' = [cfg EXCEPT !.tx_head = tx.updated_head]
        /\ tx.pc = "dma" /\ UNCHANGED <<tx_mem, pool, nbi, sent>>
    BY <1>15 DEF TxPublish
  <2>0. len \in Nat
    BY <1>9
  <2> HIDE DEF len
  <2>2. [tx.pkt EXCEPT !.len = len] \in TxPackets(Bytes)
    BY <1>9, <2>0 DEF TxPackets
  <2>3. tx' \in TxEngine(Bytes)
    BY <1>9, <2>1, <2>2 DEF TxEngine, TxPc
  <2>4. TxTypeOK(Bytes)'
    BY <1>9, <2>1, <2>3 DEF TxTypeOK
  <2>5. cfg' \in device_meta_t /\ UNCHANGED Config
    BY <1>1, <1>9, <2>1 DEF device_meta_t, Config
  <2>6. HandsInv'
    BY <1>6, <1>7, <1>9, <2>1 DEF Count, TxEngine
  <2>7. ConfigInv'
    BY <1>5, <1>9, <2>1, <2>5 DEF TxEngine
  <2>8. QED BY <1>4, <2>1, <2>4, <2>5, <2>6, <2>7
<1>16. CASE TxSend
  <2>1. tx' = [tx EXCEPT !.pc = "allocate"] /\ tx.pc = "send"
        /\ sent' = Append(sent, tx.pkt) /\ nbi' = nbi + 1
        /\ UNCHANGED <<cfg, tx_mem, pool>>
    BY <1>16 DEF TxSend
  <2>2. tx' \in TxEngine(Bytes)
    BY <1>9, <2>1 DEF TxEngine, TxPc
  <2>3. sent' \in Seq(TxPackets(Bytes))
    BY <1>9, <2>1
  <2>4. nbi' \in 0 .. TxBuffers /\ pool' + nbi' = TxBuffers
    <3>1. pool + nbi + 1 = TxBuffers
      BY <1>7, <2>1 DEF Count
    <3>2. nbi' = nbi + 1 /\ pool' = pool /\ pool \in Nat /\ nbi \in Nat
      BY <1>9, <2>1
    <3>3. QED BY <3>1, <3>2
  <2>5. TxTypeOK(Bytes)'
    BY <1>9, <2>1, <2>2, <2>3, <2>4 DEF TxTypeOK
  <2>6. HandsInv'
    BY <1>6, <1>9, <2>1, <2>4 DEF Count, TxEngine
  <2>7. ConfigInv'
    BY <1>5, <1>9, <2>1 DEF Config, TxEngine
  <2>8. QED BY <1>1, <1>4, <2>1, <2>5, <2>6, <2>7
<1>17. CASE NbiTransmit
  <2>1. nbi > 0 /\ nbi' = nbi - 1 /\ pool' = pool + 1
        /\ UNCHANGED <<cfg, tx_mem, tx, sent>>
    BY <1>17 DEF NbiTransmit
  <2>2. tx.pc # "start"
    BY <1>8, <2>1
  <2>3. nbi' \in 0 .. TxBuffers /\ pool' \in 0 .. TxBuffers
        /\ pool' + nbi' + Count(tx.pc \in {"head", "data", "dma", "send"})
             = TxBuffers
    BY <1>7, <1>9, <2>1, <2>2 DEF Count
  <2>4. TxTypeOK(Bytes)'
    BY <1>9, <2>1, <2>3 DEF TxTypeOK
  <2>5. HandsInv'
    BY <1>6, <2>1, <2>2, <2>3
  <2>6. ConfigInv'
    BY <1>5, <2>1, <2>2 DEF Config
  <2>7. QED BY <1>1, <1>4, <2>1, <2>4, <2>5, <2>6
<1>18. QED
  BY <1>10, <1>11, <1>12, <1>13, <1>14, <1>15, <1>16, <1>17
     DEF TxStep, TxNext, TxProcess

\* Every step of the host worker (app_main.c) preserves the types.
LEMMA HostTypeStep == TypeInv /\ HostStep => TypeInv'
<1> SUFFICES ASSUME TypeInv, HostStep PROVE TypeInv'
  OBVIOUS
<1>0. UNCHANGED <<rx, arrived, admitted, tx, pool, nbi, sent>>
  BY DEF HostStep, rxVars, txVars
<1>1. /\ cfg \in device_meta_t
      /\ tx_mem \in [HostBytes -> Bytes] /\ rx_mem \in [HostBytes -> Bytes]
      /\ worker \in WorkerPc /\ echoed \in Nat
      /\ ring_rx \in ringbuffer_t(Offsets) /\ ring_tx \in ringbuffer_t(Offsets)
  BY DEF TypeInv, TypeOK, HostTypeOK
<1>2. RxTypeOK' /\ TxTypeOK(Bytes)' /\ HandsInv'
  BY <1>0 DEF TypeInv, TypeOK, RxTypeOK, TxTypeOK, HandsInv, BuffersConserved
<1>3. ConfigInv
  BY DEF TypeInv
<1>4. ASSUME cfg' \in device_meta_t, UNCHANGED rx_mem,
             tx_mem' \in [HostBytes -> Bytes], HostTypeOK', ConfigInv'
      PROVE  TypeInv'
  BY <1>1, <1>2, <1>4 DEF TypeInv, TypeOK
<1>5. 0 \in Offsets
  BY DEF Offsets
<1> USE DEF HostTypeOK, WorkerPc
<1>6. CASE HostMapFails
  <2>1. ConfigInv'
    BY <1>0, <1>3, <1>6
       DEF HostMapFails, ConfigInv, ConfiguredBeforeUse, Configured
  <2>2. QED BY <1>1, <1>4, <1>6, <2>1 DEF HostMapFails
<1>7. CASE HostConfigure
  <2>1. cfg' \in device_meta_t
    BY <1>1, <1>5, <1>7 DEF HostConfigure, device_meta_t
  <2>2. ring_rx' \in ringbuffer_t(Offsets) /\ ring_tx' \in ringbuffer_t(Offsets)
    BY <1>1, <1>7 DEF HostConfigure, ringbuffer_t
  <2>3. ConfigInv'
    BY <1>0, <1>1, <1>3, <1>7
       DEF HostConfigure, ConfigInv, ConfiguredBeforeUse, Configured,
           device_meta_t, ringbuffer_t
  <2>4. QED BY <1>1, <1>4, <1>7, <2>1, <2>2, <2>3 DEF HostConfigure
<1>8. CASE HostStart
  <2>1. cfg' \in device_meta_t
    BY <1>1, <1>8 DEF HostStart, device_meta_t
  <2>2. ConfigInv'
    BY <1>0, <1>1, <1>3, <1>8
       DEF HostStart, ConfigInv, ConfiguredBeforeUse, Configured, device_meta_t
  <2>3. QED BY <1>1, <1>4, <1>8, <2>1, <2>2 DEF HostStart
<1>9. CASE HostReadRx
  <2>1. ring_rx' \in ringbuffer_t(Offsets)
    BY <1>1, <1>9 DEF HostReadRx, ringbuffer_t, device_meta_t
  <2>2. ConfigInv'
    BY <1>0, <1>1, <1>3, <1>9
       DEF HostReadRx, ConfigInv, ConfiguredBeforeUse, Configured, ringbuffer_t
  <2>3. QED BY <1>1, <1>4, <1>9, <2>1, <2>2 DEF HostReadRx
<1>10. CASE HostReadTx
  <2>1. ring_tx' \in ringbuffer_t(Offsets)
    BY <1>1, <1>10 DEF HostReadTx, ringbuffer_t, device_meta_t
  <2>2. ConfigInv'
    BY <1>0, <1>1, <1>3, <1>10
       DEF HostReadTx, ConfigInv, ConfiguredBeforeUse, Configured, ringbuffer_t
  <2>3. QED BY <1>1, <1>4, <1>10, <2>1, <2>2 DEF HostReadTx
<1>11. CASE HostSkip
  <2>1. ConfigInv'
    BY <1>0, <1>3, <1>11
       DEF HostSkip, ConfigInv, ConfiguredBeforeUse, Configured
  <2>2. QED BY <1>1, <1>4, <1>11, <2>1 DEF HostSkip
<1>12. CASE HostEcho
  <2>1. /\ ring_rx.entry_size = UDP_PACKET_SIZE
        /\ ring_rx.capacity = RING_BUFFER_SIZE
        /\ ring_tx.entry_size = UDP_PACKET_SIZE
        /\ ring_tx.capacity = RING_BUFFER_SIZE
    BY <1>3, <1>12 DEF HostEcho, ConfigInv, Configured
  <2>2. ring_rx' \in ringbuffer_t(Offsets) /\ ring_tx' \in ringbuffer_t(Offsets)
    BY <1>1, <1>12, <2>1, AdvanceType
       DEF HostEcho, ringbuffer_t, ringbuffer_pop, ringbuffer_push
  <2>3. [b \in PacketOffsets |-> rx_mem[ring_rx.head + b]]
          \in [PacketOffsets -> Bytes]
    BY <1>1 DEF ringbuffer_t, PacketOffsets, HostBytes, Offsets
  <2>4. tx_mem' \in [HostBytes -> Bytes]
    BY <1>1, <1>12, <2>3, StoreType DEF HostEcho, ringbuffer_t
  <2>5. ConfigInv'
    BY <1>0, <1>1, <1>3, <1>12
       DEF HostEcho, ConfigInv, ConfiguredBeforeUse, Configured, ringbuffer_t,
           ringbuffer_pop, ringbuffer_push
  <2>6. QED BY <1>1, <1>4, <1>12, <2>2, <2>4, <2>5 DEF HostEcho
<1>13. CASE HostWriteTx
  <2>1. cfg' \in device_meta_t
    BY <1>1, <1>13 DEF HostWriteTx, device_meta_t, ringbuffer_t
  <2>2. ConfigInv'
    BY <1>0, <1>1, <1>3, <1>13
       DEF HostWriteTx, ConfigInv, ConfiguredBeforeUse, Configured, device_meta_t
  <2>3. QED BY <1>1, <1>4, <1>13, <2>1, <2>2 DEF HostWriteTx
<1>14. CASE HostWriteRx
  <2>1. cfg' \in device_meta_t
    BY <1>1, <1>14 DEF HostWriteRx, device_meta_t, ringbuffer_t
  <2>2. ConfigInv'
    BY <1>0, <1>1, <1>3, <1>14
       DEF HostWriteRx, ConfigInv, ConfiguredBeforeUse, Configured, device_meta_t
  <2>3. QED BY <1>1, <1>4, <1>14, <2>1, <2>2 DEF HostWriteRx
<1>15. QED
  BY <1>6, <1>7, <1>8, <1>9, <1>10, <1>11, <1>12, <1>13, <1>14
     DEF HostStep, HostNext

\* Every step of the composition, and stuttering, preserves the types.
LEMMA TypeStep == TypeInv /\ [Next]_vars => TypeInv'
<1>1. TypeInv /\ Next => TypeInv'
  BY RxTypeStep, TxTypeStep, HostTypeStep DEF Next
<1>2. TypeInv /\ UNCHANGED vars => TypeInv'
  BY DEF TypeInv, TypeOK, RxTypeOK, TxTypeOK, HostTypeOK, ConfigInv, HandsInv,
         ConfiguredBeforeUse, BuffersConserved, Configured,
         vars, rxVars, txVars, hostVars
<1>3. QED BY <1>1, <1>2

\* The type invariant of the proofs holds in every reachable state.
LEMMA TypeInvariant == Spec => []TypeInv
BY TypeInit, TypeStep, PTL DEF Spec

(***************************************************************************)
(* For every configuration, also one whose ring is no multiple of the       *)
(* packet size, no index the engines or the worker compute leaves the ring  *)
(* and only bytes of admitted packets or cleared bytes are in the rings.    *)
(***************************************************************************)
THEOREM TypeCorrect == Spec => []TypeOK
<1>1. TypeInv => TypeOK
  BY DEF TypeInv
<1>2. QED BY <1>1, TypeInvariant, PTL

(***************************************************************************)
(* Neither engine ever computes with sizes other than the configured ones.  *)
(***************************************************************************)
THEOREM ConfigurationSafe == Spec => []ConfiguredBeforeUse
<1>1. TypeInv => ConfiguredBeforeUse
  BY DEF TypeInv, ConfigInv
<1>2. QED BY <1>1, TypeInvariant, PTL

(***************************************************************************)
(* The transmit engine loses no packet buffer and uses none twice.          *)
(***************************************************************************)
THEOREM BuffersSafe == Spec => []BuffersConserved
<1>1. TypeInv => BuffersConserved
  BY DEF TypeInv, HandsInv
<1>2. QED BY <1>1, TypeInvariant, PTL

-----------------------------------------------------------------------------
(***************************************************************************)
(* NoOverrun is not inductive.  What keeps it is how the snapshots the      *)
(* parties decide on relate to the counters: the tail the worker read is    *)
(* one that was published and not consumed since, the head it read is an    *)
(* old value of the transmit engine's, which can only make the ring look     *)
(* fuller; the engines' own indices are current because nobody else writes  *)
(* them.                                                                     *)
(***************************************************************************)
StartInv ==
    /\ rx.pc = "start" => Len(admitted) = 0
    /\ tx.pc = "start" => Len(sent) = 0
    /\ worker \in {"configure", "start", "exit"} => echoed = 0

WorkerInv ==
    /\ ring_rx.head = OffsetOf(echoed)
    /\ ring_tx.tail = OffsetOf(echoed)
    /\ worker \in {"write_tx", "write_rx"} => echoed > 0
    /\ worker \in {"read_tx", "check"} =>
           \E k \in Nat : /\ echoed <= k /\ k <= Published
                          /\ ring_rx.tail = OffsetOf(k)
    /\ worker = "check" =>
           \E k \in Nat : /\ k <= Fetched /\ echoed - k <= NumSlots - 1
                          /\ ring_tx.head = OffsetOf(k)

EngineInv ==
    /\ rx.pc \in {"space", "dma"} =>
           /\ rx.tail = OffsetOf(Published)
           /\ rx.updated_tail = OffsetOf(Published + 1)
    /\ tx.pc \in {"data", "dma"} =>
           /\ tx.head = OffsetOf(Fetched)
           /\ tx.updated_head = OffsetOf(Fetched + 1)
    /\ tx.pc = "dma" => Fetched < Handed

IndexInv == NoOverrun /\ StartInv /\ WorkerInv /\ EngineInv

\* The index invariant holds initially: both rings are empty and nobody holds a slot.
LEMMA IndexInit ==
  ASSUME WholeSlots
  PROVE  Init => IndexInv
<1> SUFFICES ASSUME Init PROVE IndexInv
  OBVIOUS
<1>0. /\ Len(admitted) = 0 /\ Len(sent) = 0 /\ echoed = 0
      /\ rx.pc = "start" /\ tx.pc = "start" /\ worker = "configure"
      /\ ring_rx.head = 0 /\ ring_tx.tail = 0
      /\ cfg.rx_head = 0 /\ cfg.rx_tail = 0 /\ cfg.tx_head = 0 /\ cfg.tx_tail = 0
  BY DEF Init, MetaInit, RxInit, TxInit, HostInit
<1>1. Published = 0 /\ Released = 0 /\ Handed = 0 /\ Fetched = 0
  <2>1. Count(rx.pc = "dma") = 0 /\ Count(tx.pc = "send") = 0
    BY <1>0 DEF Count
  <2>2. Count(worker = "write_tx") = 0
    BY <1>0 DEF Count
  <2>3. Count(worker \in {"write_tx", "write_rx"}) = 0
    BY <1>0 DEF Count
  <2>4. QED BY <1>0, <2>1, <2>2, <2>3 DEF Published, Released, Handed, Fetched
<1>2. NoOverrun
  BY <1>0, <1>1, OffsetZero, SlotFacts DEF NoOverrun
<1>3. StartInv /\ WorkerInv /\ EngineInv
  BY <1>0, OffsetZero DEF StartInv, WorkerInv, EngineInv
<1>4. QED BY <1>2, <1>3 DEF IndexInv

\* The counters are numbers.
LEMMA CountersType ==
  ASSUME TypeInv, IndexInv
  PROVE  /\ Published \in Nat /\ Released \in Nat /\ Handed \in Nat
         /\ Fetched \in Nat /\ echoed \in Nat
         /\ Len(admitted) \in Nat /\ Len(sent) \in Nat
<1>1. echoed \in Nat /\ Len(admitted) \in Nat /\ Len(sent) \in Nat
  BY DEF TypeInv, TypeOK, HostTypeOK, RxTypeOK, TxTypeOK
<1>2. Fetched \in Nat
  BY <1>1 DEF Fetched, Count
<1>3. Published \in Int /\ Handed \in Int /\ Released \in Int
  BY <1>1 DEF Published, Handed, Released, Count
<1>4. echoed <= Published /\ Fetched <= Handed
  BY DEF IndexInv, NoOverrun
<1>5. Released \in Nat
  BY <1>1 DEF Released, Count, IndexInv, WorkerInv
<1>6. QED BY <1>1, <1>2, <1>3, <1>4, <1>5

\* The receive engine preserves the index invariant.
LEMMA RxIndexStep ==
  ASSUME WholeSlots, TypeInv, IndexInv, RxStep
  PROVE  IndexInv'
<1>1. UNCHANGED <<tx_mem, tx, pool, nbi, sent, worker, ring_rx, ring_tx, echoed>>
  BY DEF RxStep, txVars, hostVars
<1>2. /\ Published \in Nat /\ Released \in Nat /\ Handed \in Nat
      /\ Fetched \in Nat /\ echoed \in Nat
      /\ Len(admitted) \in Nat /\ Len(sent) \in Nat
  BY CountersType
<1>3. Released' = Released /\ Handed' = Handed /\ Fetched' = Fetched
  BY <1>1 DEF Released, Handed, Fetched
<1>4. NoOverrun /\ StartInv /\ WorkerInv /\ EngineInv
  BY DEF IndexInv
<1>5. cfg \in device_meta_t /\ rx \in RxEngine /\ admitted \in Seq(Packets)
  BY DEF TypeInv, TypeOK, RxTypeOK
\* The steps that leave the ring's counters alone.
<1>6. ASSUME UNCHANGED <<cfg, admitted, Published>>, rx.pc # "dma", rx'.pc # "dma",
             rx'.pc # "start",
             rx'.pc = "space" => /\ rx'.tail = OffsetOf(Published)
                                 /\ rx'.updated_tail = OffsetOf(Published + 1)
      PROVE  IndexInv'
  <2>1. NoOverrun'
    BY <1>1, <1>3, <1>4, <1>6 DEF NoOverrun
  <2>2. StartInv'
    BY <1>1, <1>4, <1>6 DEF StartInv
  <2>3. WorkerInv'
    BY <1>1, <1>3, <1>4, <1>6 DEF WorkerInv
  <2>4. EngineInv'
    BY <1>1, <1>3, <1>4, <1>6 DEF EngineInv
  <2>5. QED BY <2>1, <2>2, <2>3, <2>4 DEF IndexInv
<1>7. CASE RxMain
  BY <1>1, <1>5, <1>6, <1>7 DEF RxMain, RxEngine, Published
<1>8. ASSUME NEW f \in Frames, RxDrop(f) PROVE IndexInv'
  BY <1>1, <1>5, <1>6, <1>8 DEF RxDrop, RxEngine, Published
<1>9. ASSUME NEW f \in Frames, RxAllow(f) PROVE IndexInv'
  BY <1>1, <1>5, <1>6, <1>9 DEF RxAllow, RxEngine, Published
<1>10. CASE RxReadTail
  <2>1. cfg.rx_tail = OffsetOf(Published)
    BY <1>4 DEF NoOverrun
  <2>2. rx.packet_size = UDP_PACKET_SIZE /\ rx.buffer_capacity = RING_BUFFER_SIZE
    BY <1>10 DEF RxReadTail, TypeInv, ConfigInv, ConfiguredBeforeUse
  <2>3. rx'.tail = OffsetOf(Published) /\ rx'.updated_tail = OffsetOf(Published + 1)
    BY <1>2, <1>5, <1>10, <2>1, <2>2, OffsetNext DEF RxReadTail, RxEngine
  <2>4. QED BY <1>1, <1>5, <1>6, <1>10, <2>3 DEF RxReadTail, RxEngine, Published
<1>11. CASE RxAwaitSpace
  <2>1. /\ rx.pc = "space" /\ rx'.pc = "dma" /\ UNCHANGED cfg
        /\ rx'.tail = rx.tail /\ rx'.updated_tail = rx.updated_tail
        /\ rx.updated_tail # cfg.rx_head
        /\ Len(admitted') = Len(admitted) + 1
    BY <1>5, <1>11 DEF RxAwaitSpace, RxEngine
  <2>2. Published = Len(admitted) /\ Published' = Published
    BY <1>2, <2>1 DEF Published, Count
  <2>3. Len(admitted) + 1 - Released <= NumSlots - 1
    <3>1. OffsetOf(Published + 1) # OffsetOf(Released)
      BY <1>4, <2>1 DEF EngineInv, NoOverrun
    <3>2. Published + 1 # Released + NumSlots
      BY <1>2, <3>1, OffsetAround
    <3>3. Published - Released <= NumSlots - 1
      BY <1>4, <2>2 DEF NoOverrun
    <3>4. QED BY <1>2, <2>2, <3>2, <3>3, SlotFacts
  <2>4. NoOverrun'
    <3>0. Len(admitted)' = Len(admitted) + 1
      BY <2>1
    <3>1. Len(admitted)' - Released' <= NumSlots - 1
      BY <1>2, <1>3, <2>3, <3>0, SlotFacts
    <3>2. QED BY <1>1, <1>3, <1>4, <2>1, <2>2, <3>1 DEF NoOverrun
  <2>5. StartInv'
    BY <1>1, <1>4, <2>1 DEF StartInv
  <2>6. WorkerInv'
    BY <1>1, <1>3, <1>4, <2>2 DEF WorkerInv
  <2>7. EngineInv'
    BY <1>1, <1>3, <1>4, <2>1, <2>2 DEF EngineInv
  <2>8. QED BY <2>4, <2>5, <2>6, <2>7 DEF IndexInv
<1>12. ASSUME NEW part \in rx.pending, RxDmaWrite(part) PROVE IndexInv'
  <2>1. /\ rx.pc = "dma" /\ rx'.pc = "dma" /\ UNCHANGED <<cfg, admitted>>
        /\ rx'.tail = rx.tail /\ rx'.updated_tail = rx.updated_tail
    BY <1>5, <1>12 DEF RxDmaWrite, RxEngine
  <2>2. Published' = Published
    BY <2>1 DEF Published
  <2>3. NoOverrun'
    BY <1>1, <1>3, <1>4, <2>1, <2>2 DEF NoOverrun
  <2>4. StartInv' /\ WorkerInv' /\ EngineInv'
    BY <1>1, <1>3, <1>4, <2>1, <2>2 DEF StartInv, WorkerInv, EngineInv
  <2>5. QED BY <2>3, <2>4 DEF IndexInv
<1>13. CASE RxPublish
  <2>1. /\ rx.pc = "dma" /\ rx'.pc = "receive" /\ UNCHANGED admitted
        /\ cfg'.rx_tail = rx.updated_tail
        /\ cfg'.rx_head = cfg.rx_head /\ cfg'.tx_head = cfg.tx_head
        /\ cfg'.tx_tail = cfg.tx_tail
    BY <1>5, <1>13 DEF RxPublish, RxEngine, device_meta_t
  <2>2. Published' = Published + 1
    BY <1>2, <2>1 DEF Published, Count
  <2>3. NoOverrun'
    BY <1>1, <1>2, <1>3, <1>4, <2>1, <2>2 DEF NoOverrun, EngineInv
  <2>4. StartInv'
    BY <1>1, <1>4, <2>1 DEF StartInv
  <2>5. WorkerInv'
    BY <1>1, <1>2, <1>3, <1>4, <2>2 DEF WorkerInv
  <2>6. EngineInv'
    BY <1>1, <1>3, <1>4, <2>1 DEF EngineInv
  <2>7. QED BY <2>3, <2>4, <2>5, <2>6 DEF IndexInv
<1>14. QED
  BY <1>7, <1>8, <1>9, <1>10, <1>11, <1>12, <1>13 DEF RxStep, RxNext, RxProcess

\* The transmit engine preserves the index invariant.
LEMMA TxIndexStep ==
  ASSUME WholeSlots, TypeInv, IndexInv, TxStep
  PROVE  IndexInv'
<1>1. UNCHANGED <<rx_mem, rx, arrived, admitted, worker, ring_rx, ring_tx, echoed>>
  BY DEF TxStep, rxVars, hostVars
<1>2. /\ Published \in Nat /\ Released \in Nat /\ Handed \in Nat
      /\ Fetched \in Nat /\ echoed \in Nat
      /\ Len(admitted) \in Nat /\ Len(sent) \in Nat
  BY CountersType
<1>3. Released' = Released /\ Handed' = Handed /\ Published' = Published
  BY <1>1 DEF Released, Handed, Published
<1>4. NoOverrun /\ StartInv /\ WorkerInv /\ EngineInv
  BY DEF IndexInv
<1>5. /\ cfg \in device_meta_t /\ tx \in TxEngine(Bytes)
      /\ tx.pkt \in TxPackets(Bytes) /\ sent \in Seq(TxPackets(Bytes))
  BY DEF TypeInv, TypeOK, TxTypeOK, TxEngine
\* The steps that fetch nothing.
<1>6. ASSUME UNCHANGED <<cfg, sent, Fetched>>,
             tx'.pc = "start" => tx.pc = "start",
             tx'.pc \in {"data", "dma"} =>
                 /\ tx'.head = OffsetOf(Fetched)
                 /\ tx'.updated_head = OffsetOf(Fetched + 1),
             tx'.pc = "dma" => Fetched < Handed
      PROVE  IndexInv'
  <2>1. NoOverrun'
    BY <1>1, <1>3, <1>4, <1>6 DEF NoOverrun
  <2>2. StartInv'
    BY <1>1, <1>4, <1>6 DEF StartInv
  <2>3. WorkerInv'
    BY <1>1, <1>3, <1>4, <1>6 DEF WorkerInv
  <2>4. EngineInv'
    BY <1>1, <1>3, <1>4, <1>6 DEF EngineInv
  <2>5. QED BY <2>1, <2>2, <2>3, <2>4 DEF IndexInv
<1>7. CASE TxMain
  <2>1. tx.pc = "start" /\ tx'.pc = "allocate" /\ UNCHANGED <<cfg, sent>>
    BY <1>5, <1>7 DEF TxMain, TxEngine
  <2>2. Fetched' = Fetched
    BY <2>1 DEF Fetched, Count
  <2>3. QED BY <1>6, <2>1, <2>2
<1>8. CASE TxAllocate
  <2>1. tx.pc = "allocate" /\ tx'.pc = "head" /\ UNCHANGED <<cfg, sent>>
    BY <1>5, <1>8 DEF TxAllocate, TxEngine
  <2>2. Fetched' = Fetched
    BY <2>1 DEF Fetched, Count
  <2>3. QED BY <1>6, <2>1, <2>2
<1>9. CASE TxReadHead
  <2>1. /\ tx.pc = "head" /\ tx'.pc = "data" /\ UNCHANGED <<cfg, sent>>
        /\ tx'.head = cfg.tx_head
        /\ tx'.updated_head = Advance(cfg.tx_head, tx.packet_size,
                                      tx.buffer_capacity)
    BY <1>5, <1>9 DEF TxReadHead, TxEngine
  <2>2. Fetched' = Fetched
    BY <2>1 DEF Fetched, Count
  <2>3. cfg.tx_head = OffsetOf(Fetched)
    BY <1>4 DEF NoOverrun
  <2>4. tx.packet_size = UDP_PACKET_SIZE /\ tx.buffer_capacity = RING_BUFFER_SIZE
    BY <2>1 DEF TypeInv, ConfigInv, ConfiguredBeforeUse
  <2>5. tx'.updated_head = OffsetOf(Fetched + 1)
    BY <1>2, <2>1, <2>3, <2>4, OffsetNext
  <2>6. QED BY <1>6, <2>1, <2>2, <2>3, <2>5
<1>10. CASE TxAwaitData
  <2>1. /\ tx.pc = "data" /\ tx'.pc = "dma" /\ UNCHANGED <<cfg, sent>>
        /\ tx'.head = tx.head /\ tx'.updated_head = tx.updated_head
        /\ tx.head # cfg.tx_tail
    BY <1>5, <1>10 DEF TxAwaitData, TxEngine
  <2>2. Fetched' = Fetched
    BY <2>1 DEF Fetched, Count
  <2>3. /\ tx.head = OffsetOf(Fetched)
        /\ tx.updated_head = OffsetOf(Fetched + 1)
    BY <1>4, <2>1 DEF EngineInv
  <2>4. Fetched # Handed
    BY <1>4, <2>1, <2>3 DEF NoOverrun
  <2>5. Fetched < Handed
    BY <1>2, <1>4, <2>4 DEF NoOverrun
  <2>6. QED BY <1>6, <2>1, <2>2, <2>3, <2>5
<1>11. ASSUME NEW part \in tx.pending, TxDmaRead(part) PROVE IndexInv'
  <2>1. /\ tx.pc = "dma" /\ tx'.pc = "dma" /\ UNCHANGED <<cfg, sent>>
        /\ tx'.head = tx.head /\ tx'.updated_head = tx.updated_head
    BY <1>5, <1>11 DEF TxDmaRead, TxEngine
  <2>2. Fetched' = Fetched
    BY <2>1 DEF Fetched, Count
  <2>3. /\ tx.head = OffsetOf(Fetched)
        /\ tx.updated_head = OffsetOf(Fetched + 1)
        /\ Fetched < Handed
    BY <1>4, <2>1 DEF EngineInv
  <2>4. QED BY <1>6, <2>1, <2>2, <2>3
<1>12. CASE TxPublish
  <2>1. /\ tx.pc = "dma" /\ tx'.pc = "send" /\ UNCHANGED sent
        /\ cfg'.tx_head = tx.updated_head
        /\ cfg'.rx_head = cfg.rx_head /\ cfg'.rx_tail = cfg.rx_tail
        /\ cfg'.tx_tail = cfg.tx_tail
    BY <1>5, <1>12 DEF TxPublish, TxEngine, device_meta_t
  <2>2. Fetched' = Fetched + 1
    BY <1>2, <2>1 DEF Fetched, Count
  <2>3. tx.updated_head = OffsetOf(Fetched + 1) /\ Fetched + 1 <= Handed
    BY <1>2, <1>4, <2>1 DEF EngineInv
  <2>4. echoed - (Fetched + 1) <= NumSlots - 1
    BY <1>2, <1>4, SlotFacts DEF NoOverrun
  <2>5. NoOverrun'
    BY <1>1, <1>3, <1>4, <2>1, <2>2, <2>3, <2>4 DEF NoOverrun
  <2>6. StartInv'
    BY <1>1, <1>4, <2>1 DEF StartInv
  <2>7. WorkerInv'
    BY <1>1, <1>2, <1>3, <1>4, <2>2 DEF WorkerInv
  <2>8. EngineInv'
    BY <1>1, <1>3, <1>4, <2>1 DEF EngineInv
  <2>9. QED BY <2>5, <2>6, <2>7, <2>8 DEF IndexInv
<1>13. CASE TxSend
  <2>1. /\ tx.pc = "send" /\ tx'.pc = "allocate" /\ UNCHANGED cfg
        /\ Len(sent') = Len(sent) + 1
    BY <1>5, <1>13 DEF TxSend, TxEngine
  <2>2. Fetched' = Fetched
    BY <1>2, <2>1 DEF Fetched, Count
  <2>3. NoOverrun'
    BY <1>1, <1>3, <1>4, <2>1, <2>2 DEF NoOverrun
  <2>4. StartInv' /\ EngineInv'
    BY <1>1, <1>3, <1>4, <2>1 DEF StartInv, EngineInv
  <2>5. WorkerInv'
    BY <1>1, <1>3, <1>4, <2>2 DEF WorkerInv
  <2>6. QED BY <2>3, <2>4, <2>5 DEF IndexInv
<1>14. CASE NbiTransmit
  <2>1. UNCHANGED <<cfg, sent, tx>>
    BY <1>14 DEF NbiTransmit
  <2>2. Fetched' = Fetched
    BY <2>1 DEF Fetched
  <2>3. QED BY <1>4, <1>6, <2>1, <2>2 DEF EngineInv
<1>15. QED
  BY <1>7, <1>8, <1>9, <1>10, <1>11, <1>12, <1>13, <1>14
     DEF TxStep, TxNext, TxProcess

\* The host worker preserves the index invariant.
LEMMA HostIndexStep ==
  ASSUME WholeSlots, TypeInv, IndexInv, HostStep
  PROVE  IndexInv'
<1>1. UNCHANGED <<rx, arrived, admitted, tx, pool, nbi, sent>>
  BY DEF HostStep, rxVars, txVars
<1>2. /\ Published \in Nat /\ Released \in Nat /\ Handed \in Nat
      /\ Fetched \in Nat /\ echoed \in Nat
      /\ Len(admitted) \in Nat /\ Len(sent) \in Nat
  BY CountersType
<1>3. Published' = Published /\ Fetched' = Fetched
  BY <1>1 DEF Published, Fetched
<1>4. NoOverrun /\ StartInv /\ WorkerInv /\ EngineInv
  BY DEF IndexInv
<1>5. /\ cfg \in device_meta_t
      /\ ring_rx \in ringbuffer_t(Offsets) /\ ring_tx \in ringbuffer_t(Offsets)
  BY DEF TypeInv, TypeOK, HostTypeOK
<1>6. EngineInv' <=> /\ rx.pc \in {"space", "dma"} =>
                            /\ rx.tail = OffsetOf(Published)
                            /\ rx.updated_tail = OffsetOf(Published + 1)
                     /\ tx.pc \in {"data", "dma"} =>
                            /\ tx.head = OffsetOf(Fetched)
                            /\ tx.updated_head = OffsetOf(Fetched + 1)
                     /\ tx.pc = "dma" => Fetched < Handed'
  BY <1>1, <1>3 DEF EngineInv
\* The steps that move no index of the device.
<1>7. ASSUME UNCHANGED <<cfg, echoed, Handed, Released>>,
             worker' \in {"configure", "start", "exit"} =>
                 worker \in {"configure", "start", "exit"},
             WorkerInv'
      PROVE  IndexInv'
  <2>1. NoOverrun'
    BY <1>1, <1>3, <1>4, <1>7 DEF NoOverrun
  <2>2. StartInv'
    BY <1>1, <1>4, <1>7 DEF StartInv
  <2>3. EngineInv'
    BY <1>4, <1>6, <1>7 DEF EngineInv
  <2>4. QED BY <1>7, <2>1, <2>2, <2>3 DEF IndexInv
<1>8. CASE HostMapFails
  <2>1. worker = "configure" /\ worker' = "exit"
        /\ UNCHANGED <<cfg, ring_rx, ring_tx, echoed>>
    BY <1>8 DEF HostMapFails
  <2>2. Handed' = Handed /\ Released' = Released
    BY <2>1 DEF Handed, Released, Count
  <2>3. WorkerInv'
    BY <1>4, <2>1 DEF WorkerInv
  <2>4. QED BY <1>7, <2>1, <2>2, <2>3
<1>9. CASE HostConfigure
  <2>1. /\ worker = "configure" /\ worker' = "start" /\ UNCHANGED echoed
        /\ ring_rx'.head = ring_rx.head /\ ring_tx'.tail = ring_tx.tail
        /\ cfg'.rx_head = 0 /\ cfg'.rx_tail = 0
        /\ cfg'.tx_head = 0 /\ cfg'.tx_tail = 0
    BY <1>5, <1>9 DEF HostConfigure, device_meta_t, ringbuffer_t
  <2>2. rx.pc = "start" /\ tx.pc = "start"
    BY <2>1 DEF TypeInv, ConfigInv, Configured
  <2>3. Len(admitted) = 0 /\ Len(sent) = 0 /\ echoed = 0
    BY <1>4, <2>1, <2>2 DEF StartInv
  <2>4. Published = 0 /\ Fetched = 0
    BY <2>2, <2>3 DEF Published, Fetched, Count
  <2>5. Handed' = 0 /\ Released' = 0
    <3>1. Count(worker' = "write_tx") = 0
      BY <2>1 DEF Count
    <3>2. Count(worker' \in {"write_tx", "write_rx"}) = 0
      BY <2>1 DEF Count
    <3>3. QED BY <2>1, <2>3, <3>1, <3>2 DEF Handed, Released
  <2>6. Len(admitted') = 0 /\ echoed' = 0 /\ Published' = 0 /\ Fetched' = 0
    BY <1>1, <1>3, <2>1, <2>3, <2>4
  <2>7. NoOverrun'
    BY <2>1, <2>5, <2>6, OffsetZero, SlotFacts DEF NoOverrun
  <2>8. StartInv'
    BY <1>1, <2>3, <2>6 DEF StartInv
  <2>9. WorkerInv'
    BY <1>4, <2>1 DEF WorkerInv
  <2>10. EngineInv'
    BY <1>6, <2>2
  <2>11. QED BY <2>7, <2>8, <2>9, <2>10 DEF IndexInv
<1>10. CASE HostStart
  <2>1. /\ worker = "start" /\ worker' = "read_rx"
        /\ UNCHANGED <<ring_rx, ring_tx, echoed>>
        /\ cfg'.rx_head = cfg.rx_head /\ cfg'.rx_tail = cfg.rx_tail
        /\ cfg'.tx_head = cfg.tx_head /\ cfg'.tx_tail = cfg.tx_tail
    BY <1>5, <1>10 DEF HostStart, device_meta_t
  <2>2. Handed' = Handed /\ Released' = Released
    BY <2>1 DEF Handed, Released, Count
  <2>3. NoOverrun'
    BY <1>1, <1>3, <1>4, <2>1, <2>2 DEF NoOverrun
  <2>4. StartInv' /\ WorkerInv'
    BY <1>1, <1>4, <2>1 DEF StartInv, WorkerInv
  <2>5. EngineInv'
    BY <1>4, <1>6, <2>2 DEF EngineInv
  <2>6. QED BY <2>3, <2>4, <2>5 DEF IndexInv
<1>11. CASE HostReadRx
  <2>1. /\ worker = "read_rx" /\ worker' = "read_tx"
        /\ UNCHANGED <<cfg, ring_tx, echoed>>
        /\ ring_rx'.head = ring_rx.head /\ ring_rx'.tail = cfg.rx_tail
    BY <1>5, <1>11 DEF HostReadRx, ringbuffer_t
  <2>2. Handed' = Handed /\ Released' = Released
    BY <2>1 DEF Handed, Released, Count
  <2>3. echoed <= Published /\ Published <= Published
        /\ ring_rx'.tail = OffsetOf(Published)
    BY <1>2, <1>4, <2>1 DEF NoOverrun
  <2>4. WorkerInv'
    BY <1>2, <1>3, <1>4, <2>1, <2>3 DEF WorkerInv
  <2>5. QED BY <1>7, <2>1, <2>2, <2>4
<1>12. CASE HostReadTx
  <2>1. /\ worker = "read_tx" /\ worker' = "check"
        /\ UNCHANGED <<cfg, ring_rx, echoed>>
        /\ ring_tx'.tail = ring_tx.tail /\ ring_tx'.head = cfg.tx_head
    BY <1>5, <1>12 DEF HostReadTx, ringbuffer_t
  <2>2. Handed' = Handed /\ Released' = Released
    BY <2>1 DEF Handed, Released, Count
  <2>3. Fetched <= Fetched /\ echoed - Fetched <= NumSlots - 1
        /\ ring_tx'.head = OffsetOf(Fetched)
    BY <1>2, <1>4, <2>1 DEF NoOverrun
  <2>4. WorkerInv'
    BY <1>2, <1>3, <1>4, <2>1, <2>3 DEF WorkerInv
  <2>5. QED BY <1>7, <2>1, <2>2, <2>4
<1>13. CASE HostSkip
  <2>1. worker = "check" /\ worker' = "read_rx"
        /\ UNCHANGED <<cfg, ring_rx, ring_tx, echoed>>
    BY <1>13 DEF HostSkip
  <2>2. Handed' = Handed /\ Released' = Released
    BY <2>1 DEF Handed, Released, Count
  <2>3. WorkerInv'
    BY <1>4, <2>1 DEF WorkerInv
  <2>4. QED BY <1>7, <2>1, <2>2, <2>3
<1>14. CASE HostEcho
  <2>1. /\ worker = "check" /\ worker' = "write_tx" /\ UNCHANGED cfg
        /\ echoed' = echoed + 1
        /\ ring_rx.head # ring_rx.tail
        /\ (ring_tx.tail + ring_tx.entry_size) % ring_tx.capacity # ring_tx.head
        /\ ring_rx'.head = Advance(ring_rx.head, ring_rx.entry_size,
                                   ring_rx.capacity)
        /\ ring_tx'.tail = Advance(ring_tx.tail, ring_tx.entry_size,
                                   ring_tx.capacity)
    BY <1>5, <1>14 DEF HostEcho, ringbuffer_t, ringbuffer_empty, ringbuffer_full,
                       ringbuffer_pop, ringbuffer_push
  <2>2. /\ ring_rx.entry_size = UDP_PACKET_SIZE
        /\ ring_rx.capacity = RING_BUFFER_SIZE
        /\ ring_tx.entry_size = UDP_PACKET_SIZE
        /\ ring_tx.capacity = RING_BUFFER_SIZE
    BY <2>1 DEF TypeInv, ConfigInv, Configured
  <2>3. ring_rx.head = OffsetOf(echoed) /\ ring_tx.tail = OffsetOf(echoed)
    BY <1>4 DEF WorkerInv
  <2>4. PICK k \in Nat : /\ echoed <= k /\ k <= Published
                         /\ ring_rx.tail = OffsetOf(k)
    BY <1>4, <2>1 DEF WorkerInv
  <2>5. PICK h \in Nat : /\ h <= Fetched /\ echoed - h <= NumSlots - 1
                         /\ ring_tx.head = OffsetOf(h)
    BY <1>4, <2>1 DEF WorkerInv
  <2>6. echoed + 1 <= Published
    <3>1. echoed # k
      BY <2>1, <2>3, <2>4
    <3>2. QED BY <1>2, <2>4, <3>1
  <2>7. echoed + 1 - Fetched <= NumSlots - 1
    <3>1. OffsetOf(echoed + 1) # OffsetOf(h)
      BY <1>2, <2>1, <2>2, <2>3, <2>5, OffsetNext
    <3>2. echoed + 1 # h + NumSlots
      BY <3>1, OffsetAround
    <3>3. QED BY <1>2, <2>5, <3>2, SlotFacts
  <2>8. ring_rx'.head = OffsetOf(echoed') /\ ring_tx'.tail = OffsetOf(echoed')
    BY <1>2, <2>1, <2>2, <2>3, OffsetNext
  <2>9. Released = echoed /\ Handed = echoed
    BY <1>2, <2>1 DEF Released, Handed, Count
  <2>10. Released' = Released /\ Handed' = Handed
    <3>1. Count(worker' = "write_tx") = 1
      BY <2>1 DEF Count
    <3>2. Count(worker' \in {"write_tx", "write_rx"}) = 1
      BY <2>1 DEF Count
    <3>3. QED BY <1>2, <2>1, <2>9, <3>1, <3>2 DEF Released, Handed
  <2>11. NoOverrun'
    <3>0. echoed' = echoed + 1
      BY <2>1
    <3>1. Released <= echoed' /\ Handed <= echoed'
      BY <1>2, <2>9, <3>0
    <3>2. echoed' <= Published /\ echoed' - Fetched <= NumSlots - 1
      BY <1>2, <2>6, <2>7, <3>0, SlotFacts
    <3>3. QED BY <1>1, <1>3, <1>4, <2>1, <2>10, <3>1, <3>2 DEF NoOverrun
  <2>12. StartInv'
    BY <1>1, <1>4, <2>1 DEF StartInv
  <2>13. WorkerInv'
    <3>1. echoed' > 0
      BY <1>2, <2>1
    <3>2. QED BY <2>1, <2>8, <3>1 DEF WorkerInv
  <2>14. EngineInv'
    BY <1>4, <1>6, <2>10 DEF EngineInv
  <2>15. QED BY <2>11, <2>12, <2>13, <2>14 DEF IndexInv
<1>15. CASE HostWriteTx
  <2>1. /\ worker = "write_tx" /\ worker' = "write_rx"
        /\ UNCHANGED <<ring_rx, ring_tx, echoed>>
        /\ cfg'.tx_tail = ring_tx.tail
        /\ cfg'.rx_head = cfg.rx_head /\ cfg'.rx_tail = cfg.rx_tail
        /\ cfg'.tx_head = cfg.tx_head
    BY <1>5, <1>15 DEF HostWriteTx, device_meta_t
  <2>2. Released' = Released /\ Handed' = echoed
    <3>1. Count(worker' = "write_tx") = 0
      BY <2>1 DEF Count
    <3>2. Count(worker' \in {"write_tx", "write_rx"})
            = Count(worker \in {"write_tx", "write_rx"})
      BY <2>1 DEF Count
    <3>3. QED BY <1>2, <2>1, <3>1, <3>2 DEF Released, Handed
  <2>3. Handed <= echoed
    BY <1>4 DEF NoOverrun
  <2>4. NoOverrun'
    BY <1>1, <1>2, <1>3, <1>4, <2>1, <2>2 DEF NoOverrun, WorkerInv
  <2>5. StartInv' /\ WorkerInv'
    BY <1>1, <1>4, <2>1 DEF StartInv, WorkerInv
  <2>6. EngineInv'
    BY <1>2, <1>4, <1>6, <2>2, <2>3 DEF EngineInv
  <2>7. QED BY <2>4, <2>5, <2>6 DEF IndexInv
<1>16. CASE HostWriteRx
  <2>1. /\ worker = "write_rx" /\ worker' = "read_rx"
        /\ UNCHANGED <<ring_rx, ring_tx, echoed>>
        /\ cfg'.rx_head = ring_rx.head
        /\ cfg'.tx_tail = cfg.tx_tail /\ cfg'.rx_tail = cfg.rx_tail
        /\ cfg'.tx_head = cfg.tx_head
    BY <1>5, <1>16 DEF HostWriteRx, device_meta_t
  <2>2. Released' = echoed /\ Handed' = Handed
    <3>1. /\ Count(worker' = "write_tx") = 0
          /\ Count(worker = "write_tx") = 0
      BY <2>1 DEF Count
    <3>2. Count(worker' \in {"write_tx", "write_rx"}) = 0
      BY <2>1 DEF Count
    <3>3. QED BY <1>2, <2>1, <3>1, <3>2 DEF Released, Handed
  <2>3. Len(admitted) - echoed <= NumSlots - 1
    BY <1>2, <1>4, SlotFacts DEF NoOverrun
  <2>4. NoOverrun'
    BY <1>1, <1>2, <1>3, <1>4, <2>1, <2>2, <2>3 DEF NoOverrun, WorkerInv
  <2>5. StartInv' /\ WorkerInv'
    BY <1>1, <1>4, <2>1 DEF StartInv, WorkerInv
  <2>6. EngineInv'
    BY <1>4, <1>6, <2>2 DEF EngineInv
  <2>7. QED BY <2>4, <2>5, <2>6 DEF IndexInv
<1>17. QED
  BY <1>8, <1>9, <1>10, <1>11, <1>12, <1>13, <1>14, <1>15, <1>16
     DEF HostStep, HostNext

\* Every step of the composition preserves the index invariant.
LEMMA IndexStep ==
  ASSUME WholeSlots, TypeInv, IndexInv, [Next]_vars
  PROVE  IndexInv'
<1>1. CASE Next
  BY <1>1, RxIndexStep, TxIndexStep, HostIndexStep DEF Next
<1>2. CASE UNCHANGED vars
  <2>1. UNCHANGED <<cfg, rx, admitted, tx, sent, worker, ring_rx, ring_tx, echoed>>
    BY <1>2 DEF vars, rxVars, txVars, hostVars
  <2>2. QED BY <2>1 DEF IndexInv, NoOverrun, StartInv, WorkerInv, EngineInv,
                        Published, Released, Handed, Fetched
<1>3. QED BY <1>1, <1>2

\* The index invariant holds in every reachable state.
LEMMA IndexInvariant ==
  ASSUME WholeSlots
  PROVE  Spec => [](TypeInv /\ IndexInv)
<1>1. Init => TypeInv /\ IndexInv
  BY TypeInit, IndexInit
<1>2. (TypeInv /\ IndexInv) /\ [Next]_vars => (TypeInv /\ IndexInv)'
  BY TypeStep, IndexStep
<1>3. QED BY <1>1, <1>2, PTL DEF Spec

(***************************************************************************)
(* For every configuration with whole entries, the four indices the host    *)
(* and the engines exchange through device_meta_t tell the truth, neither   *)
(* ring is ever overrun, and no party reads an entry that is not there: the  *)
(* polling loops of rx.c:63-72 and tx.c:35-44 and the test of                *)
(* app_main.c:152 are enough, although each decides on a value that may be   *)
(* old by the time it acts.                                                  *)
(***************************************************************************)
THEOREM NoOverrunSafe ==
  ASSUME WholeSlots
  PROVE  Spec => []NoOverrun
<1>1. TypeInv /\ IndexInv => NoOverrun
  BY DEF IndexInv
<1>2. QED BY <1>1, IndexInvariant, PTL

-----------------------------------------------------------------------------
(***************************************************************************)
(* EntriesIntact speaks of the entries that are complete.  What makes it    *)
(* inductive is what is known of the entry or packet a DMA is still filling: *)
(* the bytes of the parts that are done are those of the packet in hand.     *)
(***************************************************************************)
FillInv ==
    /\ rx.pc = "dma" =>
           /\ rx.pkt = admitted[Len(admitted)]
           /\ \A b \in DoneBytes(rx.pending) :
                  rx_mem[rx.tail + b] = <<rx.pkt, b>>
    /\ tx.pc = "dma" =>
           \A b \in DoneBytes(tx.pending) :
               tx.pkt.data[b] = <<admitted[Fetched + 1], b>>
    /\ tx.pc = "send" => tx.pkt = EchoOf(admitted[Len(sent) + 1])

DataInv == EntriesIntact /\ FillInv

-----------------------------------------------------------------------------
\* The data invariant holds initially: no frame is in flight and no ring entry is filled.
LEMMA DataInit ==
  ASSUME WholeSlots
  PROVE  Init => DataInv
<1> SUFFICES ASSUME Init PROVE DataInv
  OBVIOUS
<1>1. /\ Len(admitted) = 0 /\ echoed = 0
      /\ rx.pc = "start" /\ tx.pc = "start"
  BY DEF Init, RxInit, TxInit, HostInit
<1>2. Published = 0
  BY <1>1 DEF Published, Count
<1>3. Fetched \in Nat
  BY DEF Init, TxInit, Fetched, Count
<1>4. EntriesIntact
  BY <1>1, <1>2, <1>3 DEF EntriesIntact
<1>5. FillInv
  BY <1>1 DEF FillInv
<1>6. QED BY <1>4, <1>5 DEF DataInv

\* The counters in order, from the newest packet to the oldest.
LEMMA CountersOrder ==
  ASSUME WholeSlots, TypeInv, IndexInv
  PROVE  /\ Fetched <= Handed /\ Handed <= echoed /\ echoed <= Published
         /\ Published <= Len(admitted)
         /\ rx.pc = "dma" => Len(admitted) = Published + 1
         /\ rx.pc # "dma" => Len(admitted) = Published
         /\ Len(admitted) - echoed <= NumSlots - 1
         /\ echoed - Fetched <= NumSlots - 1
         /\ tx.pc = "send" => Fetched = Len(sent) + 1
         /\ tx.pc # "send" => Fetched = Len(sent)
<1>1. /\ Published \in Nat /\ Released \in Nat /\ Handed \in Nat
      /\ Fetched \in Nat /\ echoed \in Nat
      /\ Len(admitted) \in Nat /\ Len(sent) \in Nat
  BY CountersType
<1>2. NoOverrun
  BY DEF IndexInv
<1>3. /\ rx.pc = "dma" => Len(admitted) = Published + 1
      /\ rx.pc # "dma" => Len(admitted) = Published
  BY <1>1 DEF Published, Count
<1>4. /\ tx.pc = "send" => Fetched = Len(sent) + 1
      /\ tx.pc # "send" => Fetched = Len(sent)
  BY <1>1 DEF Fetched, Count
<1>5. Len(admitted) - echoed <= NumSlots - 1
  BY <1>1, <1>2, SlotFacts DEF NoOverrun
<1>6. QED BY <1>1, <1>2, <1>3, <1>4, <1>5 DEF NoOverrun

\* The receive engine preserves the data invariant.
LEMMA RxDataStep ==
  ASSUME WholeSlots, TypeInv, IndexInv, DataInv, RxStep
  PROVE  DataInv'
<1>1. UNCHANGED <<tx_mem, tx, pool, nbi, sent, worker, ring_rx, ring_tx, echoed>>
  BY DEF RxStep, txVars, hostVars
<1>2. /\ Published \in Nat /\ Fetched \in Nat /\ echoed \in Nat
      /\ Len(admitted) \in Nat /\ Len(sent) \in Nat
  BY CountersType
<1>3. Fetched' = Fetched
  BY <1>1 DEF Fetched
<1>4. EntriesIntact /\ FillInv
  BY DEF DataInv
<1>5. rx \in RxEngine /\ admitted \in Seq(Packets) /\ rx_mem \in [HostBytes -> Bytes]
  BY DEF TypeInv, TypeOK, RxTypeOK
\* The steps that touch neither a ring nor the packets in it.
<1>6. ASSUME UNCHANGED <<rx_mem, admitted, Published>>, rx'.pc # "dma"
      PROVE  DataInv'
  <2>1. EntriesIntact'
    BY <1>1, <1>3, <1>4, <1>6 DEF EntriesIntact
  <2>2. FillInv'
    BY <1>1, <1>3, <1>4, <1>6 DEF FillInv
  <2>3. QED BY <2>1, <2>2 DEF DataInv
<1>7. CASE RxMain
  BY <1>5, <1>6, <1>7 DEF RxMain, RxEngine, Published, Count
<1>8. ASSUME NEW f \in Frames, RxDrop(f) PROVE DataInv'
  BY <1>5, <1>6, <1>8 DEF RxDrop, RxEngine, Published
<1>9. ASSUME NEW f \in Frames, RxAllow(f) PROVE DataInv'
  BY <1>5, <1>6, <1>9 DEF RxAllow, RxEngine, Published, Count
<1>10. CASE RxReadTail
  BY <1>5, <1>6, <1>10 DEF RxReadTail, RxEngine, Published, Count
<1>11. CASE RxAwaitSpace
  <2>1. /\ rx.pc = "space" /\ rx'.pc = "dma" /\ UNCHANGED rx_mem
        /\ rx'.pending = DmaParts(rx.packet_size, RxCtmWindow)
        /\ rx'.pkt = rx.pkt
        /\ admitted' = Append(admitted, rx.pkt)
    BY <1>5, <1>11 DEF RxAwaitSpace, RxEngine
  <2>2. /\ Len(admitted') = Len(admitted) + 1
        /\ admitted'[Len(admitted')] = rx.pkt
        /\ \A n \in 1 .. Len(admitted) : admitted'[n] = admitted[n]
    <3>1. rx.pkt \in Packets
      BY <2>1 DEF TypeInv, HandsInv
    <3>2. admitted' = Append(admitted, rx.pkt)
      BY <2>1
    <3>3. QED BY <1>5, <3>1, <3>2
  <2>3. Published = Len(admitted) /\ Published' = Published
    BY <1>2, <2>1, <2>2 DEF Published, Count
  <2>4. Fetched <= echoed /\ echoed <= Len(admitted) /\ Fetched <= Handed
        /\ Handed <= echoed /\ Handed \in Nat
    BY <1>2, CountersOrder, CountersType
  <2>5. EntriesIntact'
    <3>1. \A n \in (echoed + 1) .. Published : admitted'[n] = admitted[n]
      BY <1>2, <2>2, <2>3
    <3>2. \A n \in (Fetched + 1) .. echoed : admitted'[n] = admitted[n]
      BY <1>2, <2>2, <2>4
    <3>3. UNCHANGED <<rx_mem, tx_mem, echoed, Published, Fetched>>
      BY <1>1, <1>3, <2>1, <2>3
    <3>4. QED BY <1>4, <3>1, <3>2, <3>3 DEF EntriesIntact
  <2>6. rx.packet_size = UDP_PACKET_SIZE
    BY <2>1 DEF TypeInv, ConfigInv, ConfiguredBeforeUse
  <2>7. DoneBytes(rx'.pending) = {}
    BY <2>1, <2>6, PartsCover
  <2>8. ASSUME tx.pc = "dma"
        PROVE  admitted'[Fetched + 1] = admitted[Fetched + 1]
    <3>1. Fetched < Handed
      BY <2>8 DEF IndexInv, EngineInv
    <3>2. Fetched + 1 \in 1 .. Len(admitted)
      BY <1>2, <2>4, <3>1
    <3>3. QED BY <2>2, <3>2
  <2>9. ASSUME tx.pc = "send"
        PROVE  admitted'[Len(sent) + 1] = admitted[Len(sent) + 1]
    <3>1. Len(sent) + 1 \in 1 .. Len(admitted)
      BY <1>2, <2>4, <2>9, CountersOrder
    <3>2. QED BY <2>2, <3>1
  <2>10. FillInv'
    BY <1>1, <1>3, <1>4, <2>1, <2>2, <2>7, <2>8, <2>9 DEF FillInv
  <2>11. QED BY <2>5, <2>10 DEF DataInv
<1>12. ASSUME NEW part \in rx.pending, RxDmaWrite(part) PROVE DataInv'
  <2> DEFINE data == PacketBytes(rx.pkt)
  <2>1. /\ rx.pc = "dma" /\ rx'.pc = "dma" /\ UNCHANGED admitted
        /\ rx'.pending = rx.pending \ {part}
        /\ rx'.pkt = rx.pkt /\ rx'.tail = rx.tail
        /\ rx_mem' = Store(rx_mem, rx.tail, part, data)
    BY <1>5, <1>12 DEF RxDmaWrite, RxEngine
  <2>2. Published' = Published
    BY <2>1 DEF Published
  <2>3. /\ rx.tail = OffsetOf(Published) /\ rx.tail \in Offsets
        /\ part \in SUBSET PacketOffsets
    BY <1>5, <2>1 DEF IndexInv, EngineInv, RxEngine
  <2>4. \A b \in PacketOffsets : data[b] = <<rx.pkt, b>>
    BY DEF PacketBytes
  <2> HIDE DEF data
  <2>5. EntriesIntact'
    <3>1. ASSUME NEW n \in (echoed + 1) .. Published, NEW b \in PacketOffsets
          PROVE  rx_mem'[OffsetOf(n - 1) + b] = rx_mem[OffsetOf(n - 1) + b]
      <4>1. /\ n - 1 \in Nat /\ n - 1 < Published
            /\ Published - (n - 1) < NumSlots
        BY <1>2, <2>1, CountersOrder, SlotFacts
      <4>2. OffsetOf(n - 1) \in Offsets
        BY <4>1, OffsetInside
      <4>3. \A j \in part : OffsetOf(n - 1) + b # rx.tail + j
        BY <1>2, <2>3, <4>1, OffsetDisjoint
      <4>4. QED BY <1>5, <2>1, <2>3, <4>2, <4>3, StoreAt
    <3>2. UNCHANGED <<tx_mem, echoed, Published, Fetched, admitted>>
      BY <1>1, <1>3, <2>1, <2>2
    <3>3. QED BY <1>4, <3>1, <3>2 DEF EntriesIntact
  <2>6. \A b \in DoneBytes(rx'.pending) : rx_mem'[rx.tail + b] = <<rx.pkt, b>>
    <3>1. SUFFICES ASSUME NEW b \in DoneBytes(rx'.pending)
                   PROVE  rx_mem'[rx.tail + b] = <<rx.pkt, b>>
      OBVIOUS
    <3>2. b \in PacketOffsets
      BY DEF DoneBytes
    <3>3. CASE b \in part
      BY <1>5, <2>1, <2>3, <2>4, <3>2, <3>3, StoreAt
    <3>4. CASE b \notin part
      <4>1. b \in DoneBytes(rx.pending)
        BY <2>1, <3>2, <3>4 DEF DoneBytes
      <4>2. rx_mem[rx.tail + b] = <<rx.pkt, b>>
        BY <1>4, <2>1, <4>1 DEF FillInv
      <4>3. \A j \in part : rx.tail + b # rx.tail + j
        BY <2>3, <3>2, <3>4 DEF Offsets, PacketOffsets
      <4>4. QED BY <1>5, <2>1, <2>3, <3>2, <4>2, <4>3, StoreAt
    <3>5. QED BY <3>3, <3>4
  <2>7. FillInv'
    BY <1>1, <1>3, <1>4, <2>1, <2>6 DEF FillInv
  <2>8. QED BY <2>5, <2>7 DEF DataInv
<1>13. CASE RxPublish
  <2>1. /\ rx.pc = "dma" /\ rx'.pc = "receive" /\ UNCHANGED <<rx_mem, admitted>>
        /\ rx.pending = {}
    BY <1>5, <1>13 DEF RxPublish, RxEngine
  <2>2. Published' = Published + 1
    BY <1>2, <2>1 DEF Published, Count
  <2>3. rx.tail = OffsetOf(Published)
    BY <2>1 DEF IndexInv, EngineInv
  <2>4. \A b \in PacketOffsets :
          rx_mem[OffsetOf(Published) + b] = <<admitted[Published + 1], b>>
    BY <1>4, <2>1, <2>3, NothingPending, CountersOrder DEF FillInv
  <2>5. EntriesIntact'
    <3>1. ASSUME NEW n \in (echoed + 1) .. (Published + 1), NEW b \in PacketOffsets
          PROVE  rx_mem[OffsetOf(n - 1) + b] = <<admitted[n], b>>
      <4>1. n \in (echoed + 1) .. Published \/ (n = Published + 1 /\ n - 1 = Published)
        BY <1>2
      <4>2. QED BY <1>4, <2>4, <4>1 DEF EntriesIntact
    <3>2. UNCHANGED <<rx_mem, tx_mem, echoed, Fetched, admitted>>
      BY <1>1, <1>3, <2>1
    <3>3. QED BY <1>4, <2>2, <3>1, <3>2 DEF EntriesIntact
  <2>6. FillInv'
    BY <1>1, <1>3, <1>4, <2>1 DEF FillInv
  <2>7. QED BY <2>5, <2>6 DEF DataInv
<1>14. QED
  BY <1>7, <1>8, <1>9, <1>10, <1>11, <1>12, <1>13 DEF RxStep, RxNext, RxProcess

\* The transmit engine preserves the data invariant.
LEMMA TxDataStep ==
  ASSUME WholeSlots, TypeInv, IndexInv, DataInv, TxStep
  PROVE  DataInv'
<1>1. UNCHANGED <<rx_mem, rx, arrived, admitted, worker, ring_rx, ring_tx, echoed>>
  BY DEF TxStep, rxVars, hostVars
<1>2. /\ Published \in Nat /\ Fetched \in Nat /\ echoed \in Nat /\ Handed \in Nat
      /\ Len(admitted) \in Nat /\ Len(sent) \in Nat
  BY CountersType
<1>3. Published' = Published
  BY <1>1 DEF Published
<1>4. EntriesIntact /\ FillInv
  BY DEF DataInv
<1>5. /\ tx \in TxEngine(Bytes) /\ sent \in Seq(TxPackets(Bytes))
      /\ tx.pkt \in TxPackets(Bytes) /\ tx.pkt.data \in [PacketOffsets -> Bytes]
      /\ tx.pkt = [len |-> tx.pkt.len, data |-> tx.pkt.data]
      /\ tx_mem \in [HostBytes -> Bytes]
  BY DEF TypeInv, TypeOK, TxTypeOK, TxEngine, TxPackets
\* The steps that fetch nothing.
<1>6. ASSUME UNCHANGED <<tx_mem, sent, Fetched>>, tx'.pc # "send",
             tx'.pc = "dma" => \A b \in DoneBytes(tx'.pending) :
                 tx'.pkt.data[b] = <<admitted[Fetched + 1], b>>
      PROVE  DataInv'
  <2>1. EntriesIntact'
    BY <1>1, <1>3, <1>4, <1>6 DEF EntriesIntact
  <2>2. FillInv'
    BY <1>1, <1>4, <1>6 DEF FillInv
  <2>3. QED BY <2>1, <2>2 DEF DataInv
<1>7. CASE TxMain
  BY <1>5, <1>6, <1>7 DEF TxMain, TxEngine, Fetched, Count
<1>8. CASE TxAllocate
  BY <1>5, <1>6, <1>8 DEF TxAllocate, TxEngine, Fetched, Count
<1>9. CASE TxReadHead
  BY <1>5, <1>6, <1>9 DEF TxReadHead, TxEngine, Fetched, Count
<1>10. CASE TxAwaitData
  <2>1. /\ tx.pc = "data" /\ tx'.pc = "dma" /\ UNCHANGED <<tx_mem, sent>>
        /\ tx'.pending = DmaParts(tx.packet_size, TxCtmWindow)
    BY <1>5, <1>10 DEF TxAwaitData, TxEngine
  <2>2. Fetched' = Fetched
    BY <2>1 DEF Fetched, Count
  <2>3. tx.packet_size = UDP_PACKET_SIZE
    BY <2>1 DEF TypeInv, ConfigInv, ConfiguredBeforeUse
  <2>4. DoneBytes(tx'.pending) = {}
    BY <2>1, <2>3, PartsCover
  <2>5. QED BY <1>6, <2>1, <2>2, <2>4
<1>11. ASSUME NEW part \in tx.pending, TxDmaRead(part) PROVE DataInv'
  <2>1. /\ tx.pc = "dma" /\ tx'.pc = "dma" /\ UNCHANGED <<tx_mem, sent>>
        /\ tx'.pending = tx.pending \ {part}
        /\ tx'.pkt.data = Fetch(tx_mem, tx.head, part, tx.pkt.data)
    BY <1>5, <1>11 DEF TxDmaRead, TxEngine, TxPackets
  <2>2. Fetched' = Fetched
    BY <2>1 DEF Fetched
  <2>3. tx.head = OffsetOf(Fetched) /\ Fetched < Handed
    BY <2>1 DEF IndexInv, EngineInv
  <2>4. Fetched + 1 \in (Fetched + 1) .. echoed /\ (Fetched + 1) - 1 = Fetched
    BY <1>2, <2>3, CountersOrder
  <2>5. \A b \in PacketOffsets :
          tx_mem[tx.head + b] = <<admitted[Fetched + 1], b>>
    BY <1>4, <2>3, <2>4 DEF EntriesIntact
  <2>6. \A b \in PacketOffsets :
          tx'.pkt.data[b] = IF b \in part THEN tx_mem[tx.head + b]
                                          ELSE tx.pkt.data[b]
    BY <1>5, <2>1 DEF Fetch
  <2>7. \A b \in DoneBytes(tx'.pending) :
          tx'.pkt.data[b] = <<admitted[Fetched + 1], b>>
    <3>1. \A b \in DoneBytes(tx'.pending) :
            b \in PacketOffsets /\ (b \in part \/ b \in DoneBytes(tx.pending))
      BY <2>1 DEF DoneBytes
    <3>2. \A b \in DoneBytes(tx.pending) :
            tx.pkt.data[b] = <<admitted[Fetched + 1], b>>
      BY <1>4, <2>1 DEF FillInv
    <3>3. QED BY <2>5, <2>6, <3>1, <3>2
  <2>8. QED BY <1>6, <2>1, <2>2, <2>7
<1>12. CASE TxPublish
  <2>1. /\ tx.pc = "dma" /\ tx'.pc = "send" /\ UNCHANGED <<tx_mem, sent>>
        /\ tx.pending = {}
        /\ tx'.pkt = [tx.pkt EXCEPT !.len = tx.packet_size + MAC_PREPEND_BYTES]
    BY <1>5, <1>12 DEF TxPublish, TxEngine
  <2>2. Fetched' = Fetched + 1
    BY <1>2, <2>1 DEF Fetched, Count
  <2>3. tx.packet_size = UDP_PACKET_SIZE
    BY <2>1 DEF TypeInv, ConfigInv, ConfiguredBeforeUse
  <2>4. \A b \in PacketOffsets : tx.pkt.data[b] = <<admitted[Fetched + 1], b>>
    BY <1>4, <2>1, NothingPending DEF FillInv
  <2>5. tx.pkt.data = PacketBytes(admitted[Fetched + 1])
    BY <1>5, <2>4 DEF PacketBytes
  <2>6. tx'.pkt = EchoOf(admitted[Fetched + 1])
    BY <1>5, <2>1, <2>3, <2>5 DEF EchoOf
  <2>7. Fetched = Len(sent)
    BY <2>1, CountersOrder
  <2>8. FillInv'
    BY <1>1, <1>4, <2>1, <2>6, <2>7 DEF FillInv
  <2>9. EntriesIntact'
    <3>1. (Fetched + 1 + 1) .. echoed \subseteq (Fetched + 1) .. echoed
      BY <1>2
    <3>2. UNCHANGED <<rx_mem, tx_mem, echoed, Published, admitted>>
      BY <1>1, <1>3, <2>1
    <3>3. QED BY <1>4, <2>2, <3>1, <3>2 DEF EntriesIntact
  <2>10. QED BY <2>8, <2>9 DEF DataInv
<1>13. CASE TxSend
  <2>1. /\ tx.pc = "send" /\ tx'.pc = "allocate" /\ UNCHANGED tx_mem
        /\ Len(sent') = Len(sent) + 1
    BY <1>5, <1>13 DEF TxSend, TxEngine
  <2>2. Fetched' = Fetched
    BY <1>2, <2>1 DEF Fetched, Count
  <2>3. EntriesIntact'
    BY <1>1, <1>3, <1>4, <2>1, <2>2 DEF EntriesIntact
  <2>4. FillInv'
    BY <1>1, <1>4, <2>1 DEF FillInv
  <2>5. QED BY <2>3, <2>4 DEF DataInv
<1>14. CASE NbiTransmit
  <2>1. UNCHANGED <<tx_mem, sent, tx>>
    BY <1>14 DEF NbiTransmit
  <2>2. Fetched' = Fetched
    BY <2>1 DEF Fetched
  <2>3. EntriesIntact' /\ FillInv'
    BY <1>1, <1>3, <1>4, <2>1, <2>2 DEF EntriesIntact, FillInv
  <2>4. QED BY <2>3 DEF DataInv
<1>15. QED
  BY <1>7, <1>8, <1>9, <1>10, <1>11, <1>12, <1>13, <1>14
     DEF TxStep, TxNext, TxProcess

\* The host worker preserves the data invariant.
LEMMA HostDataStep ==
  ASSUME WholeSlots, TypeInv, IndexInv, DataInv, HostStep, IndexInv'
  PROVE  DataInv'
<1>1. UNCHANGED <<rx, arrived, admitted, tx, pool, nbi, sent>>
  BY DEF HostStep, rxVars, txVars
<1>2. Published \in Nat /\ Fetched \in Nat /\ echoed \in Nat
  BY CountersType
<1>3. Published' = Published /\ Fetched' = Fetched
  BY <1>1 DEF Published, Fetched
<1>4. EntriesIntact /\ FillInv
  BY DEF DataInv
<1>5. rx_mem' = rx_mem
  BY DEF HostStep, HostNext, HostMapFails, HostConfigure, HostStart, HostReadRx,
         HostReadTx, HostSkip, HostEcho, HostWriteTx, HostWriteRx
<1>6. FillInv'
  BY <1>1, <1>3, <1>4, <1>5 DEF FillInv
<1>7. CASE HostEcho
  <2> DEFINE data == [b \in PacketOffsets |-> rx_mem[ring_rx.head + b]]
  <2>1. /\ worker = "check" /\ echoed' = echoed + 1
        /\ tx_mem' = Store(tx_mem, ring_tx.tail, PacketOffsets, data)
    BY <1>7 DEF HostEcho
  <2>2. ring_rx.head = OffsetOf(echoed) /\ ring_tx.tail = OffsetOf(echoed)
    BY DEF IndexInv, WorkerInv
  <2>3. tx_mem \in [HostBytes -> Bytes] /\ OffsetOf(echoed) \in Offsets
    BY <1>2, OffsetInside DEF TypeInv, TypeOK
  <2>4. echoed + 1 \in (echoed + 1) .. Published
    <3>1. echoed' <= Published'
      BY DEF IndexInv, NoOverrun
    <3>2. QED BY <1>2, <1>3, <2>1, <3>1
  <2>5. \A b \in PacketOffsets : data[b] = <<admitted[echoed + 1], b>>
    <3>1. (echoed + 1) - 1 = echoed
      BY <1>2
    <3>2. QED BY <1>4, <2>2, <2>4, <3>1 DEF EntriesIntact
  <2> HIDE DEF data
  <2>6. ASSUME NEW n \in (Fetched + 1) .. echoed, NEW b \in PacketOffsets
        PROVE  tx_mem'[OffsetOf(n - 1) + b] = tx_mem[OffsetOf(n - 1) + b]
    <3>1. n - 1 \in Nat /\ n - 1 < echoed /\ echoed - (n - 1) < NumSlots
      BY <1>2, CountersOrder, SlotFacts
    <3>2. OffsetOf(n - 1) \in Offsets
      BY <3>1, OffsetInside
    <3>3. \A j \in PacketOffsets : OffsetOf(n - 1) + b # OffsetOf(echoed) + j
      BY <1>2, <3>1, OffsetDisjoint
    <3>4. QED BY <2>1, <2>2, <2>3, <3>2, <3>3, StoreAt
  <2>7. ASSUME NEW b \in PacketOffsets
        PROVE  tx_mem'[OffsetOf(echoed) + b] = <<admitted[echoed + 1], b>>
    BY <2>1, <2>2, <2>3, <2>5, StoreAt
  <2>8. ASSUME NEW n \in (Fetched + 1) .. (echoed + 1), NEW b \in PacketOffsets
        PROVE  tx_mem'[OffsetOf(n - 1) + b] = <<admitted[n], b>>
    <3>1. n \in (Fetched + 1) .. echoed \/ (n = echoed + 1 /\ n - 1 = echoed)
      BY <1>2
    <3>2. QED BY <1>4, <2>6, <2>7, <3>1 DEF EntriesIntact
  <2>9. ASSUME NEW n \in (echoed + 1 + 1) .. Published
        PROVE  n \in (echoed + 1) .. Published
    BY <1>2
  <2>10. echoed' = echoed + 1
    BY <2>1
  <2>11. EntriesIntact'
    BY <1>1, <1>3, <1>4, <1>5, <2>8, <2>9, <2>10 DEF EntriesIntact
  <2>12. QED BY <1>6, <2>11 DEF DataInv
<1>8. CASE ~ HostEcho
  <2>1. UNCHANGED <<tx_mem, echoed>>
    BY <1>8 DEF HostStep, HostNext, HostMapFails, HostConfigure, HostStart,
                HostReadRx, HostReadTx, HostSkip, HostWriteTx, HostWriteRx
  <2>2. EntriesIntact'
    BY <1>1, <1>3, <1>4, <1>5, <2>1 DEF EntriesIntact
  <2>3. QED BY <1>6, <2>2 DEF DataInv
<1>9. QED BY <1>7, <1>8

\* Every step of the composition preserves the data invariant.
LEMMA DataStep ==
  ASSUME WholeSlots, TypeInv, IndexInv, DataInv, [Next]_vars
  PROVE  DataInv'
<1>1. IndexInv'
  BY IndexStep
<1>2. CASE Next
  BY <1>1, <1>2, RxDataStep, TxDataStep, HostDataStep DEF Next
<1>3. CASE UNCHANGED vars
  <2>1. UNCHANGED <<rx_mem, tx_mem, rx, admitted, tx, sent, echoed>>
    BY <1>3 DEF vars, rxVars, txVars, hostVars
  <2>2. QED BY <2>1 DEF DataInv, EntriesIntact, FillInv, Published, Fetched
<1>4. QED BY <1>2, <1>3

EchoInv == TypeInv /\ IndexInv /\ DataInv

\* The data invariant holds in every reachable state, beside the index invariant.
LEMMA EchoInvariant ==
  ASSUME WholeSlots
  PROVE  Spec => []EchoInv
<1>1. Init => EchoInv
  BY TypeInit, IndexInit, DataInit DEF EchoInv
<1>2. EchoInv /\ [Next]_vars => EchoInv'
  BY TypeStep, IndexStep, DataStep DEF EchoInv
<1>3. QED BY <1>1, <1>2, PTL DEF Spec

(***************************************************************************)
(* For every configuration with whole entries, no published entry of either *)
(* ring is torn or overwritten before its reader is done with it, however   *)
(* the two DMAs of a packet (dma.c:100-157), the worker's memcpy             *)
(* (app_main.c:157) and the index updates interleave.                        *)
(***************************************************************************)
THEOREM EntriesSafe ==
  ASSUME WholeSlots
  PROVE  Spec => []EntriesIntact
<1>1. EchoInv => EntriesIntact
  BY DEF EchoInv, DataInv
<1>2. QED BY <1>1, EchoInvariant, PTL

-----------------------------------------------------------------------------
\* Every step of the path is a step of the service or leaves it alone: only
\* RxAwaitSpace admits a packet and only TxSend sends one.
LEMMA ServiceStep ==
  ASSUME WholeSlots, EchoInv, [Next]_vars
  PROVE  [Service!Next]_(Service!serviceVars)
<1>1. TypeInv /\ IndexInv /\ DataInv
  BY DEF EchoInv
<1>2. /\ Fetched \in Nat /\ echoed \in Nat /\ Released \in Nat
      /\ Published \in Nat /\ Handed \in Nat
      /\ Len(admitted) \in Nat /\ Len(sent) \in Nat
  BY <1>1, CountersType
<1>3. ASSUME UNCHANGED <<admitted, sent>>
      PROVE  [Service!Next]_(Service!serviceVars)
  BY <1>3 DEF Service!serviceVars
<1>4. CASE RxAwaitSpace /\ UNCHANGED sent
  <2>1. rx.pc = "space" /\ admitted' = Append(admitted, rx.pkt)
        /\ rx.updated_tail # cfg.rx_head
    BY <1>4 DEF RxAwaitSpace
  <2>2. rx.pkt \in Packets
    BY <1>1, <2>1 DEF TypeInv, HandsInv
  <2>3. Len(admitted) - Len(sent) < 2 * (NumSlots - 1) + 1
    <3>1. OffsetOf(Published + 1) # OffsetOf(Released)
      BY <1>1, <2>1 DEF IndexInv, EngineInv, NoOverrun
    <3>2. Published + 1 # Released + NumSlots
      BY <1>2, <3>1, OffsetAround
    <3>3. Published = Len(admitted) /\ Fetched <= Len(sent) + 1
          /\ echoed - Fetched <= NumSlots - 1
      BY <1>1, <1>2, <2>1, CountersOrder
    <3>4. Len(admitted) - Released <= NumSlots - 1 /\ Released <= echoed
      BY <1>1 DEF IndexInv, NoOverrun
    <3>5. QED BY <1>2, <3>2, <3>3, <3>4, SlotFacts
  <2>4. Service!Admit
    BY <1>4, <2>1, <2>2, <2>3 DEF Service!Admit
  <2>5. QED BY <2>4 DEF Service!Next
<1>5. CASE TxSend /\ UNCHANGED admitted
  <2>1. tx.pc = "send" /\ sent' = Append(sent, tx.pkt)
    BY <1>5 DEF TxSend
  <2>2. tx.pkt = EchoOf(admitted[Len(sent) + 1])
    BY <1>1, <2>1 DEF DataInv, FillInv
  <2>3. Len(sent) < Len(admitted)
    BY <1>1, <1>2, <2>1, CountersOrder
  <2>4. Service!SendBack
    BY <1>5, <2>1, <2>2, <2>3 DEF Service!SendBack
  <2>5. QED BY <2>4 DEF Service!Next
<1>6. CASE RxStep
  <2>1. UNCHANGED sent
    BY <1>6 DEF RxStep, txVars
  <2>2. RxAwaitSpace \/ UNCHANGED admitted
    BY <1>6 DEF RxStep, RxNext, RxProcess, RxMain, RxDrop, RxAllow, RxReadTail,
                RxDmaWrite, RxPublish
  <2>3. QED BY <1>3, <1>4, <2>1, <2>2
<1>7. CASE TxStep
  <2>1. UNCHANGED admitted
    BY <1>7 DEF TxStep, rxVars
  <2>2. TxSend \/ UNCHANGED sent
    BY <1>7 DEF TxStep, TxNext, TxProcess, TxMain, TxAllocate, TxReadHead,
                TxAwaitData, TxDmaRead, TxPublish, NbiTransmit
  <2>3. QED BY <1>3, <1>5, <2>1, <2>2
<1>8. CASE HostStep
  <2>1. UNCHANGED <<admitted, sent>>
    BY <1>8 DEF HostStep, rxVars, txVars
  <2>2. QED BY <1>3, <2>1
<1>9. CASE UNCHANGED vars
  <2>1. UNCHANGED <<admitted, sent>>
    BY <1>9 DEF vars, rxVars, txVars
  <2>2. QED BY <1>3, <2>1
<1>10. QED BY <1>6, <1>7, <1>8, <1>9 DEF Next

(***************************************************************************)
(* For every configuration with whole entries the single-context echo path  *)
(* (rx.c, udp_worker, tx.c) implements the echo service: every packet that  *)
(* gets an entry of the receive ring is sent at most once, in the order of   *)
(* admission and with exactly its bytes and its configured length, and       *)
(* never more packets are inside than the two rings and the transmit engine  *)
(* hold.                                                                     *)
(***************************************************************************)
THEOREM EchoCorrect ==
  ASSUME WholeSlots
  PROVE  Spec => EchoSafety
<1>1. Init => Service!Init
  BY DEF Init, RxInit, TxInit, Service!Init
<1>2. EchoInv /\ [Next]_vars => [Service!Next]_(Service!serviceVars)
  BY ServiceStep
<1>3. QED BY <1>1, <1>2, EchoInvariant, PTL DEF Spec, EchoSafety, Service!Safety

-----------------------------------------------------------------------------
\* Two offsets denote a ring that is not full, or one that is not empty, when
\* the counters say so.
LEMMA NotFull ==
  ASSUME WholeSlots, NEW h \in Nat, NEW t \in Nat, h <= t, t + 1 - h <= NumSlots - 1
  PROVE  (OffsetOf(t) + UDP_PACKET_SIZE) % RING_BUFFER_SIZE # OffsetOf(h)
<1>1. 0 \in PacketOffsets
  BY SlotFacts DEF PacketOffsets
<1>2. t + 1 \in Nat /\ h < t + 1 /\ t + 1 - h < NumSlots
  BY SlotFacts
<1>3. OffsetOf(h) + 0 # OffsetOf(t + 1) + 0
  BY <1>1, <1>2, OffsetDisjoint
<1>4. OffsetOf(t + 1) = (OffsetOf(t) + UDP_PACKET_SIZE) % RING_BUFFER_SIZE
  BY OffsetNext
<1>5. QED BY <1>3, <1>4

LEMMA NotEmpty ==
  ASSUME WholeSlots, NEW h \in Nat, NEW t \in Nat, h < t, t - h <= NumSlots - 1
  PROVE  OffsetOf(h) # OffsetOf(t)
<1>1. 0 \in PacketOffsets
  BY SlotFacts DEF PacketOffsets
<1>2. t - h < NumSlots
  BY SlotFacts
<1>3. OffsetOf(h) + 0 # OffsetOf(t) + 0
  BY <1>1, <1>2, OffsetDisjoint
<1>4. QED BY <1>3

\* What the words of cfg and the counters mean to each other.
LEMMA CountersFacts ==
  ASSUME WholeSlots, TypeInv, IndexInv
  PROVE  /\ Published \in Nat /\ Released \in Nat /\ Handed \in Nat /\ Fetched \in Nat
         /\ cfg.rx_tail = OffsetOf(Published) /\ cfg.rx_head = OffsetOf(Released)
         /\ cfg.tx_tail = OffsetOf(Handed) /\ cfg.tx_head = OffsetOf(Fetched)
         /\ Released <= Published /\ Fetched <= Handed
         /\ Len(admitted) - Released <= NumSlots - 1
         /\ echoed - Fetched <= NumSlots - 1
<1>1. /\ Published \in Nat /\ Released \in Nat /\ Handed \in Nat /\ Fetched \in Nat
      /\ echoed \in Nat
  BY CountersType
<1>2. NoOverrun
  BY DEF IndexInv
<1>3. QED BY <1>1, <1>2 DEF NoOverrun

\* Only RxPublish moves Published, one packet at a time, and only with room.
LEMMA PublishedMoves ==
  ASSUME WholeSlots, TypeInv, IndexInv, [Next]_vars
  PROVE  \/ Published' = Published
         \/ /\ Published' = Published + 1 /\ Released' = Released
            /\ Published + 1 - Released <= NumSlots - 1
<1>1. rx \in RxEngine /\ admitted \in Seq(Packets)
  BY DEF TypeInv, TypeOK, RxTypeOK
<1>2. ASSUME UNCHANGED admitted, (rx'.pc = "dma" <=> rx.pc = "dma")
      PROVE  Published' = Published
  <2>1. CASE rx.pc = "dma"
    BY <1>2, <2>1 DEF Published, Count
  <2>2. CASE rx.pc # "dma"
    BY <1>2, <2>2 DEF Published, Count
  <2>3. QED BY <2>1, <2>2
<1>3. CASE RxStep
  <2>1. UNCHANGED <<worker, echoed>>
    BY <1>3 DEF RxStep, hostVars
  <2>2. CASE RxAwaitSpace
    <3>1. rx.pc = "space" /\ rx'.pc = "dma" /\ Len(admitted') = Len(admitted) + 1
      BY <1>1, <2>2 DEF RxAwaitSpace, RxEngine
    <3>2. Len(admitted) \in Nat
      BY <1>1
    <3>3. QED BY <3>1, <3>2 DEF Published, Count
  <2>3. CASE RxPublish
    <3>1. rx.pc = "dma" /\ rx'.pc = "receive" /\ UNCHANGED admitted
      BY <1>1, <2>3 DEF RxPublish, RxEngine
    <3>2. Len(admitted) \in Nat
      BY <1>1
    <3>3. Published' = Published + 1 /\ Len(admitted) = Published + 1
      BY <3>1, <3>2 DEF Published, Count
    <3>4. Released' = Released
      BY <2>1 DEF Released
    <3>5. QED BY <3>3, <3>4, CountersFacts
  <2>4. CASE RxMain \/ RxReadTail \/ (\E part \in rx.pending : RxDmaWrite(part))
             \/ (\E f \in Frames : RxDrop(f) \/ RxAllow(f))
    <3>2. CASE \E part \in rx.pending : RxDmaWrite(part)
      BY <1>1, <1>2, <3>2 DEF RxDmaWrite, RxEngine
    <3>3. CASE RxMain
      BY <1>1, <1>2, <3>3 DEF RxMain, RxEngine
    <3>4. CASE RxReadTail
      BY <1>1, <1>2, <3>4 DEF RxReadTail, RxEngine
    <3>5. CASE \E f \in Frames : RxDrop(f) \/ RxAllow(f)
      BY <1>1, <1>2, <3>5 DEF RxDrop, RxAllow, RxEngine
    <3>6. QED BY <2>4, <3>2, <3>3, <3>4, <3>5
  <2>5. QED BY <1>3, <2>2, <2>3, <2>4 DEF RxStep, RxNext, RxProcess
<1>4. CASE TxStep \/ HostStep \/ UNCHANGED vars
  <2>1. UNCHANGED <<rx, admitted>>
    BY <1>4 DEF TxStep, HostStep, vars, rxVars
  <2>2. QED BY <1>2, <2>1
<1>5. QED BY <1>3, <1>4 DEF Next

\* Only TxPublish moves Fetched, one packet at a time, and only past one that
\* was handed over.
LEMMA FetchedMoves ==
  ASSUME WholeSlots, TypeInv, IndexInv, [Next]_vars
  PROVE  \/ Fetched' = Fetched
         \/ Fetched' = Fetched + 1 /\ Handed' = Handed /\ Fetched < Handed
<1>1. tx \in TxEngine(Bytes) /\ Len(sent) \in Nat
  BY CountersType DEF TypeInv, TypeOK, TxTypeOK
<1>2. ASSUME UNCHANGED sent, (tx'.pc = "send" <=> tx.pc = "send")
      PROVE  Fetched' = Fetched
  <2>1. CASE tx.pc = "send"
    BY <1>2, <2>1 DEF Fetched, Count
  <2>2. CASE tx.pc # "send"
    BY <1>2, <2>2 DEF Fetched, Count
  <2>3. QED BY <2>1, <2>2
<1>3. CASE TxStep
  <2>1. UNCHANGED <<worker, echoed>>
    BY <1>3 DEF TxStep, hostVars
  <2>2. CASE TxSend
    <3>1. tx.pc = "send" /\ tx'.pc = "allocate" /\ sent' = Append(sent, tx.pkt)
      BY <1>1, <2>2 DEF TxSend, TxEngine
    <3>2. Len(sent') = Len(sent) + 1
      BY <3>1 DEF TypeInv, TypeOK, TxTypeOK
    <3>3. QED BY <1>1, <3>1, <3>2 DEF Fetched, Count
  <2>3. CASE TxPublish
    <3>1. tx.pc = "dma" /\ tx'.pc = "send" /\ UNCHANGED sent
      BY <1>1, <2>3 DEF TxPublish, TxEngine
    <3>2. Fetched' = Fetched + 1
      BY <1>1, <3>1 DEF Fetched, Count
    <3>3. Handed' = Handed
      BY <2>1 DEF Handed
    <3>4. Fetched < Handed
      BY <3>1 DEF IndexInv, EngineInv
    <3>5. QED BY <3>2, <3>3, <3>4
  <2>4. CASE TxMain \/ TxAllocate \/ TxReadHead \/ TxAwaitData
             \/ (\E part \in tx.pending : TxDmaRead(part)) \/ NbiTransmit
    <3>2. CASE \E part \in tx.pending : TxDmaRead(part)
      BY <1>1, <1>2, <3>2 DEF TxDmaRead, TxEngine
    <3>3. CASE TxMain
      BY <1>1, <1>2, <3>3 DEF TxMain, TxEngine
    <3>4. CASE TxAllocate
      BY <1>1, <1>2, <3>4 DEF TxAllocate, TxEngine
    <3>5. CASE TxReadHead \/ TxAwaitData
      BY <1>1, <1>2, <3>5 DEF TxReadHead, TxAwaitData, TxEngine
    <3>6. CASE NbiTransmit
      BY <1>2, <3>6 DEF NbiTransmit
    <3>7. QED BY <2>4, <3>2, <3>3, <3>4, <3>5, <3>6
  <2>5. QED BY <1>3, <2>2, <2>3, <2>4 DEF TxStep, TxNext, TxProcess
<1>4. CASE RxStep \/ HostStep \/ UNCHANGED vars
  <2>1. UNCHANGED <<tx, sent>>
    BY <1>4 DEF RxStep, HostStep, vars, txVars
  <2>2. QED BY <1>2, <2>1
<1>5. QED BY <1>3, <1>4 DEF Next

\* Only the worker moves Released and Handed, one packet at a time and never
\* both at once: it gives back what was published and hands over with room.
LEMMA WorkerMoves ==
  ASSUME WholeSlots, TypeInv, IndexInv, [Next]_vars
  PROVE  /\ \/ Released' = Released
            \/ /\ Released' = Released + 1 /\ Published' = Published
               /\ Released < Published
         /\ \/ Handed' = Handed
            \/ /\ Handed' = Handed + 1 /\ Fetched' = Fetched
               /\ Handed + 1 - Fetched <= NumSlots - 1
<1>1. echoed \in Nat /\ Published \in Nat
  BY CountersType
<1>2. ASSUME UNCHANGED <<worker, echoed>>
      PROVE  Released' = Released /\ Handed' = Handed
  BY <1>2 DEF Released, Handed
<1>3. CASE HostStep
  <2>0. Published' = Published /\ Fetched' = Fetched
    BY <1>3 DEF HostStep, rxVars, txVars, Published, Fetched
  <2>1. CASE HostEcho
    <3>1. worker = "check" /\ worker' = "write_tx" /\ echoed' = echoed + 1
      BY <2>1 DEF HostEcho
    <3>2. QED BY <1>1, <3>1 DEF Released, Handed, Count
  <2>2. CASE HostWriteTx
    <3>1. worker = "write_tx" /\ worker' = "write_rx" /\ echoed' = echoed
      BY <2>2 DEF HostWriteTx
    <3>2. Released' = Released /\ Handed' = Handed + 1 /\ Handed + 1 = echoed
      BY <1>1, <3>1 DEF Released, Handed, Count
    <3>3. QED BY <2>0, <3>2, CountersFacts
  <2>3. CASE HostWriteRx
    <3>1. worker = "write_rx" /\ worker' = "read_rx" /\ echoed' = echoed
      BY <2>3 DEF HostWriteRx
    <3>2. Released' = Released + 1 /\ Handed' = Handed /\ Released + 1 = echoed
      BY <1>1, <3>1 DEF Released, Handed, Count
    <3>3. Released < Published
      BY <1>1, <3>2, CountersFacts, CountersOrder
    <3>4. QED BY <2>0, <3>2, <3>3
  <2>4. CASE HostMapFails \/ HostConfigure \/ HostStart \/ HostReadRx \/ HostReadTx
             \/ HostSkip
    <3>1. /\ UNCHANGED echoed
          /\ worker \notin {"write_tx", "write_rx"}
          /\ worker' \notin {"write_tx", "write_rx"}
      BY <2>4 DEF HostMapFails, HostConfigure, HostStart, HostReadRx, HostReadTx,
                  HostSkip
    <3>2. QED BY <1>1, <3>1 DEF Released, Handed, Count
  <2>5. QED BY <1>3, <2>1, <2>2, <2>3, <2>4 DEF HostStep, HostNext
<1>4. CASE RxStep \/ TxStep \/ UNCHANGED vars
  <2>1. UNCHANGED <<worker, echoed>>
    BY <1>4 DEF RxStep, TxStep, vars, hostVars
  <2>2. QED BY <1>2, <2>1
<1>5. QED BY <1>3, <1>4 DEF Next

\* The receive ring moves as the library's: the tail with Published and only
\* with room, the head with Released and only up to the tail.
LEMMA RxRingStep ==
  ASSUME WholeSlots, TypeInv, IndexInv, NoOverrun', [Next]_vars
  PROVE  [RxRing!RingNext]_(RxRing!ringVars)
<1> DEFINE h == Released
           t == Published
<1>1. /\ t \in Nat /\ h \in Nat /\ h <= t
      /\ cfg.rx_tail = OffsetOf(t) /\ cfg.rx_head = OffsetOf(h)
  BY CountersFacts
<1>2. cfg'.rx_tail = OffsetOf(t') /\ cfg'.rx_head = OffsetOf(h')
  BY DEF NoOverrun, OffsetOf
<1>3. \/ t' = t
      \/ t' = t + 1 /\ h' = h /\ t + 1 - h <= NumSlots - 1
  BY PublishedMoves
<1>4. \/ h' = h
      \/ h' = h + 1 /\ t' = t /\ h < t
  BY WorkerMoves
<1>5. Len(admitted) - h <= NumSlots - 1 /\ t <= Len(admitted) /\ Len(admitted) \in Nat
  BY CountersFacts, CountersOrder, CountersType
<1> HIDE DEF h, t
<1>6. CASE t' = t /\ h' = h
  <2>1. UNCHANGED <<cfg.rx_head, cfg.rx_tail>>
    BY <1>1, <1>2, <1>6
  <2>2. QED BY <1>6, <2>1 DEF RxRing!ringVars, RingAt, h, t
<1>7. CASE t' = t + 1 /\ h' = h /\ t + 1 - h <= NumSlots - 1
  <2>1. (cfg.rx_tail + UDP_PACKET_SIZE) % RING_BUFFER_SIZE # cfg.rx_head
    BY <1>1, <1>7, NotFull
  <2>2. cfg'.rx_tail = Advance(cfg.rx_tail, UDP_PACKET_SIZE, RING_BUFFER_SIZE)
        /\ cfg'.rx_head = cfg.rx_head
    BY <1>1, <1>2, <1>7, OffsetNext
  <2>3. t' - h' = t - h + 1
    BY <1>1, <1>7
  <2>4. RxRing!Push
    BY <2>1, <2>2, <2>3 DEF RxRing!Push, RxRing!ringbuffer_full, RxRing!ringbuffer_push,
                        RxRing!Advance, Advance, RingAt, h, t
  <2>5. QED BY <2>4 DEF RxRing!RingNext
<1>8. CASE h' = h + 1 /\ t' = t /\ h < t
  <2>1. cfg.rx_head # cfg.rx_tail
    <3>1. t - h <= NumSlots - 1
      BY <1>1, <1>5, SlotFacts
    <3>2. QED BY <1>1, <1>8, <3>1, NotEmpty
  <2>2. cfg'.rx_head = Advance(cfg.rx_head, UDP_PACKET_SIZE, RING_BUFFER_SIZE)
        /\ cfg'.rx_tail = cfg.rx_tail
    BY <1>1, <1>2, <1>8, OffsetNext
  <2>3. t' - h' = t - h - 1
    BY <1>1, <1>8
  <2>4. RxRing!Pop
    BY <2>1, <2>2, <2>3 DEF RxRing!Pop, RxRing!ringbuffer_empty, RxRing!ringbuffer_pop,
                        RxRing!Advance, Advance, RingAt, h, t
  <2>5. QED BY <2>4 DEF RxRing!RingNext
<1>9. QED BY <1>3, <1>4, <1>6, <1>7, <1>8

\* ... and the transmit ring with Handed and Fetched.
LEMMA TxRingStep ==
  ASSUME WholeSlots, TypeInv, IndexInv, NoOverrun', [Next]_vars
  PROVE  [TxRing!RingNext]_(TxRing!ringVars)
<1> DEFINE h == Fetched
           t == Handed
<1>1. /\ t \in Nat /\ h \in Nat /\ h <= t
      /\ cfg.tx_tail = OffsetOf(t) /\ cfg.tx_head = OffsetOf(h)
  BY CountersFacts
<1>2. cfg'.tx_tail = OffsetOf(t') /\ cfg'.tx_head = OffsetOf(h')
  BY DEF NoOverrun, OffsetOf
<1>3. \/ t' = t
      \/ t' = t + 1 /\ h' = h /\ t + 1 - h <= NumSlots - 1
  BY WorkerMoves
<1>4. \/ h' = h
      \/ h' = h + 1 /\ t' = t /\ h < t
  BY FetchedMoves
<1>5. echoed - h <= NumSlots - 1 /\ t <= echoed /\ echoed \in Nat
  BY CountersFacts, CountersOrder, CountersType
<1> HIDE DEF h, t
<1>6. CASE t' = t /\ h' = h
  <2>1. UNCHANGED <<cfg.tx_head, cfg.tx_tail>>
    BY <1>1, <1>2, <1>6
  <2>2. QED BY <1>6, <2>1 DEF TxRing!ringVars, RingAt, h, t
<1>7. CASE t' = t + 1 /\ h' = h /\ t + 1 - h <= NumSlots - 1
  <2>1. (cfg.tx_tail + UDP_PACKET_SIZE) % RING_BUFFER_SIZE # cfg.tx_head
    BY <1>1, <1>7, NotFull
  <2>2. cfg'.tx_tail = Advance(cfg.tx_tail, UDP_PACKET_SIZE, RING_BUFFER_SIZE)
        /\ cfg'.tx_head = cfg.tx_head
    BY <1>1, <1>2, <1>7, OffsetNext
  <2>3. t' - h' = t - h + 1
    BY <1>1, <1>7
  <2>4. TxRing!Push
    BY <2>1, <2>2, <2>3 DEF TxRing!Push, TxRing!ringbuffer_full, TxRing!ringbuffer_push,
                        TxRing!Advance, Advance, RingAt, h, t
  <2>5. QED BY <2>4 DEF TxRing!RingNext
<1>8. CASE h' = h + 1 /\ t' = t /\ h < t
  <2>1. cfg.tx_head # cfg.tx_tail
    <3>1. t - h <= NumSlots - 1
      BY <1>1, <1>5, SlotFacts
    <3>2. QED BY <1>1, <1>8, <3>1, NotEmpty
  <2>2. cfg'.tx_head = Advance(cfg.tx_head, UDP_PACKET_SIZE, RING_BUFFER_SIZE)
        /\ cfg'.tx_tail = cfg.tx_tail
    BY <1>1, <1>2, <1>8, OffsetNext
  <2>3. t' - h' = t - h - 1
    BY <1>1, <1>8
  <2>4. TxRing!Pop
    BY <2>1, <2>2, <2>3 DEF TxRing!Pop, TxRing!ringbuffer_empty, TxRing!ringbuffer_pop,
                        TxRing!Advance, Advance, RingAt, h, t
  <2>5. QED BY <2>4 DEF TxRing!RingNext
<1>9. QED BY <1>3, <1>4, <1>6, <1>7, <1>8

(***************************************************************************)
(* For every configuration with whole entries both shared rings behave as   *)
(* the ring of the library (ring_buffer.h), although the engines (rx.c,     *)
(* tx.c) and the worker (app_main.c:150-168) each move one offset and decide *)
(* on an old copy of the other: no push into a full ring, no pop from an     *)
(* empty one, and no lost update.                                            *)
(***************************************************************************)
THEOREM RingsCorrect ==
  ASSUME WholeSlots
  PROVE  Spec => RingsSafe
<1>1. Init => RxRing!RingInit /\ TxRing!RingInit
  <2> SUFFICES ASSUME Init PROVE RxRing!RingInit /\ TxRing!RingInit
    OBVIOUS
  <2>2. /\ Len(admitted) = 0 /\ Len(sent) = 0 /\ echoed = 0
        /\ rx.pc = "start" /\ tx.pc = "start" /\ worker = "configure"
        /\ cfg.rx_head = 0 /\ cfg.rx_tail = 0 /\ cfg.tx_head = 0 /\ cfg.tx_tail = 0
    <3>1. cfg.rx_head = 0 /\ cfg.rx_tail = 0 /\ cfg.tx_head = 0 /\ cfg.tx_tail = 0
      BY DEF Init, MetaInit
    <3>2. Len(admitted) = 0 /\ rx.pc = "start"
      BY DEF Init, RxInit
    <3>3. Len(sent) = 0 /\ tx.pc = "start"
      BY DEF Init, TxInit
    <3>4. QED BY <3>1, <3>2, <3>3 DEF Init, HostInit
  <2>3. Published = 0 /\ Fetched = 0
    BY <2>2 DEF Published, Fetched, Count
  <2>4. Released = 0 /\ Handed = 0
    <3>1. Count(worker = "write_tx") = 0
      BY <2>2 DEF Count
    <3>2. Count(worker \in {"write_tx", "write_rx"}) = 0
      BY <2>2 DEF Count
    <3>3. QED BY <2>2, <3>1, <3>2 DEF Released, Handed
  <2>5. QED BY <2>2, <2>3, <2>4 DEF RxRing!RingInit, TxRing!RingInit, RingAt
<1>2. /\ TypeInv /\ IndexInv /\ (TypeInv /\ IndexInv)' /\ [Next]_vars
      => /\ [RxRing!RingNext]_(RxRing!ringVars)
         /\ [TxRing!RingNext]_(TxRing!ringVars)
  BY RxRingStep, TxRingStep DEF IndexInv
<1>3. QED
  BY <1>1, <1>2, IndexInvariant, PTL
     DEF Spec, RingsSafe, RxRing!RingSpec, TxRing!RingSpec
==============================================================================
