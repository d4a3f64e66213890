----------------------------- MODULE HostWorker ------------------------------
(***************************************************************************)
(* The worker thread of the host process (user/app_main.c, udp_worker):     *)
(* configure the device, raise the start signal, then poll both rings and   *)
(* copy a packet from the receive ring to the transmit ring whenever one is *)
(* there and there is room.  Every nn_readl and nn_writel is a step of its  *)
(* own.  The device writes are posted and the reads are not, and PCIe lets  *)
(* no read pass a write, so a write is visible before the worker's next      *)
(* read returns: a write that lands late is the same as a write made late.   *)
(***************************************************************************)
EXTENDS DeviceMeta

VARIABLES worker,   \* where the worker is
          ring_rx,  \* its view of the receive ring
          ring_tx,  \* its view of the transmit ring
          echoed    \* history: how many packets it has copied

hostVars == <<worker, ring_rx, ring_tx, echoed>>

WorkerPc == {"configure", "start", "read_rx", "read_tx", "check",
             "write_tx", "write_rx", "exit"}

HostTypeOK ==
    /\ worker \in WorkerPc
    /\ ring_rx \in ringbuffer_t(Offsets)
    /\ ring_tx \in ringbuffer_t(Offsets)
    /\ echoed \in Nat

HostInit ==
    /\ worker = "configure"
    /\ ring_rx = [entry_size |-> 0, capacity |-> 0, head |-> 0, tail |-> 0]
    /\ ring_tx = [entry_size |-> 0, capacity |-> 0, head |-> 0, tail |-> 0]
    /\ echoed = 0

\* The device symbol cannot be mapped: the thread returns.
HostMapFails ==
    /\ worker = "configure"
    /\ worker' = "exit"
    /\ UNCHANGED <<cfg, rx_mem, tx_mem, ring_rx, ring_tx, echoed>>

\* The set-up of udp_worker and configure_device up to its barrier.
HostConfigure ==
    /\ worker = "configure"
    /\ worker' = "start"
    /\ ring_rx' = [ring_rx EXCEPT !.capacity = RING_BUFFER_SIZE,
                                  !.entry_size = UDP_PACKET_SIZE]
    /\ ring_tx' = [ring_tx EXCEPT !.capacity = RING_BUFFER_SIZE,
                                  !.entry_size = UDP_PACKET_SIZE]
    /\ cfg' = [cfg EXCEPT !.packet_size = UDP_PACKET_SIZE,
                          !.buffer_size = RING_BUFFER_SIZE,
                          !.rx_head = 0, !.rx_tail = 0,
                          !.tx_head = 0, !.tx_tail = 0]
    /\ UNCHANGED <<rx_mem, tx_mem, echoed>>

HostStart ==
    /\ worker = "start"
    /\ worker' = "read_rx"
    /\ cfg' = [cfg EXCEPT !.start_signal = 1]
    /\ UNCHANGED <<rx_mem, tx_mem, ring_rx, ring_tx, echoed>>

HostReadRx ==
    /\ worker = "read_rx"
    /\ worker' = "read_tx"
    /\ ring_rx' = [ring_rx EXCEPT !.tail = cfg.rx_tail]
    /\ UNCHANGED <<cfg, rx_mem, tx_mem, ring_tx, echoed>>

HostReadTx ==
    /\ worker = "read_tx"
    /\ worker' = "check"
    /\ ring_tx' = [ring_tx EXCEPT !.head = cfg.tx_head]
    /\ UNCHANGED <<cfg, rx_mem, tx_mem, ring_rx, echoed>>

\* Nothing to echo, or no room: poll again.
HostSkip ==
    /\ worker = "check"
    /\ ringbuffer_empty(ring_rx) \/ ringbuffer_full(ring_tx)
    /\ worker' = "read_rx"
    /\ UNCHANGED <<cfg, rx_mem, tx_mem, ring_rx, ring_tx, echoed>>

\* memcpy, ringbuffer_pop, ringbuffer_push.
HostEcho ==
    /\ worker = "check"
    /\ ~ ringbuffer_empty(ring_rx)
    /\ ~ ringbuffer_full(ring_tx)
    /\ worker' = "write_tx"
    /\ tx_mem' = Store(tx_mem, ring_tx.tail, PacketOffsets,
                       [b \in PacketOffsets |-> rx_mem[ring_rx.head + b]])
    /\ ring_rx' = ringbuffer_pop(ring_rx)
    /\ ring_tx' = ringbuffer_push(ring_tx)
    /\ echoed' = echoed + 1
    /\ UNCHANGED <<cfg, rx_mem>>

\* Mutant: the new tail is not written to the device.
HostWriteTxLost ==
    /\ worker = "write_tx"
    /\ worker' = "write_rx"
    /\ UNCHANGED <<cfg, rx_mem, tx_mem, ring_rx, ring_tx, echoed>>

HostWriteTx ==
    /\ worker = "write_tx"
    /\ worker' = "write_rx"
    /\ cfg' = [cfg EXCEPT !.tx_tail = ring_tx.tail]
    /\ UNCHANGED <<rx_mem, tx_mem, ring_rx, ring_tx, echoed>>

\* Mutant: writes the tail it read back with the head.
HostWriteRxBoth ==
    /\ worker = "write_rx"
    /\ worker' = "read_rx"
    /\ cfg' = [cfg EXCEPT !.rx_head = ring_rx.head, !.rx_tail = ring_rx.tail]
    /\ UNCHANGED <<rx_mem, tx_mem, ring_rx, ring_tx, echoed>>

HostWriteRx ==
    /\ worker = "write_rx"
    /\ worker' = "read_rx"
    /\ cfg' = [cfg EXCEPT !.rx_head = ring_rx.head]
    /\ UNCHANGED <<rx_mem, tx_mem, ring_rx, ring_tx, echoed>>

HostNext ==
    \/ HostMapFails
    \/ HostConfigure
    \/ HostStart
    \/ HostReadRx
    \/ HostReadTx
    \/ HostSkip
    \/ HostEcho
    \/ HostWriteTx
    \/ HostWriteRx

-----------------------------------------------------------------------------
\* How many receive entries the worker has given back and how many transmit
\* entries it has handed over, as far as the device can see.
Released == echoed - Count(worker \in {"write_tx", "write_rx"})
Handed   == echoed - Count(worker = "write_tx")
==============================================================================
