--------------------------- MODULE EchoMultiProofs ---------------------------
(***************************************************************************)
(* The multi-context echo path, for every number of contexts.  In whatever  *)
(* order contexts run again: its types, its configuration and its packet     *)
(* buffers.  With whole entries, and where the contexts of an engine run     *)
(* again in the order in which the CLS served their reads (InOrder): the     *)
(* indices, what the rings and the packets in hand hold, and that EchoMulti  *)
(* implements UnorderedEcho.                                                 *)
(***************************************************************************)
EXTENDS EchoMulti, RingLemmas, FiniteSetTheorems

USE SizesAssumption, PrependAssumption, RxMultiAssumption, TxMultiAssumption

RxStep   == RxNext   /\ UNCHANGED <<tx_mem, txVars, hostVars>>
TxStep   == TxNext   /\ UNCHANGED <<rx_mem, rxVars, hostVars>>
HostStep == HostNext /\ UNCHANGED <<rxVars, txVars>>

(***************************************************************************)
(* Types.  As on the single-context path, TypeOK needs the configuration,   *)
(* the packets in hand and the count of the packet buffers in use.           *)
(***************************************************************************)
Configured == worker \notin {"configure", "exit"}

HostConfigInv ==
    /\ Configured => /\ cfg.packet_size = UDP_PACKET_SIZE
                     /\ cfg.buffer_size = RING_BUFFER_SIZE
                     /\ ring_rx.entry_size = UDP_PACKET_SIZE
                     /\ ring_rx.capacity = RING_BUFFER_SIZE
                     /\ ring_tx.entry_size = UDP_PACKET_SIZE
                     /\ ring_tx.capacity = RING_BUFFER_SIZE
    /\ cfg.start_signal # 0 <=> Configured /\ worker # "start"

RxConfigInv ==
    /\ rxl.init # 0 => /\ cfg.start_signal # 0
                       /\ rxl.packet_size = UDP_PACKET_SIZE
                       /\ rxl.buffer_capacity = RING_BUFFER_SIZE
    /\ \A c \in RxContexts : rxc[c].pc # "start" => rxl.init # 0

TxConfigInv ==
    /\ txl.init # 0 => /\ cfg.start_signal # 0
                       /\ txl.packet_size = UDP_PACKET_SIZE
                       /\ txl.buffer_capacity = RING_BUFFER_SIZE
    /\ \A c \in TxContexts : txc[c].pc # "start" => txl.init # 0

\* A context past the filter has a packet.
RxHandsInv ==
    \A c \in RxContexts :
        rxc[c].pc \in {"head", "resume", "dma", "publish"} => rxc[c].pkt \in Packets

\* The queue q lists the contexts W, each once.
Queued(q, W) ==
    /\ \A i \in 1 .. Len(q) : q[i] \in W
    /\ \A i, j \in 1 .. Len(q) : q[i] = q[j] => i = j
    /\ \A c \in W : \E i \in 1 .. Len(q) : q[i] = c

\* The contexts with a read under way are in the queue.
RxWaiting == {c \in RxContexts : rxc[c].pc = "resume"}
TxWaiting == {c \in TxContexts : txc[c].pc = "resume"}

RxQueueInv == Queued(rxq, RxWaiting)
TxQueueInv == Queued(txq, TxWaiting)

ConfigInv == HostConfigInv /\ RxConfigInv /\ TxConfigInv

TypeInv == /\ TypeOK /\ ConfigInv /\ RxHandsInv /\ BuffersConserved
           /\ RxQueueInv /\ TxQueueInv

RxOthers(c) == \A d \in RxContexts : d # c => rxc'[d] = rxc[d]
TxOthers(c) == \A d \in TxContexts : d # c => txc'[d] = txc[d]

-----------------------------------------------------------------------------
\* The bytes of a received frame are bytes the rings may hold.
LEMMA PacketBytesType ==
  ASSUME NEW p \in Packets
  PROVE  PacketBytes(p) \in [PacketOffsets -> Bytes]
BY DEF PacketBytes, Bytes

\* The contexts' queue moves on by one when its head runs again.
LEMMA RemoveHead ==
  ASSUME NEW S, NEW q \in Seq(S), q # <<>>
  PROVE  RemoveFirst(q, Head(q)) = Tail(q)
<1> DEFINE I == {i \in 1 .. Len(q) : q[i] = Head(q)}
<1>1. 1 \in I /\ \A i \in I : 1 <= i /\ i \in Nat
  OBVIOUS
<1>2. Min(I) = 1
  <2>1. \A x \in I : (\A y \in I : x <= y) <=> x = 1
    BY <1>1
  <2> HIDE DEF I
  <2>2. QED BY <1>1, <2>1 DEF Min
<1>3. RemoveFirst(q, Head(q)) = RemoveAt(q, 1)
  BY <1>1, <1>2 DEF RemoveFirst, SelectInSeq
<1>4. RemoveAt(q, 1) = Tail(q)
  BY DEF RemoveAt
<1>5. QED BY <1>3, <1>4

\* What is left of a queue without its head.
LEMMA TailFacts ==
  ASSUME NEW S, NEW q \in Seq(S), q # <<>>
  PROVE  /\ Tail(q) \in Seq(S) /\ Len(Tail(q)) = Len(q) - 1 /\ Len(q) \in Nat \ {0}
         /\ Head(q) = q[1]
         /\ \A i \in 1 .. (Len(q) - 1) : Tail(q)[i] = q[i + 1]
OBVIOUS

\* A queue with one more at its end.
LEMMA AppendFacts ==
  ASSUME NEW S, NEW q \in Seq(S), NEW e \in S
  PROVE  /\ Append(q, e) \in Seq(S) /\ Len(Append(q, e)) = Len(q) + 1 /\ Len(q) \in Nat
         /\ \A i \in 1 .. Len(q) : Append(q, e)[i] = q[i]
         /\ Append(q, e)[Len(q) + 1] = e
OBVIOUS

\* A context joins the queue.
LEMMA QueueJoin ==
  ASSUME NEW S, NEW q \in Seq(S), NEW W \in SUBSET S, Queued(q, W),
         NEW c \in S, c \notin W
  PROVE  Append(q, c) \in Seq(S) /\ Queued(Append(q, c), W \cup {c})
<1> DEFINE p == Append(q, c)
<1>1. /\ p \in Seq(S) /\ Len(p) = Len(q) + 1 /\ Len(q) \in Nat
      /\ \A i \in 1 .. Len(q) : p[i] = q[i]
      /\ p[Len(q) + 1] = c
  BY AppendFacts
<1> HIDE DEF p
<1>2. \A i \in 1 .. Len(p) : i \in 1 .. Len(q) \/ i = Len(q) + 1
  BY <1>1
<1>3. 1 .. Len(q) \subseteq 1 .. Len(p) /\ Len(q) + 1 \in 1 .. Len(p)
  BY <1>1
<1>4. \A i \in 1 .. Len(q) : q[i] \in W /\ q[i] # c
  BY DEF Queued
<1>5. \A i \in 1 .. Len(p) : p[i] \in W \cup {c}
  BY <1>1, <1>2, <1>4
<1>6. \A i, j \in 1 .. Len(p) : p[i] = p[j] => i = j
  BY <1>1, <1>2, <1>4 DEF Queued
<1>7. \A d \in W \cup {c} : \E i \in 1 .. Len(p) : p[i] = d
  BY <1>1, <1>3 DEF Queued
<1>8. QED BY <1>1, <1>5, <1>6, <1>7 DEF Queued, p

\* What is left of a queue without its i-th element.
LEMMA RemoveAtFacts ==
  ASSUME NEW S, NEW q \in Seq(S), NEW i \in 1 .. Len(q)
  PROVE  /\ RemoveAt(q, i) \in Seq(S) /\ Len(RemoveAt(q, i)) = Len(q) - 1
         /\ \A j \in 1 .. (Len(q) - 1) :
                RemoveAt(q, i)[j] = IF j < i THEN q[j] ELSE q[j + 1]
<1> DEFINE l == SubSeq(q, 1, i - 1)
           r == SubSeq(q, i + 1, Len(q))
<1>1. /\ Len(q) \in Nat /\ i \in Nat /\ i >= 1 /\ i <= Len(q)
      /\ \A j \in 1 .. Len(q) : q[j] \in S
  OBVIOUS
<1>2. /\ l \in Seq(S) /\ Len(l) = i - 1
      /\ \A j \in 1 .. (i - 1) : l[j] = q[j]
  BY <1>1
<1>3. /\ r \in Seq(S) /\ Len(r) = Len(q) - i
      /\ \A j \in 1 .. (Len(q) - i) : r[j] = q[i + j]
  BY <1>1
<1> HIDE DEF l, r
<1>4. /\ l \o r \in Seq(S) /\ Len(l \o r) = Len(q) - 1
      /\ \A j \in 1 .. (Len(q) - 1) :
             (l \o r)[j] = IF j <= i - 1 THEN l[j] ELSE r[j - (i - 1)]
  BY <1>1, <1>2, <1>3
<1>5. ASSUME NEW j \in 1 .. (Len(q) - 1)
      PROVE  (l \o r)[j] = IF j < i THEN q[j] ELSE q[j + 1]
  <2>1. CASE j < i
    BY <1>1, <1>2, <1>4, <2>1
  <2>2. CASE ~ (j < i)
    <3>1. j - (i - 1) \in 1 .. (Len(q) - i) /\ i + (j - (i - 1)) = j + 1
      BY <1>1, <2>2
    <3>2. (l \o r)[j] = r[j - (i - 1)]
      BY <1>1, <1>4, <2>2
    <3>3. QED BY <1>3, <2>2, <3>1, <3>2
  <2>3. QED BY <2>1, <2>2
<1>6. RemoveAt(q, i) = l \o r
  BY DEF RemoveAt, l, r
<1>7. QED BY <1>4, <1>5, <1>6

\* A context leaves the queue, wherever in it it stands.
LEMMA QueueLeave ==
  ASSUME NEW S, NEW q \in Seq(S), NEW W \in SUBSET S, Queued(q, W),
         NEW c \in W
  PROVE  RemoveFirst(q, c) \in Seq(S) /\ Queued(RemoveFirst(q, c), W \ {c})
<1>1. PICK k \in 1 .. Len(q) : q[k] = c
  BY DEF Queued
<1> DEFINE I == {i \in 1 .. Len(q) : q[i] = c}
           p == RemoveAt(q, k)
<1>2. I = {k}
  BY <1>1 DEF Queued
<1>3. Min(I) = k
  <2>1. k \in I /\ \A x \in I : x = k /\ x <= x
    BY <1>2
  <2> HIDE DEF I
  <2>2. QED BY <2>1 DEF Min
<1>4. RemoveFirst(q, c) = p
  BY <1>1, <1>2, <1>3 DEF RemoveFirst, SelectInSeq
<1>5. /\ p \in Seq(S) /\ Len(p) = Len(q) - 1 /\ Len(q) \in Nat
      /\ \A j \in 1 .. (Len(q) - 1) : p[j] = IF j < k THEN q[j] ELSE q[j + 1]
  BY RemoveAtFacts
<1> HIDE DEF p, I
<1> DEFINE At(j) == IF j < k THEN j ELSE j + 1
<1>6. \A j \in 1 .. Len(p) : /\ At(j) \in 1 .. Len(q) /\ At(j) # k
                             /\ p[j] = q[At(j)]
  BY <1>5
<1>7. \A i, j \in 1 .. Len(p) : At(i) = At(j) => i = j
  BY <1>5
<1>8. \A i \in 1 .. Len(q) : i # k => \E j \in 1 .. Len(p) : At(j) = i
  <2> SUFFICES ASSUME NEW i \in 1 .. Len(q), i # k
               PROVE  \E j \in 1 .. Len(p) : At(j) = i
    OBVIOUS
  <2>1. CASE i < k
    <3>1. i \in 1 .. Len(p) /\ At(i) = i
      BY <1>5, <2>1
    <3>2. QED BY <3>1
  <2>2. CASE i > k
    <3>1. i - 1 \in 1 .. Len(p) /\ At(i - 1) = i
      BY <1>5, <2>2
    <3>2. QED BY <3>1
  <2>3. QED BY <2>1, <2>2
<1> HIDE DEF At
<1>9. ASSUME NEW j \in 1 .. Len(p)
      PROVE  p[j] \in W \ {c}
  <2>1. At(j) \in 1 .. Len(q) /\ At(j) # k /\ p[j] = q[At(j)]
    BY <1>6
  <2>2. q[At(j)] \in W /\ (q[At(j)] = q[k] => At(j) = k)
    BY <2>1 DEF Queued
  <2>3. QED BY <1>1, <2>1, <2>2
<1>10. ASSUME NEW i \in 1 .. Len(p), NEW j \in 1 .. Len(p), p[i] = p[j]
       PROVE  i = j
  <2>1. /\ At(i) \in 1 .. Len(q) /\ p[i] = q[At(i)]
        /\ At(j) \in 1 .. Len(q) /\ p[j] = q[At(j)]
    BY <1>6
  <2>2. At(i) = At(j)
    BY <1>10, <2>1 DEF Queued
  <2>3. QED BY <1>7, <2>2
<1>11. ASSUME NEW d \in W \ {c}
       PROVE  \E j \in 1 .. Len(p) : p[j] = d
  <2>1. PICK i \in 1 .. Len(q) : q[i] = d
    BY DEF Queued
  <2>2. PICK j \in 1 .. Len(p) : At(j) = i
    BY <1>1, <1>8, <2>1
  <2>3. QED BY <1>6, <2>1, <2>2
<1>12. QED BY <1>4, <1>5, <1>9, <1>10, <1>11 DEF Queued

-----------------------------------------------------------------------------
(***************************************************************************)
(* What each step of a receive context does to the contexts.                *)
(***************************************************************************)
LEMMA RxMain0Does ==
  ASSUME rxc \in [RxContexts -> RxContext], rxl \in RxLocal, RxMain0
  PROVE  /\ rxc[rx_ctx0].pc = "start" /\ cfg.start_signal # 0
         /\ rxc'[rx_ctx0].pc = "receive" /\ RxOthers(rx_ctx0)
         /\ rxl'.init = 1 /\ rxl'.packet_size = cfg.packet_size
         /\ rxl'.buffer_capacity = cfg.buffer_size
         /\ rxl'.shadow_tail = rxl.shadow_tail
         /\ UNCHANGED <<cfg, rx_mem, rxq, arrived, admitted>>
BY DEF RxMain0, RxContext, RxLocal, RxOthers

\* A context after context 0 begins to receive.
LEMMA RxMainDoes ==
  ASSUME rxc \in [RxContexts -> RxContext], NEW c \in RxContexts, RxMain(c)
  PROVE  /\ rxc[c].pc = "start" /\ rxl.init # 0
         /\ rxc'[c].pc = "receive" /\ RxOthers(c)
         /\ UNCHANGED <<cfg, rx_mem, rxl, rxq, arrived, admitted>>
BY DEF RxMain, RxContext, RxOthers

\* A packet has passed the filter.
LEMMA RxAllowDoes ==
  ASSUME rxc \in [RxContexts -> RxContext], NEW c \in RxContexts, NEW f, RxAllow(c, f)
  PROVE  /\ rxc[c].pc = "receive" /\ arrived < MaxFrames /\ arrived' = arrived + 1
         /\ rxc'[c].pc = "head" /\ RxOthers(c)
         /\ rxc'[c].pkt = [id |-> arrived + 1, hdr |-> modify_packet_header(f)]
         /\ UNCHANGED <<cfg, rx_mem, rxl, rxq, admitted>>
BY DEF RxAllow, RxContext, RxOthers

\* The head is read, and the context queues up to run again.
LEMMA RxReadHeadDoes ==
  ASSUME rxc \in [RxContexts -> RxContext], NEW c \in RxContexts, RxReadHead(c)
  PROVE  /\ rxc[c].pc = "head" /\ rxq' = Append(rxq, c)
         /\ rxc'[c].pc = "resume" /\ rxc'[c].head = cfg.rx_head
         /\ rxc'[c].pkt = rxc[c].pkt /\ RxOthers(c)
         /\ UNCHANGED <<cfg, rx_mem, rxl, arrived, admitted>>
BY DEF RxReadHead, RxContext, RxOthers

\* The context that runs again is the first in the queue.
LEMMA RxFirst ==
  ASSUME InOrder, RxQueueInv, rxq \in Seq(RxContexts), NEW c \in RxContexts,
         rxc[c].pc = "resume", Resumes(rxq, c)
  PROVE  rxq # <<>> /\ c = Head(rxq) /\ RemoveFirst(rxq, c) = Tail(rxq)
<1>1. rxq # <<>>
  BY DEF RxQueueInv, Queued, RxWaiting
<1>2. QED BY <1>1, RemoveHead DEF Resumes

\* The ring looked full.
LEMMA RxRetryDoes ==
  ASSUME RxQueueInv, rxq \in Seq(RxContexts),
         rxc \in [RxContexts -> RxContext], NEW c \in RxContexts, RxRetry(c)
  PROVE  /\ rxc[c].pc = "resume" /\ rxq' = RemoveFirst(rxq, c)
         /\ InOrder => rxq # <<>> /\ c = Head(rxq) /\ rxq' = Tail(rxq)
         /\ rxc'[c].pc = "head" /\ rxc'[c].pkt = rxc[c].pkt /\ RxOthers(c)
         /\ UNCHANGED <<cfg, rx_mem, rxl, arrived, admitted>>
<1>1. rxc[c].pc = "resume" /\ Resumes(rxq, c)
  BY DEF RxRetry
<1>2. InOrder => rxq # <<>> /\ c = Head(rxq) /\ RemoveFirst(rxq, c) = Tail(rxq)
  BY <1>1, RxFirst
<1>3. QED BY <1>1, <1>2 DEF RxRetry, RxContext, RxOthers

\* The ring did not: an entry is reserved.
LEMMA RxReserveDoes ==
  ASSUME RxQueueInv, rxq \in Seq(RxContexts), rxl \in RxLocal,
         rxc \in [RxContexts -> RxContext], NEW c \in RxContexts, RxReserve(c)
  PROVE  /\ rxc[c].pc = "resume" /\ rxq' = RemoveFirst(rxq, c)
         /\ InOrder => rxq # <<>> /\ c = Head(rxq) /\ rxq' = Tail(rxq)
         /\ UpdatedTail # rxc[c].head
         /\ rxc'[c].pc = "dma" /\ rxc'[c].tail = rxl.shadow_tail
         /\ rxc'[c].updated_tail = UpdatedTail /\ rxc'[c].pkt = rxc[c].pkt
         /\ rxc'[c].pending = DmaParts(rxl.packet_size, RxCtmWindow)
         /\ RxOthers(c)
         /\ rxl' = [rxl EXCEPT !.shadow_tail = UpdatedTail]
         /\ rxl'.shadow_tail = UpdatedTail /\ rxl'.init = rxl.init
         /\ rxl'.packet_size = rxl.packet_size
         /\ rxl'.buffer_capacity = rxl.buffer_capacity
         /\ admitted' = Append(admitted, rxc[c].pkt)
         /\ UNCHANGED <<cfg, rx_mem, arrived>>
<1>1. rxc[c].pc = "resume" /\ Resumes(rxq, c)
  BY DEF RxReserve
<1>2. InOrder => rxq # <<>> /\ c = Head(rxq) /\ RemoveFirst(rxq, c) = Tail(rxq)
  BY <1>1, RxFirst
<1>3. QED BY <1>1, <1>2 DEF RxReserve, RxContext, RxLocal, RxOthers

\* A part of the packet reaches the host.
LEMMA RxDmaWriteDoes ==
  ASSUME rxc \in [RxContexts -> RxContext], NEW c \in RxContexts, NEW part,
         RxDmaWrite(c, part)
  PROVE  /\ rxc[c].pc = "dma" /\ part \in rxc[c].pending
         /\ rx_mem' = Store(rx_mem, rxc[c].tail, part, PacketBytes(rxc[c].pkt))
         /\ rxc'[c].pc = "dma" /\ rxc'[c].pending = rxc[c].pending \ {part}
         /\ rxc'[c].tail = rxc[c].tail /\ rxc'[c].updated_tail = rxc[c].updated_tail
         /\ rxc'[c].pkt = rxc[c].pkt /\ RxOthers(c)
         /\ UNCHANGED <<cfg, rxl, rxq, arrived, admitted>>
BY DEF RxDmaWrite, RxContext, RxOthers

\* All parts have, and it is the context's turn.
LEMMA RxTurnDoes ==
  ASSUME rxc \in [RxContexts -> RxContext], NEW c \in RxContexts, RxTurn(c)
  PROVE  /\ rxc[c].pc = "dma" /\ rxc[c].pending = {} /\ cfg.rx_tail = rxc[c].tail
         /\ rxc'[c].pc = "publish" /\ rxc'[c].pending = rxc[c].pending
         /\ rxc'[c].tail = rxc[c].tail /\ rxc'[c].updated_tail = rxc[c].updated_tail
         /\ rxc'[c].pkt = rxc[c].pkt /\ RxOthers(c)
         /\ UNCHANGED <<cfg, rx_mem, rxl, rxq, arrived, admitted>>
BY DEF RxTurn, RxContext, RxOthers

\* It publishes its entry.
LEMMA RxPublishDoes ==
  ASSUME cfg \in device_meta_t, rxc \in [RxContexts -> RxContext],
         NEW c \in RxContexts, RxPublish(c)
  PROVE  /\ rxc[c].pc = "publish"
         /\ cfg' = [cfg EXCEPT !.rx_tail = rxc[c].updated_tail]
         /\ cfg'.rx_tail = rxc[c].updated_tail
         /\ cfg'.rx_head = cfg.rx_head /\ cfg'.tx_head = cfg.tx_head
         /\ cfg'.tx_tail = cfg.tx_tail /\ cfg'.start_signal = cfg.start_signal
         /\ cfg'.packet_size = cfg.packet_size /\ cfg'.buffer_size = cfg.buffer_size
         /\ rxc'[c].pc = "receive" /\ RxOthers(c)
         /\ UNCHANGED <<rx_mem, rxl, rxq, arrived, admitted>>
BY DEF RxPublish, RxContext, RxOthers, RxIdle, device_meta_t

-----------------------------------------------------------------------------
(***************************************************************************)
(* What each step of a transmit context does to the contexts.               *)
(***************************************************************************)
LEMMA TxMain0Does ==
  ASSUME txc \in [TxContexts -> TxContext(Bytes)], txl \in TxLocal, TxMain0
  PROVE  /\ txc[tx_ctx0].pc = "start" /\ cfg.start_signal # 0
         /\ txc'[tx_ctx0].pc = "allocate" /\ TxOthers(tx_ctx0)
         /\ txl'.init = 1 /\ txl'.packet_size = cfg.packet_size
         /\ txl'.buffer_capacity = cfg.buffer_size
         /\ txl'.shadow_head = txl.shadow_head
         /\ UNCHANGED <<cfg, tx_mem, txq, pool, nbi, claimed, sent>>
BY DEF TxMain0, TxContext, TxLocal, TxOthers

\* A context after context 0 begins.
LEMMA TxMainDoes ==
  ASSUME txc \in [TxContexts -> TxContext(Bytes)], NEW c \in TxContexts, TxMain(c)
  PROVE  /\ txc[c].pc = "start" /\ txl.init # 0
         /\ txc'[c].pc = "allocate" /\ TxOthers(c)
         /\ UNCHANGED <<cfg, tx_mem, txl, txq, pool, nbi, claimed, sent>>
BY DEF TxMain, TxContext, TxOthers

\* It allocates a packet.
LEMMA TxAllocateDoes ==
  ASSUME txc \in [TxContexts -> TxContext(Bytes)], NEW c \in TxContexts, TxAllocate(c)
  PROVE  /\ txc[c].pc = "allocate" /\ pool > 0 /\ pool' = pool - 1
         /\ txc'[c].pc = "tail" /\ TxOthers(c)
         /\ UNCHANGED <<cfg, tx_mem, txl, txq, nbi, claimed, sent>>
BY DEF TxAllocate, TxContext, TxOthers

\* The tail is read, and the context queues up to run again.
LEMMA TxReadTailDoes ==
  ASSUME txc \in [TxContexts -> TxContext(Bytes)], NEW c \in TxContexts, TxReadTail(c)
  PROVE  /\ txc[c].pc = "tail" /\ txq' = Append(txq, c)
         /\ txc'[c].pc = "resume" /\ txc'[c].tail = cfg.tx_tail /\ TxOthers(c)
         /\ UNCHANGED <<cfg, tx_mem, txl, pool, nbi, claimed, sent>>
BY DEF TxReadTail, TxContext, TxOthers

\* The context that runs again is the first in the queue.
LEMMA TxFirst ==
  ASSUME InOrder, TxQueueInv, txq \in Seq(TxContexts), NEW c \in TxContexts,
         txc[c].pc = "resume", Resumes(txq, c)
  PROVE  txq # <<>> /\ c = Head(txq) /\ RemoveFirst(txq, c) = Tail(txq)
<1>1. txq # <<>>
  BY DEF TxQueueInv, Queued, TxWaiting
<1>2. QED BY <1>1, RemoveHead DEF Resumes

\* The ring looked empty.
LEMMA TxRetryDoes ==
  ASSUME TxQueueInv, txq \in Seq(TxContexts),
         txc \in [TxContexts -> TxContext(Bytes)], NEW c \in TxContexts, TxRetry(c)
  PROVE  /\ txc[c].pc = "resume" /\ txq' = RemoveFirst(txq, c)
         /\ InOrder => txq # <<>> /\ c = Head(txq) /\ txq' = Tail(txq)
         /\ txc'[c].pc = "tail" /\ TxOthers(c)
         /\ UNCHANGED <<cfg, tx_mem, txl, pool, nbi, claimed, sent>>
<1>1. txc[c].pc = "resume" /\ Resumes(txq, c)
  BY DEF TxRetry
<1>2. InOrder => txq # <<>> /\ c = Head(txq) /\ RemoveFirst(txq, c) = Tail(txq)
  BY <1>1, TxFirst
<1>3. QED BY <1>1, <1>2 DEF TxRetry, TxContext, TxOthers

\* The ring did not: an entry is claimed.
LEMMA TxClaimDoes ==
  ASSUME TxQueueInv, txq \in Seq(TxContexts), txl \in TxLocal,
         txc \in [TxContexts -> TxContext(Bytes)], NEW c \in TxContexts, TxClaim(c)
  PROVE  /\ txc[c].pc = "resume" /\ txq' = RemoveFirst(txq, c)
         /\ InOrder => txq # <<>> /\ c = Head(txq) /\ txq' = Tail(txq)
         /\ txl.shadow_head # txc[c].tail
         /\ txc'[c].pc = "dma" /\ txc'[c].head = txl.shadow_head
         /\ txc'[c].updated_head = UpdatedHead
         /\ txc'[c].pending = DmaParts(txl.packet_size, TxCtmWindow)
         /\ TxOthers(c)
         /\ txl' = [txl EXCEPT !.shadow_head = UpdatedHead]
         /\ txl'.shadow_head = UpdatedHead /\ txl'.init = txl.init
         /\ txl'.packet_size = txl.packet_size
         /\ txl'.buffer_capacity = txl.buffer_capacity
         /\ claimed' = claimed + 1
         /\ UNCHANGED <<cfg, tx_mem, pool, nbi, sent>>
<1>1. txc[c].pc = "resume" /\ Resumes(txq, c)
  BY DEF TxClaim
<1>2. InOrder => txq # <<>> /\ c = Head(txq) /\ RemoveFirst(txq, c) = Tail(txq)
  BY <1>1, TxFirst
<1>3. QED BY <1>1, <1>2 DEF TxClaim, TxContext, TxLocal, TxOthers

\* A part of the packet reaches the NIC.
LEMMA TxDmaReadDoes ==
  ASSUME txc \in [TxContexts -> TxContext(Bytes)], NEW c \in TxContexts, NEW part,
         TxDmaRead(c, part)
  PROVE  /\ txc[c].pc = "dma" /\ part \in txc[c].pending
         /\ txc'[c].pc = "dma" /\ txc'[c].pending = txc[c].pending \ {part}
         /\ txc'[c].head = txc[c].head /\ txc'[c].updated_head = txc[c].updated_head
         /\ txc'[c].pkt.data = Fetch(tx_mem, txc[c].head, part, txc[c].pkt.data)
         /\ TxOthers(c)
         /\ UNCHANGED <<cfg, tx_mem, txl, txq, pool, nbi, claimed, sent>>
BY DEF TxDmaRead, TxContext, TxPackets, TxOthers

\* All parts have, and it is the context's turn.
LEMMA TxTurnDoes ==
  ASSUME txc \in [TxContexts -> TxContext(Bytes)], NEW c \in TxContexts, TxTurn(c)
  PROVE  /\ txc[c].pc = "dma" /\ txc[c].pending = {} /\ cfg.tx_head = txc[c].head
         /\ txc'[c].pc = "publish" /\ txc'[c].pending = txc[c].pending
         /\ txc'[c].head = txc[c].head /\ txc'[c].updated_head = txc[c].updated_head
         /\ txc'[c].pkt = [len |-> txl.packet_size + MAC_PREPEND_BYTES,
                           data |-> txc[c].pkt.data]
         /\ TxOthers(c)
         /\ UNCHANGED <<cfg, tx_mem, txl, txq, pool, nbi, claimed, sent>>
BY DEF TxTurn, TxContext, TxPackets, TxOthers

\* It gives its entry back.
LEMMA TxPublishDoes ==
  ASSUME cfg \in device_meta_t, txc \in [TxContexts -> TxContext(Bytes)],
         NEW c \in TxContexts, TxPublish(c)
  PROVE  /\ txc[c].pc = "publish"
         /\ cfg' = [cfg EXCEPT !.tx_head = txc[c].updated_head]
         /\ cfg'.tx_head = txc[c].updated_head
         /\ cfg'.rx_head = cfg.rx_head /\ cfg'.rx_tail = cfg.rx_tail
         /\ cfg'.tx_tail = cfg.tx_tail /\ cfg'.start_signal = cfg.start_signal
         /\ cfg'.packet_size = cfg.packet_size /\ cfg'.buffer_size = cfg.buffer_size
         /\ txc'[c].pc = "send" /\ txc'[c].pkt = txc[c].pkt /\ TxOthers(c)
         /\ UNCHANGED <<tx_mem, txl, txq, pool, nbi, claimed, sent>>
BY DEF TxPublish, TxContext, TxOthers, device_meta_t

\* It hands its packet to the NBI.
LEMMA TxSendDoes ==
  ASSUME txc \in [TxContexts -> TxContext(Bytes)], NEW c \in TxContexts, TxSend(c)
  PROVE  /\ txc[c].pc = "send" /\ sent' = Append(sent, txc[c].pkt) /\ nbi' = nbi + 1
         /\ txc'[c].pc = "allocate" /\ TxOthers(c)
         /\ UNCHANGED <<cfg, tx_mem, txl, txq, pool, claimed>>
BY DEF TxSend, TxContext, TxOthers, TxIdle

-----------------------------------------------------------------------------
\* The initial state is well typed.
LEMMA TypeInit == Init => TypeInv
<1> SUFFICES ASSUME Init PROVE TypeInv
  OBVIOUS
<1> USE DEF Init, MetaInit, RxInit, TxInit, HostInit, RxIdle, TxIdle
<1>0. 0 \in Offsets
  BY DEF Offsets
<1>1. cfg \in device_meta_t /\ rx_mem \in [HostBytes -> Bytes]
      /\ tx_mem \in [HostBytes -> Bytes]
  BY <1>0 DEF device_meta_t, Bytes
<1>2. RxTypeOK
  BY <1>0 DEF RxTypeOK, RxContext, RxLocal
<1>3. TxTypeOK(Bytes)
  <2>1. TxIdle("start") \in TxContext(Bytes)
    BY <1>0 DEF TxContext, TxPackets, Bytes
  <2>2. QED BY <1>0, <2>1 DEF TxTypeOK, TxLocal
<1>4. HostTypeOK
  BY <1>0 DEF HostTypeOK, WorkerPc, ringbuffer_t
<1>5. ConfigInv /\ RxHandsInv /\ RxQueueInv /\ TxQueueInv
  BY DEF ConfigInv, HostConfigInv, RxConfigInv, TxConfigInv, Configured, RxHandsInv,
         RxQueueInv, TxQueueInv, Queued, RxWaiting, TxWaiting
<1>6. BuffersConserved
  <2>1. TxWorking = {}
    BY DEF TxWorking
  <2>2. QED BY <2>1, FS_EmptySet DEF BuffersConserved
<1>7. QED BY <1>1, <1>2, <1>3, <1>4, <1>5, <1>6 DEF TypeInv, TypeOK

\* The parts of the types the receive engine's steps use.
LEMMA RxTypes ==
  ASSUME TypeInv
  PROVE  /\ cfg \in device_meta_t /\ rx_mem \in [HostBytes -> Bytes]
         /\ rxl \in RxLocal /\ rxc \in [RxContexts -> RxContext]
         /\ rxq \in Seq(RxContexts) /\ arrived \in 0 .. MaxFrames
         /\ admitted \in Seq(Packets) /\ RxQueueInv
BY DEF TypeInv, TypeOK, RxTypeOK

\* A receive context joins or leaves the queue, or does neither.
LEMMA RxQueueStep ==
  ASSUME TypeInv, NEW c \in RxContexts, RxOthers(c),
         \/ rxq' = rxq /\ rxc[c].pc # "resume" /\ rxc'[c].pc # "resume"
         \/ rxq' = Append(rxq, c) /\ rxc[c].pc # "resume" /\ rxc'[c].pc = "resume"
         \/ rxq' = RemoveFirst(rxq, c) /\ rxc[c].pc = "resume" /\ rxc'[c].pc # "resume"
  PROVE  rxq' \in Seq(RxContexts) /\ RxQueueInv'
<1>1. rxq \in Seq(RxContexts) /\ Queued(rxq, RxWaiting) /\ RxWaiting \in SUBSET RxContexts
  BY RxTypes DEF RxQueueInv, RxWaiting
<1>2. RxWaiting' = {d \in RxContexts : rxc'[d].pc = "resume"}
  BY DEF RxWaiting
<1>3. CASE rxq' = rxq /\ rxc[c].pc # "resume" /\ rxc'[c].pc # "resume"
  <2>1. RxWaiting' = RxWaiting
    BY <1>2, <1>3 DEF RxOthers, RxWaiting
  <2>2. QED BY <1>1, <1>3, <2>1 DEF RxQueueInv
<1>4. CASE rxq' = Append(rxq, c) /\ rxc[c].pc # "resume" /\ rxc'[c].pc = "resume"
  <2>1. RxWaiting' = RxWaiting \cup {c} /\ c \notin RxWaiting
    BY <1>2, <1>4 DEF RxOthers, RxWaiting
  <2>2. QED BY <1>1, <1>4, <2>1, QueueJoin DEF RxQueueInv
<1>5. CASE rxq' = RemoveFirst(rxq, c) /\ rxc[c].pc = "resume" /\ rxc'[c].pc # "resume"
  <2>1. RxWaiting' = RxWaiting \ {c} /\ c \in RxWaiting
    BY <1>2, <1>5 DEF RxOthers, RxWaiting
  <2>2. QED BY <1>1, <1>5, <2>1, QueueLeave DEF RxQueueInv
<1>6. QED BY <1>3, <1>4, <1>5

\* The parts of the types the transmit engine's steps use.
LEMMA TxTypes ==
  ASSUME TypeInv
  PROVE  /\ cfg \in device_meta_t /\ tx_mem \in [HostBytes -> Bytes]
         /\ txl \in TxLocal /\ txc \in [TxContexts -> TxContext(Bytes)]
         /\ txq \in Seq(TxContexts) /\ pool \in 0 .. TxBuffers /\ nbi \in 0 .. TxBuffers
         /\ claimed \in Nat /\ sent \in Seq(TxPackets(Bytes)) /\ TxQueueInv
BY DEF TypeInv, TypeOK, TxTypeOK

\* A transmit context joins or leaves the queue, or does neither.
LEMMA TxQueueStep ==
  ASSUME TypeInv, NEW c \in TxContexts, TxOthers(c),
         \/ txq' = txq /\ txc[c].pc # "resume" /\ txc'[c].pc # "resume"
         \/ txq' = Append(txq, c) /\ txc[c].pc # "resume" /\ txc'[c].pc = "resume"
         \/ txq' = RemoveFirst(txq, c) /\ txc[c].pc = "resume" /\ txc'[c].pc # "resume"
  PROVE  txq' \in Seq(TxContexts) /\ TxQueueInv'
<1>1. txq \in Seq(TxContexts) /\ Queued(txq, TxWaiting) /\ TxWaiting \in SUBSET TxContexts
  BY TxTypes DEF TxQueueInv, TxWaiting
<1>2. TxWaiting' = {d \in TxContexts : txc'[d].pc = "resume"}
  BY DEF TxWaiting
<1>3. CASE txq' = txq /\ txc[c].pc # "resume" /\ txc'[c].pc # "resume"
  <2>1. TxWaiting' = TxWaiting
    BY <1>2, <1>3 DEF TxOthers, TxWaiting
  <2>2. QED BY <1>1, <1>3, <2>1 DEF TxQueueInv
<1>4. CASE txq' = Append(txq, c) /\ txc[c].pc # "resume" /\ txc'[c].pc = "resume"
  <2>1. TxWaiting' = TxWaiting \cup {c} /\ c \notin TxWaiting
    BY <1>2, <1>4 DEF TxOthers, TxWaiting
  <2>2. QED BY <1>1, <1>4, <2>1, QueueJoin DEF TxQueueInv
<1>5. CASE txq' = RemoveFirst(txq, c) /\ txc[c].pc = "resume" /\ txc'[c].pc # "resume"
  <2>1. TxWaiting' = TxWaiting \ {c} /\ c \in TxWaiting
    BY <1>2, <1>5 DEF TxOthers, TxWaiting
  <2>2. QED BY <1>1, <1>5, <2>1, QueueLeave DEF TxQueueInv
<1>6. QED BY <1>3, <1>4, <1>5

\* The steps of the receive engine keep the types.
LEMMA RxTypeStep ==
  ASSUME TypeInv, RxStep
  PROVE  TypeInv'
<1>1. /\ cfg \in device_meta_t /\ rx_mem \in [HostBytes -> Bytes]
      /\ rxl \in RxLocal /\ rxc \in [RxContexts -> RxContext]
      /\ rxq \in Seq(RxContexts) /\ arrived \in 0 .. MaxFrames
      /\ admitted \in Seq(Packets) /\ RxQueueInv
  BY RxTypes
<1>2. UNCHANGED <<tx_mem, txl, txc, txq, pool, nbi, claimed, sent,
                  worker, ring_rx, ring_tx, echoed>>
  BY DEF RxStep, txVars, hostVars
<1>3. PICK c \in RxContexts : \/ RxProcess(c)
                              \/ \E f \in Frames : RxDrop(c, f) \/ RxAllow(c, f)
  BY DEF RxStep, RxNext
<1>3a. rxc[c] \in RxContext /\ cfg.rx_head \in Offsets
  BY <1>1 DEF device_meta_t
<1>4. /\ rxl.init # 0 => /\ cfg.start_signal # 0
                         /\ rxl.packet_size = UDP_PACKET_SIZE
                         /\ rxl.buffer_capacity = RING_BUFFER_SIZE
      /\ \A d \in RxContexts : rxc[d].pc # "start" => rxl.init # 0
  BY DEF TypeInv, ConfigInv, RxConfigInv
<1>5. ASSUME UNCHANGED cfg \/ RxPublish(c)
      PROVE  /\ cfg' \in device_meta_t
             /\ cfg'.packet_size = cfg.packet_size /\ cfg'.buffer_size = cfg.buffer_size
             /\ cfg'.start_signal = cfg.start_signal
  <2>1. CASE UNCHANGED cfg
    BY <1>1, <2>1
  <2>2. CASE RxPublish(c)
    <3>1. rxc[c].updated_tail \in Offsets
      BY <1>1 DEF RxContext
    <3>2. QED BY <1>1, <2>2, <3>1, RxPublishDoes DEF device_meta_t
  <2>3. QED BY <1>5, <2>1, <2>2
\* What is left to show for each step.
<1>6. ASSUME UNCHANGED cfg \/ RxPublish(c), rx_mem' \in [HostBytes -> Bytes], RxTypeOK',
             RxOthers(c), RxConfigInv', RxQueueInv',
             rxc'[c].pc \in {"head", "resume", "dma", "publish"} => rxc'[c].pkt \in Packets
      PROVE  TypeInv'
  <2>1. TypeOK'
    BY <1>2, <1>5, <1>6 DEF TypeInv, TypeOK, TxTypeOK, HostTypeOK
  <2>2. HostConfigInv' /\ TxConfigInv'
    BY <1>2, <1>5, <1>6 DEF TypeInv, ConfigInv, HostConfigInv, TxConfigInv, Configured
  <2>3. RxHandsInv'
    BY <1>6 DEF TypeInv, RxHandsInv, RxOthers
  <2>4. BuffersConserved' /\ TxQueueInv'
    BY <1>2 DEF TypeInv, BuffersConserved, TxWorking, TxQueueInv, Queued, TxWaiting
  <2>5. QED BY <1>6, <2>1, <2>2, <2>3, <2>4 DEF TypeInv, ConfigInv
\* Steps that change neither the local memory of the engine nor the ring.
<1>7. ASSUME UNCHANGED cfg \/ RxPublish(c), UNCHANGED <<rx_mem, rxl>>, RxOthers(c),
             rxc[c].pc # "start", rxc' \in [RxContexts -> RxContext],
             arrived' \in 0 .. MaxFrames, admitted' \in Seq(Packets),
             \/ rxq' = rxq /\ rxc[c].pc # "resume" /\ rxc'[c].pc # "resume"
             \/ rxq' = Append(rxq, c) /\ rxc[c].pc # "resume" /\ rxc'[c].pc = "resume"
             \/ rxq' = RemoveFirst(rxq, c) /\ rxc[c].pc = "resume" /\ rxc'[c].pc # "resume",
             rxc'[c].pc \in {"head", "resume", "dma", "publish"} => rxc'[c].pkt \in Packets
      PROVE  TypeInv'
  <2>1. rxq' \in Seq(RxContexts) /\ RxQueueInv'
    BY <1>7, RxQueueStep
  <2>2. RxTypeOK'
    BY <1>1, <1>7, <2>1 DEF RxTypeOK
  <2>3. RxConfigInv'
    BY <1>4, <1>5, <1>7 DEF RxConfigInv, RxOthers
  <2>4. QED BY <1>1, <1>6, <1>7, <2>1, <2>2, <2>3
<1>8. CASE c = rx_ctx0 /\ RxMain0
  <2>1. /\ rxc[c].pc = "start" /\ cfg.start_signal # 0
        /\ rxc'[c].pc = "receive" /\ RxOthers(c)
        /\ rxl'.init = 1 /\ rxl'.packet_size = cfg.packet_size
        /\ rxl'.buffer_capacity = cfg.buffer_size
        /\ UNCHANGED <<cfg, rx_mem, rxq, arrived, admitted>>
    BY <1>1, <1>8, RxMain0Does
  <2>2. cfg.packet_size = UDP_PACKET_SIZE /\ cfg.buffer_size = RING_BUFFER_SIZE
    BY <2>1 DEF TypeInv, ConfigInv, HostConfigInv
  <2>3. rxq' \in Seq(RxContexts) /\ RxQueueInv'
    BY <2>1, RxQueueStep
  <2>4. RxTypeOK'
    <3>1. [rxc[c] EXCEPT !.pc = "receive"] \in RxContext
      BY <1>3a DEF RxContext
    <3>2. rxc' = [rxc EXCEPT ![c] = [rxc[c] EXCEPT !.pc = "receive"]]
      BY <1>8 DEF RxMain0
    <3>3. rxl' \in RxLocal
      BY <1>1, <1>8 DEF RxMain0, RxLocal, device_meta_t
    <3>4. QED BY <1>1, <2>1, <2>3, <3>1, <3>2, <3>3 DEF RxTypeOK
  <2>5. RxConfigInv'
    BY <1>4, <2>1, <2>2 DEF RxConfigInv, RxOthers
  <2>6. QED BY <1>1, <1>6, <2>1, <2>3, <2>4, <2>5
<1>9. CASE RxMain(c)
  <2>1. /\ rxc[c].pc = "start" /\ rxl.init # 0
        /\ rxc'[c].pc = "receive" /\ RxOthers(c)
        /\ UNCHANGED <<cfg, rx_mem, rxl, rxq, arrived, admitted>>
    BY <1>1, <1>9, RxMainDoes
  <2>2. rxq' \in Seq(RxContexts) /\ RxQueueInv'
    BY <2>1, RxQueueStep
  <2>3. RxTypeOK'
    <3>1. [rxc[c] EXCEPT !.pc = "receive"] \in RxContext
      BY <1>3a DEF RxContext
    <3>2. rxc' = [rxc EXCEPT ![c] = [rxc[c] EXCEPT !.pc = "receive"]]
      BY <1>9 DEF RxMain
    <3>3. QED BY <1>1, <2>1, <2>2, <3>1, <3>2 DEF RxTypeOK
  <2>4. RxConfigInv'
    BY <1>4, <2>1 DEF RxConfigInv, RxOthers
  <2>5. QED BY <1>1, <1>6, <2>1, <2>2, <2>3, <2>4
<1>10. CASE \E f \in Frames : RxDrop(c, f)
  <2>1. UNCHANGED <<cfg, rx_mem, rxl, rxc, rxq, admitted>> /\ rxc[c].pc = "receive"
        /\ arrived' \in 0 .. MaxFrames
    BY <1>1, <1>10 DEF RxDrop
  <2>2. QED BY <1>1, <1>7, <2>1 DEF RxOthers
<1>11. CASE \E f \in Frames : RxAllow(c, f)
  <2>1. PICK f \in Frames : RxAllow(c, f)
    BY <1>11
  <2>2. /\ rxc[c].pc = "receive" /\ arrived < MaxFrames /\ arrived' = arrived + 1
        /\ rxc'[c].pc = "head" /\ RxOthers(c)
        /\ rxc'[c].pkt = [id |-> arrived + 1, hdr |-> modify_packet_header(f)]
        /\ UNCHANGED <<cfg, rx_mem, rxl, rxq, admitted>>
    BY <1>1, <2>1, RxAllowDoes
  <2>3. [id |-> arrived + 1, hdr |-> modify_packet_header(f)] \in Packets
    BY <1>1, <2>2 DEF Packets
  <2>4. rxc' \in [RxContexts -> RxContext]
    <3>1. [rxc[c] EXCEPT !.pc = "head",
            !.pkt = [id |-> arrived + 1, hdr |-> modify_packet_header(f)]]
            \in RxContext
      BY <1>3a, <2>3 DEF RxContext
    <3>2. rxc' = [rxc EXCEPT ![c] = [rxc[c] EXCEPT !.pc = "head",
            !.pkt = [id |-> arrived + 1, hdr |-> modify_packet_header(f)]]]
      BY <2>1 DEF RxAllow
    <3>3. QED BY <1>1, <3>1, <3>2
  <2>5. arrived' \in 0 .. MaxFrames
    BY <1>1, <2>2
  <2>6. QED BY <1>1, <1>7, <2>2, <2>3, <2>4, <2>5
<1>12. CASE RxReadHead(c)
  <2>1. /\ rxc[c].pc = "head" /\ rxq' = Append(rxq, c)
        /\ rxc'[c].pc = "resume" /\ rxc'[c].pkt = rxc[c].pkt /\ RxOthers(c)
        /\ UNCHANGED <<cfg, rx_mem, rxl, arrived, admitted>>
    BY <1>1, <1>12, RxReadHeadDoes
  <2>2. rxc' \in [RxContexts -> RxContext]
    <3>1. [rxc[c] EXCEPT !.pc = "resume", !.head = cfg.rx_head]
            \in RxContext
      BY <1>3a DEF RxContext
    <3>2. rxc' = [rxc EXCEPT ![c] = [rxc[c] EXCEPT !.pc = "resume", !.head = cfg.rx_head]]
      BY <1>12 DEF RxReadHead
    <3>3. QED BY <1>1, <3>1, <3>2
  <2>3. rxc[c].pkt \in Packets
    BY <2>1 DEF TypeInv, RxHandsInv
  <2>4. QED BY <1>1, <1>7, <2>1, <2>2, <2>3
<1>13. CASE RxRetry(c)
  <2>1. /\ rxc[c].pc = "resume" /\ rxq' = RemoveFirst(rxq, c)
        /\ rxc'[c].pc = "head" /\ rxc'[c].pkt = rxc[c].pkt /\ RxOthers(c)
        /\ UNCHANGED <<cfg, rx_mem, rxl, arrived, admitted>>
    BY <1>1, <1>13, RxRetryDoes
  <2>2. rxc' \in [RxContexts -> RxContext]
    <3>1. [rxc[c] EXCEPT !.pc = "head"]
            \in RxContext
      BY <1>3a DEF RxContext
    <3>2. rxc' = [rxc EXCEPT ![c] = [rxc[c] EXCEPT !.pc = "head"]]
      BY <1>13 DEF RxRetry
    <3>3. QED BY <1>1, <3>1, <3>2
  <2>3. rxc[c].pkt \in Packets
    BY <2>1 DEF TypeInv, RxHandsInv
  <2>4. QED BY <1>1, <1>7, <2>1, <2>2, <2>3
<1>14. CASE RxReserve(c)
  <2>1. /\ rxc[c].pc = "resume" /\ rxq' = RemoveFirst(rxq, c)
        /\ rxc'[c].pc = "dma" /\ rxc'[c].pkt = rxc[c].pkt /\ RxOthers(c)
        /\ rxl' = [rxl EXCEPT !.shadow_tail = UpdatedTail] /\ rxl'.init = rxl.init
        /\ rxl'.packet_size = rxl.packet_size
        /\ rxl'.buffer_capacity = rxl.buffer_capacity
        /\ admitted' = Append(admitted, rxc[c].pkt)
        /\ UNCHANGED <<cfg, rx_mem, arrived>>
    BY <1>1, <1>14, RxReserveDoes
  <2>2. rxl.packet_size = UDP_PACKET_SIZE /\ rxl.buffer_capacity = RING_BUFFER_SIZE
    BY <1>4, <2>1
  <2>3. rxl.shadow_tail \in Offsets
    BY <1>1 DEF RxLocal
  <2>4. UpdatedTail \in Offsets
    BY <2>2, <2>3, AdvanceType DEF UpdatedTail
  <2>5. DmaParts(rxl.packet_size, RxCtmWindow) \in SUBSET SUBSET PacketOffsets
    BY <2>2, DmaPartsType
  <2>6. rxc' \in [RxContexts -> RxContext]
    <3>1. [rxc[c] EXCEPT !.pc = "dma", !.tail = rxl.shadow_tail,
            !.updated_tail = UpdatedTail,
            !.pending = DmaParts(rxl.packet_size, RxCtmWindow)]
            \in RxContext
      BY <1>3a, <2>3, <2>4, <2>5 DEF RxContext
    <3>2. rxc' = [rxc EXCEPT ![c] = [rxc[c] EXCEPT !.pc = "dma", !.tail = rxl.shadow_tail,
            !.updated_tail = UpdatedTail,
            !.pending = DmaParts(rxl.packet_size, RxCtmWindow)]]
      BY <1>14 DEF RxReserve
    <3>3. QED BY <1>1, <3>1, <3>2
  <2>7. rxc[c].pkt \in Packets
    BY <2>1 DEF TypeInv, RxHandsInv
  <2>8. rxq' \in Seq(RxContexts) /\ RxQueueInv'
    BY <2>1, RxQueueStep
  <2>9. admitted' \in Seq(Packets)
    BY <1>1, <2>1, <2>7
  <2>10. RxTypeOK'
    BY <1>1, <2>1, <2>4, <2>6, <2>8, <2>9 DEF RxTypeOK, RxLocal
  <2>11. RxConfigInv'
    BY <1>4, <2>1 DEF RxConfigInv, RxOthers
  <2>12. QED BY <1>1, <1>6, <2>1, <2>7, <2>8, <2>10, <2>11
<1>15. CASE \E part \in rxc[c].pending : RxDmaWrite(c, part)
  <2>1. PICK part \in rxc[c].pending : RxDmaWrite(c, part)
    BY <1>15
  <2>2. /\ rxc[c].pc = "dma" /\ part \in rxc[c].pending
        /\ rx_mem' = Store(rx_mem, rxc[c].tail, part, PacketBytes(rxc[c].pkt))
        /\ rxc'[c].pc = "dma" /\ rxc'[c].pkt = rxc[c].pkt /\ RxOthers(c)
        /\ UNCHANGED <<cfg, rxl, rxq, arrived, admitted>>
    BY <1>1, <2>1, RxDmaWriteDoes
  <2>3. rxc' \in [RxContexts -> RxContext]
    <3>1. [rxc[c] EXCEPT !.pending = rxc[c].pending \ {part}]
            \in RxContext
      BY <1>3a DEF RxContext
    <3>2. rxc' = [rxc EXCEPT ![c] = [rxc[c] EXCEPT !.pending = rxc[c].pending \ {part}]]
      BY <2>1 DEF RxDmaWrite
    <3>3. QED BY <1>1, <3>1, <3>2
  <2>4. rxc[c].pkt \in Packets
    BY <2>2 DEF TypeInv, RxHandsInv
  <2>5. rx_mem' \in [HostBytes -> Bytes]
    <3>1. rxc[c].tail \in Offsets /\ part \in SUBSET PacketOffsets
      BY <1>1, <2>2 DEF RxContext
    <3>2. PacketBytes(rxc[c].pkt) \in [PacketOffsets -> Bytes]
      BY <2>4, PacketBytesType
    <3>3. QED BY <1>1, <2>2, <3>1, <3>2, StoreType
  <2>6. rxq' \in Seq(RxContexts) /\ RxQueueInv'
    BY <2>2, RxQueueStep
  <2>7. RxTypeOK'
    BY <1>1, <2>2, <2>3, <2>6 DEF RxTypeOK
  <2>8. RxConfigInv'
    BY <1>4, <2>2 DEF RxConfigInv, RxOthers
  <2>9. QED BY <1>1, <1>6, <2>2, <2>4, <2>5, <2>6, <2>7, <2>8
<1>16. CASE RxTurn(c)
  <2>1. /\ rxc[c].pc = "dma" /\ rxc'[c].pc = "publish"
        /\ rxc'[c].pkt = rxc[c].pkt /\ RxOthers(c)
        /\ UNCHANGED <<cfg, rx_mem, rxl, rxq, arrived, admitted>>
    BY <1>1, <1>16, RxTurnDoes
  <2>2. rxc' \in [RxContexts -> RxContext]
    <3>1. [rxc[c] EXCEPT !.pc = "publish"]
            \in RxContext
      BY <1>3a DEF RxContext
    <3>2. rxc' = [rxc EXCEPT ![c] = [rxc[c] EXCEPT !.pc = "publish"]]
      BY <1>16 DEF RxTurn
    <3>3. QED BY <1>1, <3>1, <3>2
  <2>3. rxc[c].pkt \in Packets
    BY <2>1 DEF TypeInv, RxHandsInv
  <2>4. QED BY <1>1, <1>7, <2>1, <2>2, <2>3
<1>17. CASE RxPublish(c)
  <2>1. /\ rxc[c].pc = "publish" /\ rxc'[c].pc = "receive" /\ RxOthers(c)
        /\ UNCHANGED <<rx_mem, rxl, rxq, arrived, admitted>>
    BY <1>1, <1>17, RxPublishDoes
  <2>2. rxc' \in [RxContexts -> RxContext]
    <3>1. RxIdle("receive") \in RxContext
      BY DEF RxIdle, RxContext, Offsets
    <3>2. QED BY <1>1, <1>17, <3>1 DEF RxPublish
  <2>3. QED BY <1>1, <1>7, <1>17, <2>1, <2>2
<1>18. QED
  BY <1>3, <1>8, <1>9, <1>10, <1>11, <1>12, <1>13, <1>14, <1>15, <1>16, <1>17
     DEF RxProcess

\* The contexts of an engine are finitely many.
LEMMA ContextsFinite ==
  ASSUME NEW S, IsFiniteSet(S), NEW H \in SUBSET S
  PROVE  IsFiniteSet(H) /\ Cardinality(H) \in Nat
BY FS_Subset, FS_CardinalityType

\* A transmit context begins to work on a packet, ends, or does neither.
LEMMA TxWorkingStep ==
  ASSUME TypeInv, NEW c \in TxContexts, TxOthers(c)
  PROVE  /\ IsFiniteSet(TxWorking) /\ Cardinality(TxWorking) \in Nat
         /\ (c \in TxWorking <=> c \in TxWorking') => TxWorking' = TxWorking
         /\ c \notin TxWorking /\ c \in TxWorking' =>
                Cardinality(TxWorking') = Cardinality(TxWorking) + 1
         /\ c \in TxWorking /\ c \notin TxWorking' =>
                Cardinality(TxWorking') = Cardinality(TxWorking) - 1
<1>1. IsFiniteSet(TxWorking) /\ Cardinality(TxWorking) \in Nat
  BY ContextsFinite DEF TxWorking
<1>2. TxWorking' = {d \in TxContexts :
                      txc'[d].pc \in {"tail", "resume", "dma", "publish", "send"}}
  BY DEF TxWorking
<1>3. \A d \in TxContexts : d # c => (d \in TxWorking' <=> d \in TxWorking)
  BY <1>2 DEF TxOthers, TxWorking
<1>4. TxWorking \subseteq TxContexts /\ TxWorking' \subseteq TxContexts
  BY <1>2 DEF TxWorking
<1>5. (c \in TxWorking <=> c \in TxWorking') => TxWorking' = TxWorking
  BY <1>3, <1>4
<1>6. ASSUME c \notin TxWorking, c \in TxWorking'
      PROVE  Cardinality(TxWorking') = Cardinality(TxWorking) + 1
  <2>1. TxWorking' = TxWorking \cup {c}
    BY <1>3, <1>4, <1>6
  <2>2. QED BY <1>1, <1>6, <2>1, FS_AddElement
<1>7. ASSUME c \in TxWorking, c \notin TxWorking'
      PROVE  Cardinality(TxWorking') = Cardinality(TxWorking) - 1
  <2>1. TxWorking' = TxWorking \ {c}
    BY <1>3, <1>4, <1>7
  <2>2. QED BY <1>1, <1>7, <2>1, FS_RemoveElement
<1>8. QED BY <1>1, <1>5, <1>6, <1>7

\* The steps of the transmit engine keep the types.
LEMMA TxTypeStep ==
  ASSUME TypeInv, TxStep
  PROVE  TypeInv'
<1>1. /\ cfg \in device_meta_t /\ tx_mem \in [HostBytes -> Bytes]
      /\ txl \in TxLocal /\ txc \in [TxContexts -> TxContext(Bytes)]
      /\ txq \in Seq(TxContexts) /\ pool \in 0 .. TxBuffers /\ nbi \in 0 .. TxBuffers
      /\ claimed \in Nat /\ sent \in Seq(TxPackets(Bytes)) /\ TxQueueInv
  BY TxTypes
<1>2. UNCHANGED <<rx_mem, rxl, rxc, rxq, arrived, admitted,
                  worker, ring_rx, ring_tx, echoed>>
  BY DEF TxStep, rxVars, hostVars
<1>3. UNCHANGED tx_mem
  BY DEF TxStep, TxNext, TxProcess, TxMain0, TxMain, TxAllocate, TxReadTail, TxRetry,
         TxClaim, TxDmaRead, TxTurn, TxPublish, TxSend, NbiTransmit
<1>4. /\ txl.init # 0 => /\ cfg.start_signal # 0
                         /\ txl.packet_size = UDP_PACKET_SIZE
                         /\ txl.buffer_capacity = RING_BUFFER_SIZE
      /\ \A d \in TxContexts : txc[d].pc # "start" => txl.init # 0
  BY DEF TypeInv, ConfigInv, TxConfigInv
<1>5. pool + nbi + Cardinality(TxWorking) = TxBuffers
  BY DEF TypeInv, BuffersConserved
\* What is left to show for each step.
<1>6. ASSUME cfg' \in device_meta_t, cfg'.packet_size = cfg.packet_size,
             cfg'.buffer_size = cfg.buffer_size, cfg'.start_signal = cfg.start_signal,
             TxTypeOK(Bytes)', TxConfigInv', TxQueueInv', BuffersConserved'
      PROVE  TypeInv'
  <2>1. TypeOK'
    BY <1>1, <1>2, <1>3, <1>6 DEF TypeInv, TypeOK, RxTypeOK, HostTypeOK
  <2>2. HostConfigInv' /\ RxConfigInv'
    BY <1>2, <1>6 DEF TypeInv, ConfigInv, HostConfigInv, RxConfigInv, Configured
  <2>3. RxHandsInv' /\ RxQueueInv'
    BY <1>2 DEF TypeInv, RxHandsInv, RxQueueInv, Queued, RxWaiting
  <2>4. QED BY <1>6, <2>1, <2>2, <2>3 DEF TypeInv, ConfigInv
<1>7. CASE NbiTransmit
  <2>1. /\ nbi > 0 /\ nbi' = nbi - 1 /\ pool' = pool + 1
        /\ UNCHANGED <<cfg, txl, txc, txq, claimed, sent>>
    BY <1>7 DEF NbiTransmit
  <2>2. TxWorking' = TxWorking
    BY <2>1 DEF TxWorking
  <2>3. Cardinality(TxWorking) \in Nat
    BY ContextsFinite DEF TxWorking
  <2>4. pool' \in 0 .. TxBuffers /\ nbi' \in 0 .. TxBuffers /\ BuffersConserved'
    BY <1>1, <1>5, <2>1, <2>2, <2>3 DEF BuffersConserved
  <2>5. TxTypeOK(Bytes)'
    BY <1>1, <2>1, <2>4 DEF TxTypeOK
  <2>6. TxConfigInv' /\ TxQueueInv'
    BY <1>1, <1>4, <2>1 DEF TxConfigInv, TxQueueInv, Queued, TxWaiting
  <2>7. QED BY <1>1, <1>6, <2>1, <2>4, <2>5, <2>6
<1>8. ASSUME NEW c \in TxContexts, TxProcess(c) PROVE TypeInv'
  <2>1. txc[c] \in TxContext(Bytes) /\ cfg.tx_tail \in Offsets
        /\ txc[c].updated_head \in Offsets /\ txc[c].pkt \in TxPackets(Bytes)
    BY <1>1 DEF device_meta_t, TxContext
\* Steps that keep the buffers, the local memory and the configuration.
  <2>2. ASSUME UNCHANGED cfg, txl' \in TxLocal,
               txl'.init # 0, txl'.packet_size = UDP_PACKET_SIZE,
               txl'.buffer_capacity = RING_BUFFER_SIZE, cfg.start_signal # 0,
               TxOthers(c), txc' \in [TxContexts -> TxContext(Bytes)],
               c \in TxWorking <=> c \in TxWorking',
               UNCHANGED <<pool, nbi, sent>>, claimed' \in Nat,
               \/ txq' = txq /\ txc[c].pc # "resume" /\ txc'[c].pc # "resume"
               \/ txq' = Append(txq, c) /\ txc[c].pc # "resume" /\ txc'[c].pc = "resume"
               \/ txq' = RemoveFirst(txq, c) /\ txc[c].pc = "resume" /\ txc'[c].pc # "resume"
        PROVE  TypeInv'
    <3>1. txq' \in Seq(TxContexts) /\ TxQueueInv'
      BY <2>2, TxQueueStep
    <3>2. TxTypeOK(Bytes)'
      BY <1>1, <2>2, <3>1 DEF TxTypeOK
    <3>3. TxConfigInv'
      BY <2>2 DEF TxConfigInv
    <3>4. BuffersConserved'
      BY <1>5, <2>2, TxWorkingStep DEF BuffersConserved
    <3>5. QED BY <1>1, <1>6, <2>2, <3>1, <3>2, <3>3, <3>4
  <2>3. c \in TxWorking <=> txc[c].pc \in {"tail", "resume", "dma", "publish", "send"}
    BY DEF TxWorking
  <2>4. c \in TxWorking' <=> txc'[c].pc \in {"tail", "resume", "dma", "publish", "send"}
    BY DEF TxWorking
  <2>5. CASE c = tx_ctx0 /\ TxMain0
    <3>1. /\ txc[c].pc = "start" /\ cfg.start_signal # 0
          /\ txc'[c].pc = "allocate" /\ TxOthers(c)
          /\ txl'.init = 1 /\ txl'.packet_size = cfg.packet_size
          /\ txl'.buffer_capacity = cfg.buffer_size
          /\ UNCHANGED <<cfg, txq, pool, nbi, claimed, sent>>
      BY <1>1, <2>5, TxMain0Does
    <3>2. cfg.packet_size = UDP_PACKET_SIZE /\ cfg.buffer_size = RING_BUFFER_SIZE
      BY <3>1 DEF TypeInv, ConfigInv, HostConfigInv
    <3>3. [txc[c] EXCEPT !.pc = "allocate"] \in TxContext(Bytes)
      BY <2>1 DEF TxContext
    <3>4. txc' = [txc EXCEPT ![c] = [txc[c] EXCEPT !.pc = "allocate"]]
      BY <2>5 DEF TxMain0
    <3>5. txl' \in TxLocal
      BY <1>1, <2>5 DEF TxMain0, TxLocal, device_meta_t
    <3>6. txc' \in [TxContexts -> TxContext(Bytes)]
      BY <1>1, <3>3, <3>4
    <3>7. QED BY <1>1, <2>2, <2>3, <2>4, <3>1, <3>2, <3>5, <3>6
  <2>6. CASE TxMain(c)
    <3>1. /\ txc[c].pc = "start" /\ txl.init # 0
          /\ txc'[c].pc = "allocate" /\ TxOthers(c)
          /\ UNCHANGED <<cfg, txl, txq, pool, nbi, claimed, sent>>
      BY <1>1, <2>6, TxMainDoes
    <3>2. [txc[c] EXCEPT !.pc = "allocate"] \in TxContext(Bytes)
      BY <2>1 DEF TxContext
    <3>3. txc' = [txc EXCEPT ![c] = [txc[c] EXCEPT !.pc = "allocate"]]
      BY <2>6 DEF TxMain
    <3>4. txc' \in [TxContexts -> TxContext(Bytes)]
      BY <1>1, <3>2, <3>3
    <3>5. QED BY <1>1, <1>4, <2>2, <2>3, <2>4, <3>1, <3>4
  <2>7. CASE TxAllocate(c)
    <3>1. /\ txc[c].pc = "allocate" /\ pool > 0 /\ pool' = pool - 1
          /\ txc'[c].pc = "tail" /\ TxOthers(c)
          /\ UNCHANGED <<cfg, txl, txq, nbi, claimed, sent>>
      BY <1>1, <2>7, TxAllocateDoes
    <3>2. [txc[c] EXCEPT !.pc = "tail"] \in TxContext(Bytes)
      BY <2>1 DEF TxContext
    <3>3. txc' = [txc EXCEPT ![c] = [txc[c] EXCEPT !.pc = "tail"]]
      BY <2>7 DEF TxAllocate
    <3>4. txc' \in [TxContexts -> TxContext(Bytes)]
      BY <1>1, <3>2, <3>3
    <3>5. Cardinality(TxWorking') = Cardinality(TxWorking) + 1
          /\ Cardinality(TxWorking) \in Nat
      BY <2>3, <2>4, <3>1, TxWorkingStep
    <3>6. pool' \in 0 .. TxBuffers /\ BuffersConserved'
      BY <1>1, <1>5, <3>1, <3>5 DEF BuffersConserved
    <3>7. txq' \in Seq(TxContexts) /\ TxQueueInv'
      BY <3>1, TxQueueStep
    <3>8. TxTypeOK(Bytes)'
      BY <1>1, <3>1, <3>4, <3>6, <3>7 DEF TxTypeOK
    <3>9. TxConfigInv'
      BY <1>4, <3>1 DEF TxConfigInv, TxOthers
    <3>10. QED BY <1>1, <1>6, <3>1, <3>6, <3>7, <3>8, <3>9
  <2>8. CASE TxReadTail(c)
    <3>1. /\ txc[c].pc = "tail" /\ txq' = Append(txq, c)
          /\ txc'[c].pc = "resume" /\ TxOthers(c)
          /\ UNCHANGED <<cfg, txl, pool, nbi, claimed, sent>>
      BY <1>1, <2>8, TxReadTailDoes
    <3>2. [txc[c] EXCEPT !.pc = "resume", !.tail = cfg.tx_tail] \in TxContext(Bytes)
      BY <2>1 DEF TxContext
    <3>3. txc' = [txc EXCEPT ![c] = [txc[c] EXCEPT !.pc = "resume", !.tail = cfg.tx_tail]]
      BY <2>8 DEF TxReadTail
    <3>4. txc' \in [TxContexts -> TxContext(Bytes)]
      BY <1>1, <3>2, <3>3
    <3>5. QED BY <1>1, <1>4, <2>2, <2>3, <2>4, <3>1, <3>4
  <2>9. CASE TxRetry(c)
    <3>1. /\ txc[c].pc = "resume" /\ txq' = RemoveFirst(txq, c)
          /\ txc'[c].pc = "tail" /\ TxOthers(c)
          /\ UNCHANGED <<cfg, txl, pool, nbi, claimed, sent>>
      BY <1>1, <2>9, TxRetryDoes
    <3>2. [txc[c] EXCEPT !.pc = "tail"] \in TxContext(Bytes)
      BY <2>1 DEF TxContext
    <3>3. txc' = [txc EXCEPT ![c] = [txc[c] EXCEPT !.pc = "tail"]]
      BY <2>9 DEF TxRetry
    <3>4. txc' \in [TxContexts -> TxContext(Bytes)]
      BY <1>1, <3>2, <3>3
    <3>5. QED BY <1>1, <1>4, <2>2, <2>3, <2>4, <3>1, <3>4
  <2>10. CASE TxClaim(c)
    <3>1. /\ txc[c].pc = "resume" /\ txq' = RemoveFirst(txq, c)
          /\ txc'[c].pc = "dma" /\ TxOthers(c)
          /\ txl' = [txl EXCEPT !.shadow_head = UpdatedHead] /\ txl'.init = txl.init
          /\ txl'.packet_size = txl.packet_size
          /\ txl'.buffer_capacity = txl.buffer_capacity
          /\ claimed' = claimed + 1
          /\ UNCHANGED <<cfg, pool, nbi, sent>>
      BY <1>1, <2>10, TxClaimDoes
    <3>2. /\ txl.init # 0 /\ cfg.start_signal # 0
          /\ txl.packet_size = UDP_PACKET_SIZE /\ txl.buffer_capacity = RING_BUFFER_SIZE
      BY <1>4, <3>1
    <3>3. txl.shadow_head \in Offsets
      BY <1>1 DEF TxLocal
    <3>4. UpdatedHead \in Offsets
      BY <3>2, <3>3, AdvanceType DEF UpdatedHead
    <3>5. DmaParts(txl.packet_size, TxCtmWindow) \in SUBSET SUBSET PacketOffsets
      BY <3>2, DmaPartsType
    <3>6. [txc[c] EXCEPT !.pc = "dma", !.head = txl.shadow_head,
             !.updated_head = UpdatedHead,
             !.pending = DmaParts(txl.packet_size, TxCtmWindow)] \in TxContext(Bytes)
      BY <2>1, <3>3, <3>4, <3>5 DEF TxContext
    <3>7. txc' = [txc EXCEPT ![c] = [txc[c] EXCEPT !.pc = "dma", !.head = txl.shadow_head,
                    !.updated_head = UpdatedHead,
                    !.pending = DmaParts(txl.packet_size, TxCtmWindow)]]
      BY <2>10 DEF TxClaim
    <3>8. txc' \in [TxContexts -> TxContext(Bytes)]
      BY <1>1, <3>6, <3>7
    <3>9. txl' \in TxLocal /\ claimed' \in Nat
      <4>1. [txl EXCEPT !.shadow_head = UpdatedHead] \in TxLocal
        BY <1>1, <3>4 DEF TxLocal
      <4>2. claimed' \in Nat
        BY <1>1, <3>1
      <4>3. QED BY <3>1, <4>1, <4>2
    <3>10. QED BY <1>1, <2>2, <2>3, <2>4, <3>1, <3>2, <3>8, <3>9
  <2>11. CASE \E part \in txc[c].pending : TxDmaRead(c, part)
    <3>1. PICK part \in txc[c].pending : TxDmaRead(c, part)
      BY <2>11
    <3>2. /\ txc[c].pc = "dma" /\ part \in txc[c].pending
          /\ txc'[c].pc = "dma" /\ TxOthers(c)
          /\ UNCHANGED <<cfg, txl, txq, pool, nbi, claimed, sent>>
      BY <1>1, <3>1, TxDmaReadDoes
    <3> DEFINE data == Fetch(tx_mem, txc[c].head, part, txc[c].pkt.data)
               pkt == [txc[c].pkt EXCEPT !.data = data]
    <3>3. data \in [PacketOffsets -> Bytes]
      <4>1. txc[c].head \in Offsets /\ part \in SUBSET PacketOffsets
            /\ txc[c].pkt.data \in [PacketOffsets -> Bytes]
        BY <2>1, <3>2 DEF TxContext, TxPackets
      <4>2. QED BY <1>1, <4>1, FetchType
    <3>4. txc' = [txc EXCEPT ![c] = [txc[c] EXCEPT !.pending = txc[c].pending \ {part},
                                                   !.pkt = pkt]]
      BY <1>1, <2>1, <3>1 DEF TxDmaRead, TxContext, TxPackets
    <3> HIDE DEF data
    <3>5. pkt \in TxPackets(Bytes)
      BY <2>1, <3>3 DEF TxPackets
    <3> HIDE DEF pkt
    <3>6. txc[c].pending \ {part} \in SUBSET SUBSET PacketOffsets
      BY <2>1 DEF TxContext
    <3>7. [txc[c] EXCEPT !.pending = txc[c].pending \ {part}, !.pkt = pkt]
             \in TxContext(Bytes)
      BY <2>1, <3>5, <3>6 DEF TxContext
    <3>8. txc' \in [TxContexts -> TxContext(Bytes)]
      BY <1>1, <3>4, <3>7
    <3>9. QED BY <1>1, <1>4, <2>2, <2>3, <2>4, <3>2, <3>8
  <2>12. CASE TxTurn(c)
    <3> DEFINE pkt == [txc[c].pkt EXCEPT !.len = txl.packet_size + MAC_PREPEND_BYTES]
    <3>1. /\ txc[c].pc = "dma" /\ txc'[c].pc = "publish" /\ TxOthers(c)
          /\ UNCHANGED <<cfg, txl, txq, pool, nbi, claimed, sent>>
      BY <1>1, <2>12, TxTurnDoes
    <3>2. txl.packet_size + MAC_PREPEND_BYTES \in Nat
      BY <1>1 DEF TxLocal
    <3>3. pkt \in TxPackets(Bytes)
      BY <2>1, <3>2 DEF TxPackets
    <3>4. txc' = [txc EXCEPT ![c] = [txc[c] EXCEPT !.pc = "publish", !.pkt = pkt]]
      BY <1>1, <2>1, <2>12 DEF TxTurn, TxContext, TxPackets
    <3> HIDE DEF pkt
    <3>5. [txc[c] EXCEPT !.pc = "publish", !.pkt = pkt] \in TxContext(Bytes)
      BY <2>1, <3>3 DEF TxContext
    <3>6. txc' \in [TxContexts -> TxContext(Bytes)]
      BY <1>1, <3>4, <3>5
    <3>7. QED BY <1>1, <1>4, <2>2, <2>3, <2>4, <3>1, <3>6
  <2>13. CASE TxPublish(c)
    <3>1. /\ txc[c].pc = "publish"
          /\ cfg' = [cfg EXCEPT !.tx_head = txc[c].updated_head]
          /\ cfg'.packet_size = cfg.packet_size /\ cfg'.buffer_size = cfg.buffer_size
          /\ cfg'.start_signal = cfg.start_signal
          /\ txc'[c].pc = "send" /\ TxOthers(c)
          /\ UNCHANGED <<txl, txq, pool, nbi, claimed, sent>>
      BY <1>1, <2>13, TxPublishDoes
    <3>2. [txc[c] EXCEPT !.pc = "send"] \in TxContext(Bytes)
      BY <2>1 DEF TxContext
    <3>3. txc' = [txc EXCEPT ![c] = [txc[c] EXCEPT !.pc = "send"]]
      BY <2>13 DEF TxPublish
    <3>4. txc' \in [TxContexts -> TxContext(Bytes)]
      BY <1>1, <3>2, <3>3
    <3>5. cfg' \in device_meta_t
      BY <1>1, <2>1, <3>1 DEF device_meta_t
    <3>6. txq' \in Seq(TxContexts) /\ TxQueueInv'
      BY <3>1, TxQueueStep
    <3>7. TxTypeOK(Bytes)'
      BY <1>1, <3>1, <3>4, <3>6 DEF TxTypeOK
    <3>8. TxConfigInv'
      BY <1>4, <3>1 DEF TxConfigInv, TxOthers
    <3>9. BuffersConserved'
      BY <1>5, <2>3, <2>4, <3>1, TxWorkingStep DEF BuffersConserved
    <3>10. QED BY <1>6, <3>1, <3>5, <3>6, <3>7, <3>8, <3>9
  <2>14. CASE TxSend(c)
    <3>1. /\ txc[c].pc = "send" /\ sent' = Append(sent, txc[c].pkt) /\ nbi' = nbi + 1
          /\ txc'[c].pc = "allocate" /\ TxOthers(c)
          /\ UNCHANGED <<cfg, txl, txq, pool, claimed>>
      BY <1>1, <2>14, TxSendDoes
    <3>2. TxIdle("allocate") \in TxContext(Bytes)
      <4>1. [len |-> 0, data |-> [b \in PacketOffsets |-> Zero]] \in TxPackets(Bytes)
        BY DEF TxPackets, Bytes
      <4>2. QED BY <4>1 DEF TxIdle, TxContext, Offsets
    <3>3. txc' \in [TxContexts -> TxContext(Bytes)]
      BY <1>1, <2>14, <3>2 DEF TxSend
    <3>4. Cardinality(TxWorking') = Cardinality(TxWorking) - 1
          /\ Cardinality(TxWorking) \in Nat
          /\ Cardinality(TxWorking') \in Nat
      <4>1. Cardinality(TxWorking') \in Nat
        BY ContextsFinite DEF TxWorking
      <4>2. QED BY <2>3, <2>4, <3>1, <4>1, TxWorkingStep
    <3>5. nbi' \in 0 .. TxBuffers /\ BuffersConserved'
      BY <1>1, <1>5, <3>1, <3>4 DEF BuffersConserved
    <3>6. txq' \in Seq(TxContexts) /\ TxQueueInv'
      BY <3>1, TxQueueStep
    <3>7. sent' \in Seq(TxPackets(Bytes))
      BY <1>1, <2>1, <3>1
    <3>8. TxTypeOK(Bytes)'
      BY <1>1, <3>1, <3>3, <3>5, <3>6, <3>7 DEF TxTypeOK
    <3>9. TxConfigInv'
      BY <1>4, <3>1 DEF TxConfigInv, TxOthers
    <3>10. QED BY <1>1, <1>6, <3>1, <3>5, <3>6, <3>8, <3>9
  <2>15. QED BY <1>8, <2>5, <2>6, <2>7, <2>8, <2>9, <2>10, <2>11, <2>12, <2>13, <2>14
             DEF TxProcess
<1>9. QED BY <1>7, <1>8 DEF TxStep, TxNext

\* The worker's steps keep the types.
LEMMA HostTypeStep ==
  ASSUME TypeInv, HostStep
  PROVE  TypeInv'
<1>0. UNCHANGED <<rxl, rxc, rxq, arrived, admitted, txl, txc, txq, pool, nbi, claimed, sent>>
  BY DEF HostStep, rxVars, txVars
<1>1. /\ cfg \in device_meta_t
      /\ tx_mem \in [HostBytes -> Bytes] /\ rx_mem \in [HostBytes -> Bytes]
      /\ worker \in WorkerPc /\ echoed \in Nat
      /\ ring_rx \in ringbuffer_t(Offsets) /\ ring_tx \in ringbuffer_t(Offsets)
  BY DEF TypeInv, TypeOK, HostTypeOK
<1>2. RxTypeOK' /\ TxTypeOK(Bytes)' /\ RxHandsInv' /\ BuffersConserved'
      /\ RxQueueInv' /\ TxQueueInv'
  BY <1>0 DEF TypeInv, TypeOK, RxTypeOK, TxTypeOK, RxHandsInv, BuffersConserved, TxWorking,
              RxQueueInv, TxQueueInv, Queued, RxWaiting, TxWaiting
<1>3. HostConfigInv /\ RxConfigInv /\ TxConfigInv
  BY DEF TypeInv, ConfigInv
<1>4. ASSUME cfg' \in device_meta_t, UNCHANGED rx_mem,
             tx_mem' \in [HostBytes -> Bytes], HostTypeOK', HostConfigInv',
             cfg.start_signal # 0 => cfg'.start_signal # 0
      PROVE  TypeInv'
  <2>1. RxConfigInv' /\ TxConfigInv'
    BY <1>0, <1>3, <1>4 DEF RxConfigInv, TxConfigInv
  <2>2. QED BY <1>1, <1>2, <1>4, <2>1 DEF TypeInv, TypeOK, ConfigInv
<1>5. 0 \in Offsets
  BY DEF Offsets
<1> USE DEF HostTypeOK, WorkerPc
<1>6. CASE HostMapFails
  <2>1. HostConfigInv'
    BY <1>3, <1>6 DEF HostMapFails, HostConfigInv, Configured
  <2>2. QED BY <1>1, <1>4, <1>6, <2>1 DEF HostMapFails
<1>7. CASE HostConfigure
  <2>1. cfg' \in device_meta_t /\ cfg'.start_signal = cfg.start_signal
    BY <1>1, <1>5, <1>7 DEF HostConfigure, device_meta_t
  <2>2. ring_rx' \in ringbuffer_t(Offsets) /\ ring_tx' \in ringbuffer_t(Offsets)
    BY <1>1, <1>7 DEF HostConfigure, ringbuffer_t
  <2>3. HostConfigInv'
    BY <1>1, <1>3, <1>7
       DEF HostConfigure, HostConfigInv, Configured, device_meta_t, ringbuffer_t
  <2>4. QED BY <1>1, <1>4, <1>7, <2>1, <2>2, <2>3 DEF HostConfigure
<1>8. CASE HostStart
  <2>1. cfg' \in device_meta_t /\ cfg'.start_signal # 0
    BY <1>1, <1>8 DEF HostStart, device_meta_t
  <2>2. HostConfigInv'
    BY <1>1, <1>3, <1>8 DEF HostStart, HostConfigInv, Configured, device_meta_t
  <2>3. QED BY <1>1, <1>4, <1>8, <2>1, <2>2 DEF HostStart
<1>9. CASE HostReadRx
  <2>1. ring_rx' \in ringbuffer_t(Offsets)
    BY <1>1, <1>9 DEF HostReadRx, ringbuffer_t, device_meta_t
  <2>2. HostConfigInv'
    BY <1>1, <1>3, <1>9 DEF HostReadRx, HostConfigInv, Configured, ringbuffer_t
  <2>3. QED BY <1>1, <1>4, <1>9, <2>1, <2>2 DEF HostReadRx
<1>10. CASE HostReadTx
  <2>1. ring_tx' \in ringbuffer_t(Offsets)
    BY <1>1, <1>10 DEF HostReadTx, ringbuffer_t, device_meta_t
  <2>2. HostConfigInv'
    BY <1>1, <1>3, <1>10 DEF HostReadTx, HostConfigInv, Configured, ringbuffer_t
  <2>3. QED BY <1>1, <1>4, <1>10, <2>1, <2>2 DEF HostReadTx
<1>11. CASE HostSkip
  <2>1. HostConfigInv'
    BY <1>3, <1>11 DEF HostSkip, HostConfigInv, Configured
  <2>2. QED BY <1>1, <1>4, <1>11, <2>1 DEF HostSkip
<1>12. CASE HostEcho
  <2>1. /\ ring_rx.entry_size = UDP_PACKET_SIZE
        /\ ring_rx.capacity = RING_BUFFER_SIZE
        /\ ring_tx.entry_size = UDP_PACKET_SIZE
        /\ ring_tx.capacity = RING_BUFFER_SIZE
    BY <1>3, <1>12 DEF HostEcho, HostConfigInv, Configured
  <2>2. ring_rx' \in ringbuffer_t(Offsets) /\ ring_tx' \in ringbuffer_t(Offsets)
    BY <1>1, <1>12, <2>1, AdvanceType
       DEF HostEcho, ringbuffer_t, ringbuffer_pop, ringbuffer_push
  <2>3. [b \in PacketOffsets |-> rx_mem[ring_rx.head + b]]
          \in [PacketOffsets -> Bytes]
    BY <1>1 DEF ringbuffer_t, PacketOffsets, HostBytes, Offsets
  <2>4. tx_mem' \in [HostBytes -> Bytes]
    BY <1>1, <1>12, <2>3, StoreType DEF HostEcho, ringbuffer_t
  <2>5. HostConfigInv'
    BY <1>1, <1>3, <1>12
       DEF HostEcho, HostConfigInv, Configured, ringbuffer_t, ringbuffer_pop,
           ringbuffer_push
  <2>6. QED BY <1>1, <1>4, <1>12, <2>2, <2>4, <2>5 DEF HostEcho
<1>13. CASE HostWriteTx
  <2>1. cfg' \in device_meta_t /\ cfg'.start_signal = cfg.start_signal
    BY <1>1, <1>13 DEF HostWriteTx, device_meta_t, ringbuffer_t
  <2>2. HostConfigInv'
    BY <1>1, <1>3, <1>13 DEF HostWriteTx, HostConfigInv, Configured, device_meta_t
  <2>3. QED BY <1>1, <1>4, <1>13, <2>1, <2>2 DEF HostWriteTx
<1>14. CASE HostWriteRx
  <2>1. cfg' \in device_meta_t /\ cfg'.start_signal = cfg.start_signal
    BY <1>1, <1>14 DEF HostWriteRx, device_meta_t, ringbuffer_t
  <2>2. HostConfigInv'
    BY <1>1, <1>3, <1>14 DEF HostWriteRx, HostConfigInv, Configured, device_meta_t
  <2>3. QED BY <1>1, <1>4, <1>14, <2>1, <2>2 DEF HostWriteRx
<1>15. QED BY <1>6, <1>7, <1>8, <1>9, <1>10, <1>11, <1>12, <1>13, <1>14
           DEF HostStep, HostNext

\* Every step of the composition keeps the types.
LEMMA TypeStep ==
  ASSUME TypeInv, [Next]_vars
  PROVE  TypeInv'
<1>1. CASE Next
  BY <1>1, RxTypeStep, TxTypeStep, HostTypeStep DEF Next, RxStep, TxStep, HostStep
<1>2. CASE UNCHANGED vars
  BY <1>2 DEF vars, rxVars, txVars, hostVars, TypeInv, TypeOK, RxTypeOK, TxTypeOK,
     HostTypeOK, ConfigInv, HostConfigInv, RxConfigInv, TxConfigInv, Configured,
     RxHandsInv, BuffersConserved, TxWorking, RxQueueInv, TxQueueInv, Queued,
     RxWaiting, TxWaiting
<1>3. QED BY <1>1, <1>2

\* The part of the invariant that holds in whatever order contexts run again.
LEMMA TypeAlways == Spec => []TypeInv
<1>1. TypeInv /\ [Next]_vars => TypeInv'
  BY TypeStep
<1>2. QED BY TypeInit, <1>1, PTL DEF Spec

(***************************************************************************)
(* Whatever the contexts and the worker interleave, and in whatever order   *)
(* the contexts run again, every word of shared memory, local memory and     *)
(* context state keeps its type: no index leaves its ring.                   *)
(***************************************************************************)
THEOREM MultiTypes == Spec => []TypeOK
<1>1. TypeInv => TypeOK
  BY DEF TypeInv
<1>2. QED BY TypeAlways, <1>1, PTL

(***************************************************************************)
(* In whatever order the contexts start and run again, none works with      *)
(* other sizes than the host's (multi_rx.c:110-125, multi_tx.c:85-99).       *)
(***************************************************************************)
THEOREM MultiConfigured == Spec => []ConfiguredBeforeUse
<1>1. TypeInv => ConfiguredBeforeUse
  BY DEF TypeInv, ConfigInv, RxConfigInv, TxConfigInv, ConfiguredBeforeUse
<1>2. QED BY TypeAlways, <1>1, PTL

(***************************************************************************)
(* In whatever order they run again, the transmit contexts neither lose nor *)
(* reuse a packet buffer (txops.c:22-36, multi_tx.c:36, 76).                 *)
(***************************************************************************)
THEOREM MultiBuffers == Spec => []BuffersConserved
<1>1. TypeInv => BuffersConserved
  BY DEF TypeInv
<1>2. QED BY TypeAlways, <1>1, PTL

-----------------------------------------------------------------------------
(***************************************************************************)
(* The indices.  The contexts H hold the entries from number lo to just     *)
(* before number hi, each its own, and turn says who holds which.            *)
(***************************************************************************)
Turns(H, lo, hi, turn) ==
    /\ turn \in [H -> lo .. (hi - 1)]
    /\ \A c, d \in H : turn[c] = turn[d] => c = d
    /\ \A n \in lo .. (hi - 1) : \E c \in H : turn[c] = n

(***************************************************************************)
(* The k contexts of a queue have read an index that moves forward: in the  *)
(* order of the queue, what they saw grows, within lo and hi.                *)
(***************************************************************************)
Reads(k, lo, hi, seen) ==
    /\ seen \in [1 .. k -> Nat]
    /\ \A i \in 1 .. k : lo <= seen[i] /\ seen[i] <= hi
    /\ \A i, j \in 1 .. k : i <= j => seen[i] <= seen[j]

\* The turns after context c has taken entry n, has given up its entry; what
\* is seen by the queue without its first context.
TurnTaken(H, turn, c, n) == [d \in H \cup {c} |-> IF d = c THEN n ELSE turn[d]]
TurnOver(H, turn, c) == [d \in H \ {c} |-> turn[d]]
SeenByRest(k, seen) == [i \in 1 .. (k - 1) |-> seen[i + 1]]

RxTurns ==
    \E turn \in [RxHolding -> Published .. (Len(admitted) - 1)] :
        /\ Turns(RxHolding, Published, Len(admitted), turn)
        /\ \A c \in RxHolding : /\ rxc[c].tail = OffsetOf(turn[c])
                                /\ rxc[c].updated_tail = OffsetOf(turn[c] + 1)

TxTurns ==
    \E turn \in [TxHolding -> Fetched .. (claimed - 1)] :
        /\ Turns(TxHolding, Fetched, claimed, turn)
        /\ \A c \in TxHolding : /\ txc[c].head = OffsetOf(turn[c])
                                /\ txc[c].updated_head = OffsetOf(turn[c] + 1)

\* A head a context has read still has room for what was reserved since.
RxReads ==
    \E seen \in [1 .. Len(rxq) -> 0 .. Released] :
        /\ Reads(Len(rxq), Len(admitted) - (NumSlots - 1), Released, seen)
        /\ \A i \in 1 .. Len(rxq) : rxc[rxq[i]].head = OffsetOf(seen[i])

\* A tail a context has read is not behind what was claimed since.
TxReads ==
    \E seen \in [1 .. Len(txq) -> 0 .. Handed] :
        /\ Reads(Len(txq), claimed, Handed, seen)
        /\ \A i \in 1 .. Len(txq) : txc[txq[i]].tail = OffsetOf(seen[i])

\* A context that publishes is the first of those that hold an entry.
RxIndexInv ==
    /\ Published \in Nat
    /\ cfg.rx_tail = OffsetOf(Published)
    /\ rxl.shadow_tail = OffsetOf(Len(admitted))
    /\ ReserveOnlyFree
    /\ RxTurns
    /\ RxReads
    /\ \A c \in RxContexts : rxc[c].pc = "publish" => rxc[c].tail = OffsetOf(Published)
    /\ rxl.init = 0 => Len(admitted) = 0

TxIndexInv ==
    /\ Fetched \in Nat
    /\ cfg.tx_head = OffsetOf(Fetched)
    /\ txl.shadow_head = OffsetOf(claimed)
    /\ ClaimOnlyHanded
    /\ TxTurns
    /\ TxReads
    /\ \A c \in TxContexts : txc[c].pc = "publish" => txc[c].head = OffsetOf(Fetched)
    /\ txl.init = 0 => claimed = 0

\* What the worker knows about the indices of the engines may be old.
WorkerInv ==
    /\ ring_rx.head = OffsetOf(echoed)
    /\ ring_tx.tail = OffsetOf(echoed)
    /\ worker \in {"write_tx", "write_rx"} => echoed > 0
    /\ worker \in {"configure", "start", "exit"} => echoed = 0
    /\ worker \in {"read_tx", "check"} =>
           \E k \in 0 .. Published : echoed <= k /\ ring_rx.tail = OffsetOf(k)
    /\ worker = "check" =>
           \E k \in 0 .. Fetched : /\ echoed - k <= NumSlots - 1
                                   /\ ring_tx.head = OffsetOf(k)

HostIndexInv ==
    /\ cfg.rx_head = OffsetOf(Released)
    /\ cfg.tx_tail = OffsetOf(Handed)
    /\ echoed <= Published
    /\ echoed - Fetched <= NumSlots - 1
    /\ WorkerInv

IndexInv == RxIndexInv /\ TxIndexInv /\ HostIndexInv

\* Numbers less than one turn of the ring apart are told apart by their offsets.
LEMMA OffsetSame ==
  ASSUME WholeSlots, NEW a \in Nat, NEW b \in Nat,
         a - b < NumSlots, b - a < NumSlots, OffsetOf(a) = OffsetOf(b)
  PROVE  a = b
<1>1. 0 \in PacketOffsets /\ OffsetOf(a) + 0 = OffsetOf(b) + 0
  BY DEF PacketOffsets
<1>2. ~ (a < b)
  BY <1>1, OffsetDisjoint
<1>3. ~ (b < a)
  BY <1>1, OffsetDisjoint
<1>4. QED BY <1>2, <1>3

\* A context takes the next entry ...
LEMMA TurnsEnter ==
  ASSUME NEW H, NEW lo \in Nat, NEW hi \in Nat, lo <= hi, NEW turn,
         Turns(H, lo, hi, turn), NEW c, c \notin H
  PROVE  /\ Turns(H \cup {c}, lo, hi + 1, TurnTaken(H, turn, c, hi))
         /\ TurnTaken(H, turn, c, hi)[c] = hi
         /\ \A d \in H : TurnTaken(H, turn, c, hi)[d] = turn[d]
<1> DEFINE K == H \cup {c}
           next == [d \in K |-> IF d = c THEN hi ELSE turn[d]]
<1>1. \A d \in H : turn[d] \in lo .. (hi - 1) /\ next[d] = turn[d]
  BY DEF Turns
<1>2. next[c] = hi
  OBVIOUS
<1>3. lo .. ((hi + 1) - 1) = (lo .. (hi - 1)) \cup {hi} /\ hi \notin lo .. (hi - 1)
  OBVIOUS
<1>4. next \in [K -> lo .. ((hi + 1) - 1)]
  BY <1>1, <1>3
<1> HIDE DEF next
<1>5. \A d, e \in K : next[d] = next[e] => d = e
  BY <1>1, <1>2, <1>3 DEF Turns
<1>6. \A n \in lo .. ((hi + 1) - 1) : \E d \in K : next[d] = n
  BY <1>1, <1>2, <1>3 DEF Turns
<1>7. Turns(K, lo, hi + 1, next)
  BY <1>4, <1>5, <1>6 DEF Turns
<1>8. QED BY <1>1, <1>2, <1>7 DEF TurnTaken, next

\* ... and the one with the first entry gives it up.
LEMMA TurnsLeave ==
  ASSUME NEW H, NEW lo \in Nat, NEW hi \in Nat, NEW turn,
         Turns(H, lo, hi, turn), NEW c \in H, turn[c] = lo
  PROVE  /\ Turns(H \ {c}, lo + 1, hi, TurnOver(H, turn, c))
         /\ \A d \in H \ {c} : TurnOver(H, turn, c)[d] = turn[d]
<1> DEFINE K == H \ {c}
           next == [d \in K |-> turn[d]]
<1>1. \A d \in K : turn[d] \in (lo + 1) .. (hi - 1) /\ next[d] = turn[d]
  BY DEF Turns
<1>2. next \in [K -> (lo + 1) .. (hi - 1)]
  BY <1>1
<1> HIDE DEF next
<1>3. \A d, e \in K : next[d] = next[e] => d = e
  BY <1>1 DEF Turns
<1>4. ASSUME NEW n \in (lo + 1) .. (hi - 1) PROVE \E d \in K : next[d] = n
  <2>1. n \in lo .. (hi - 1) /\ n # lo
    OBVIOUS
  <2>2. PICK d \in H : turn[d] = n
    BY <2>1 DEF Turns
  <2>3. QED BY <1>1, <2>1, <2>2
<1>5. Turns(K, lo + 1, hi, next)
  BY <1>2, <1>3, <1>4 DEF Turns
<1>6. QED BY <1>1, <1>5 DEF TurnOver, next

\* One more context reads the index, as it is now ...
LEMMA ReadsJoin ==
  ASSUME NEW k \in Nat, NEW lo \in Int, NEW hi \in Nat, lo <= hi, NEW seen,
         Reads(k, lo, hi, seen)
  PROVE  \E new : /\ Reads(k + 1, lo, hi, new)
                  /\ new[k + 1] = hi /\ \A i \in 1 .. k : new[i] = seen[i]
<1> DEFINE next == [i \in 1 .. (k + 1) |-> IF i = k + 1 THEN hi ELSE seen[i]]
<1>1. \A i \in 1 .. (k + 1) : i \in 1 .. k \/ i = k + 1
  OBVIOUS
<1>2. \A i \in 1 .. k : /\ seen[i] \in Nat /\ lo <= seen[i] /\ seen[i] <= hi
                        /\ i \in 1 .. (k + 1) /\ i # k + 1 /\ next[i] = seen[i]
  BY DEF Reads
<1>3. next[k + 1] = hi
  OBVIOUS
<1>4. next \in [1 .. (k + 1) -> Nat]
  BY <1>1, <1>2
<1> HIDE DEF next
<1>5. \A i \in 1 .. (k + 1) : lo <= next[i] /\ next[i] <= hi
  BY <1>1, <1>2, <1>3
<1>6. ASSUME NEW i \in 1 .. (k + 1), NEW j \in 1 .. (k + 1), i <= j
      PROVE  next[i] <= next[j]
  <2>1. CASE j = k + 1
    BY <1>3, <1>5, <2>1
  <2>2. CASE j \in 1 .. k
    <3>1. i \in 1 .. k
      BY <1>6, <2>2
    <3>2. QED BY <1>2, <1>6, <2>2, <3>1 DEF Reads
  <2>3. QED BY <1>1, <2>1, <2>2
<1>7. Reads(k + 1, lo, hi, next)
  BY <1>4, <1>5, <1>6 DEF Reads
<1>8. QED BY <1>2, <1>3, <1>7

\* ... and the first one uses what it saw, which bounds what the others saw.
LEMMA ReadsLeave ==
  ASSUME NEW k \in Nat \ {0}, NEW lo \in Int, NEW hi \in Nat, NEW seen,
         Reads(k, lo, hi, seen), NEW first \in Int, first <= seen[1]
  PROVE  /\ Reads(k - 1, first, hi, SeenByRest(k, seen))
         /\ \A i \in 1 .. (k - 1) : SeenByRest(k, seen)[i] = seen[i + 1]
<1> DEFINE next == [i \in 1 .. (k - 1) |-> seen[i + 1]]
<1>1. \A i \in 1 .. (k - 1) : i + 1 \in 1 .. k /\ 1 <= i + 1 /\ next[i] = seen[i + 1]
  OBVIOUS
<1>2. 1 \in 1 .. k
  OBVIOUS
<1>3. \A i \in 1 .. k : seen[i] \in Nat /\ seen[i] <= hi /\ first <= seen[i]
  BY <1>2 DEF Reads
<1>4. next \in [1 .. (k - 1) -> Nat]
  BY <1>1, <1>3
<1> HIDE DEF next
<1>5. \A i \in 1 .. (k - 1) : first <= next[i] /\ next[i] <= hi
  BY <1>1, <1>3
<1>6. ASSUME NEW i \in 1 .. (k - 1), NEW j \in 1 .. (k - 1), i <= j
      PROVE  next[i] <= next[j]
  <2>1. i + 1 <= j + 1
    BY <1>6
  <2>2. QED BY <1>1, <2>1 DEF Reads
<1>7. Reads(k - 1, first, hi, next)
  BY <1>4, <1>5, <1>6 DEF Reads
<1>8. QED BY <1>1, <1>7 DEF SeenByRest, next

\* The index moves on: what was read stays as old as it was.
LEMMA ReadsOlder ==
  ASSUME NEW k \in Nat, NEW lo \in Int, NEW hi \in Nat, NEW new \in Nat, hi <= new,
         NEW seen, Reads(k, lo, hi, seen)
  PROVE  Reads(k, lo, new, seen) /\ seen \in [1 .. k -> 0 .. new]
<1>1. \A i \in 1 .. k : seen[i] \in Nat /\ seen[i] <= hi
  BY DEF Reads
<1>2. \A i \in 1 .. k : seen[i] <= new /\ seen[i] \in 0 .. new
  BY <1>1
<1>3. seen \in [1 .. k -> Nat]
  BY DEF Reads
<1>4. seen \in [1 .. k -> 0 .. new]
  BY <1>2, <1>3
<1>5. QED BY <1>2, <1>4 DEF Reads

\* A receive context takes an entry, gives it up, or does neither.
LEMMA RxHoldingStep ==
  ASSUME NEW c \in RxContexts, RxOthers(c)
  PROVE  /\ Cardinality(RxHolding) \in Nat
         /\ c \in RxHolding <=> rxc[c].pc \in {"dma", "publish"}
         /\ c \in RxHolding' <=> rxc'[c].pc \in {"dma", "publish"}
         /\ (c \in RxHolding <=> c \in RxHolding') => RxHolding' = RxHolding
         /\ c \notin RxHolding /\ c \in RxHolding' =>
                /\ RxHolding' = RxHolding \cup {c}
                /\ Cardinality(RxHolding') = Cardinality(RxHolding) + 1
         /\ c \in RxHolding /\ c \notin RxHolding' =>
                /\ RxHolding' = RxHolding \ {c}
                /\ Cardinality(RxHolding') = Cardinality(RxHolding) - 1
<1>1. IsFiniteSet(RxHolding) /\ Cardinality(RxHolding) \in Nat
  BY ContextsFinite DEF RxHolding
<1>2. RxHolding' = {d \in RxContexts : rxc'[d].pc \in {"dma", "publish"}}
  BY DEF RxHolding
<1>3. \A d \in RxContexts : d # c => (d \in RxHolding' <=> d \in RxHolding)
  BY <1>2 DEF RxOthers, RxHolding
<1>4. RxHolding \subseteq RxContexts /\ RxHolding' \subseteq RxContexts
  BY <1>2 DEF RxHolding
<1>5. (c \in RxHolding <=> c \in RxHolding') => RxHolding' = RxHolding
  BY <1>3, <1>4
<1>6. ASSUME c \notin RxHolding, c \in RxHolding'
      PROVE  /\ RxHolding' = RxHolding \cup {c}
             /\ Cardinality(RxHolding') = Cardinality(RxHolding) + 1
  <2>1. RxHolding' = RxHolding \cup {c}
    BY <1>3, <1>4, <1>6
  <2>2. QED BY <1>1, <1>6, <2>1, FS_AddElement
<1>7. ASSUME c \in RxHolding, c \notin RxHolding'
      PROVE  /\ RxHolding' = RxHolding \ {c}
             /\ Cardinality(RxHolding') = Cardinality(RxHolding) - 1
  <2>1. RxHolding' = RxHolding \ {c}
    BY <1>3, <1>4, <1>7
  <2>2. QED BY <1>1, <1>7, <2>1, FS_RemoveElement
<1>8. c \in RxHolding <=> rxc[c].pc \in {"dma", "publish"}
  BY DEF RxHolding
<1>9. c \in RxHolding' <=> rxc'[c].pc \in {"dma", "publish"}
  BY <1>2
<1>10. QED BY <1>1, <1>5, <1>6, <1>7, <1>8, <1>9

\* The steps of a receive context that move no index but that of its own turn.
LEMMA RxTurnsSame ==
  ASSUME RxTurns, NEW c \in RxContexts, RxOthers(c), UNCHANGED admitted,
         c \in RxHolding <=> c \in RxHolding',
         c \in RxHolding => /\ rxc'[c].tail = rxc[c].tail
                            /\ rxc'[c].updated_tail = rxc[c].updated_tail
  PROVE  RxTurns' /\ Published' = Published
<1>1. RxHolding' = RxHolding
  BY RxHoldingStep
<1>2. Published' = Published
  BY <1>1 DEF Published
<1>3. PICK turn \in [RxHolding -> Published .. (Len(admitted) - 1)] :
        /\ Turns(RxHolding, Published, Len(admitted), turn)
        /\ \A d \in RxHolding : /\ rxc[d].tail = OffsetOf(turn[d])
                                /\ rxc[d].updated_tail = OffsetOf(turn[d] + 1)
  BY DEF RxTurns
<1>4. \A d \in RxHolding : /\ rxc'[d].tail = OffsetOf(turn[d])
                           /\ rxc'[d].updated_tail = OffsetOf(turn[d] + 1)
  BY <1>3 DEF RxOthers, RxHolding
<1>5. QED BY <1>1, <1>2, <1>3, <1>4 DEF RxTurns

\* The steps of a receive context outside the queue keep what the others saw.
LEMMA RxReadsSame ==
  ASSUME RxReads, RxQueueInv, rxq \in Seq(RxContexts), NEW c \in RxContexts, RxOthers(c),
         rxc[c].pc # "resume", UNCHANGED <<rxq, admitted, Released>>
  PROVE  RxReads'
<1>1. \A i \in 1 .. Len(rxq) : rxq[i] \in RxContexts /\ rxq[i] # c
  BY DEF RxQueueInv, Queued, RxWaiting
<1>2. \A i \in 1 .. Len(rxq) : rxc'[rxq[i]] = rxc[rxq[i]]
  BY <1>1 DEF RxOthers
<1>3. QED BY <1>2 DEF RxReads

\* The counters count.
LEMMA CountersType ==
  ASSUME TypeInv, IndexInv
  PROVE  /\ Published \in Nat /\ Fetched \in Nat /\ Released \in Nat /\ Handed \in Nat
         /\ echoed \in Nat /\ claimed \in Nat /\ Len(admitted) \in Nat /\ Len(sent) \in Nat
         /\ Released <= Handed /\ Handed <= echoed /\ echoed <= Published
         /\ Published <= Len(admitted) /\ Fetched <= claimed /\ claimed <= Handed
         /\ Len(admitted) - Released <= NumSlots - 1 /\ echoed - Fetched <= NumSlots - 1
<1>1. /\ echoed \in Nat /\ claimed \in Nat /\ Len(admitted) \in Nat /\ Len(sent) \in Nat
  BY DEF TypeInv, TypeOK, HostTypeOK, TxTypeOK, RxTypeOK
<1>2. Cardinality(RxHolding) \in Nat /\ Cardinality(TxHolding) \in Nat
  BY ContextsFinite DEF RxHolding, TxHolding
<1>3. worker \in {"write_tx", "write_rx"} => echoed > 0
  BY DEF IndexInv, HostIndexInv, WorkerInv
<1>4. Released \in Nat /\ Handed \in Nat /\ Released <= Handed /\ Handed <= echoed
  BY <1>1, <1>3 DEF Released, Handed, Count
<1>5. /\ Published \in Nat /\ Fetched \in Nat /\ echoed <= Published /\ claimed <= Handed
      /\ Len(admitted) - Released <= NumSlots - 1 /\ echoed - Fetched <= NumSlots - 1
  BY DEF IndexInv, RxIndexInv, TxIndexInv, HostIndexInv, ReserveOnlyFree, ClaimOnlyHanded
<1>6. Published <= Len(admitted) /\ Fetched <= claimed
  BY <1>1, <1>2 DEF Published, Fetched
<1>7. QED BY <1>1, <1>4, <1>5, <1>6

\* What the receive engine's index invariant needs of the other parties.
LEMMA RxIndexKept ==
  ASSUME TypeInv, IndexInv, UNCHANGED <<rxl, rxc, rxq, admitted>>,
         cfg'.rx_tail = cfg.rx_tail, Released' \in Nat, Released <= Released'
  PROVE  RxIndexInv' /\ Published' = Published
<1>1. RxIndexInv
  BY DEF IndexInv
<1>2. /\ Released \in Nat /\ Len(admitted) \in Nat /\ Published \in Nat
      /\ Len(admitted) - Released <= NumSlots - 1
  BY CountersType
<1>3. RxHolding' = RxHolding /\ Published' = Published
  BY DEF RxHolding, Published
<1>4. RxTurns'
  BY <1>1, <1>3 DEF RxIndexInv, RxTurns
<1>5. NumSlots \in Int
  BY DEF NumSlots
<1>6. RxReads'
  <2>1. PICK seen \in [1 .. Len(rxq) -> 0 .. Released] :
          /\ Reads(Len(rxq), Len(admitted) - (NumSlots - 1), Released, seen)
          /\ \A i \in 1 .. Len(rxq) : rxc[rxq[i]].head = OffsetOf(seen[i])
    BY <1>1 DEF RxIndexInv, RxReads
  <2>2. Len(rxq) \in Nat /\ Len(admitted) - (NumSlots - 1) \in Int
    BY <1>2, <1>5, RxTypes
  <2>3. /\ Reads(Len(rxq), Len(admitted) - (NumSlots - 1), Released', seen)
        /\ seen \in [1 .. Len(rxq) -> 0 .. Released']
    BY <1>2, <2>1, <2>2, ReadsOlder
  <2>4. QED BY <2>1, <2>3 DEF RxReads
<1>7. ReserveOnlyFree'
  BY <1>2, <1>5 DEF ReserveOnlyFree
<1>8. QED BY <1>1, <1>3, <1>4, <1>6, <1>7 DEF RxIndexInv

\* A transmit context takes an entry, gives it up, or does neither.
LEMMA TxHoldingStep ==
  ASSUME NEW c \in TxContexts, TxOthers(c)
  PROVE  /\ Cardinality(TxHolding) \in Nat
         /\ c \in TxHolding <=> txc[c].pc \in {"dma", "publish"}
         /\ c \in TxHolding' <=> txc'[c].pc \in {"dma", "publish"}
         /\ (c \in TxHolding <=> c \in TxHolding') => TxHolding' = TxHolding
         /\ c \notin TxHolding /\ c \in TxHolding' =>
                /\ TxHolding' = TxHolding \cup {c}
                /\ Cardinality(TxHolding') = Cardinality(TxHolding) + 1
         /\ c \in TxHolding /\ c \notin TxHolding' =>
                /\ TxHolding' = TxHolding \ {c}
                /\ Cardinality(TxHolding') = Cardinality(TxHolding) - 1
<1>1. IsFiniteSet(TxHolding) /\ Cardinality(TxHolding) \in Nat
  BY ContextsFinite DEF TxHolding
<1>2. TxHolding' = {d \in TxContexts : txc'[d].pc \in {"dma", "publish"}}
  BY DEF TxHolding
<1>3. \A d \in TxContexts : d # c => (d \in TxHolding' <=> d \in TxHolding)
  BY <1>2 DEF TxOthers, TxHolding
<1>4. TxHolding \subseteq TxContexts /\ TxHolding' \subseteq TxContexts
  BY <1>2 DEF TxHolding
<1>5. (c \in TxHolding <=> c \in TxHolding') => TxHolding' = TxHolding
  BY <1>3, <1>4
<1>6. ASSUME c \notin TxHolding, c \in TxHolding'
      PROVE  /\ TxHolding' = TxHolding \cup {c}
             /\ Cardinality(TxHolding') = Cardinality(TxHolding) + 1
  <2>1. TxHolding' = TxHolding \cup {c}
    BY <1>3, <1>4, <1>6
  <2>2. QED BY <1>1, <1>6, <2>1, FS_AddElement
<1>7. ASSUME c \in TxHolding, c \notin TxHolding'
      PROVE  /\ TxHolding' = TxHolding \ {c}
             /\ Cardinality(TxHolding') = Cardinality(TxHolding) - 1
  <2>1. TxHolding' = TxHolding \ {c}
    BY <1>3, <1>4, <1>7
  <2>2. QED BY <1>1, <1>7, <2>1, FS_RemoveElement
<1>8. c \in TxHolding <=> txc[c].pc \in {"dma", "publish"}
  BY DEF TxHolding
<1>9. c \in TxHolding' <=> txc'[c].pc \in {"dma", "publish"}
  BY <1>2
<1>10. QED BY <1>1, <1>5, <1>6, <1>7, <1>8, <1>9

\* The steps of a transmit context that move no index but that of its own turn.
LEMMA TxTurnsSame ==
  ASSUME TxTurns, NEW c \in TxContexts, TxOthers(c), UNCHANGED claimed,
         c \in TxHolding <=> c \in TxHolding',
         c \in TxHolding => /\ txc'[c].head = txc[c].head
                            /\ txc'[c].updated_head = txc[c].updated_head
  PROVE  TxTurns' /\ Fetched' = Fetched
<1>1. TxHolding' = TxHolding
  BY TxHoldingStep
<1>2. Fetched' = Fetched
  BY <1>1 DEF Fetched
<1>3. PICK turn \in [TxHolding -> Fetched .. (claimed - 1)] :
        /\ Turns(TxHolding, Fetched, claimed, turn)
        /\ \A d \in TxHolding : /\ txc[d].head = OffsetOf(turn[d])
                                /\ txc[d].updated_head = OffsetOf(turn[d] + 1)
  BY DEF TxTurns
<1>4. \A d \in TxHolding : /\ txc'[d].head = OffsetOf(turn[d])
                           /\ txc'[d].updated_head = OffsetOf(turn[d] + 1)
  BY <1>3 DEF TxOthers, TxHolding
<1>5. QED BY <1>1, <1>2, <1>3, <1>4 DEF TxTurns

\* The steps of a transmit context outside the queue keep what the others saw.
LEMMA TxReadsSame ==
  ASSUME TxReads, TxQueueInv, txq \in Seq(TxContexts), NEW c \in TxContexts, TxOthers(c),
         txc[c].pc # "resume", UNCHANGED <<txq, claimed, Handed>>
  PROVE  TxReads'
<1>1. \A i \in 1 .. Len(txq) : txq[i] \in TxContexts /\ txq[i] # c
  BY DEF TxQueueInv, Queued, TxWaiting
<1>2. \A i \in 1 .. Len(txq) : txc'[txq[i]] = txc[txq[i]]
  BY <1>1 DEF TxOthers
<1>3. QED BY <1>2 DEF TxReads

\* What the transmit engine's index invariant needs of the other parties.
LEMMA TxIndexKept ==
  ASSUME TypeInv, IndexInv, UNCHANGED <<txl, txc, txq, claimed>>,
         cfg'.tx_head = cfg.tx_head, Handed' \in Nat, Handed <= Handed'
  PROVE  TxIndexInv' /\ Fetched' = Fetched
<1>1. TxIndexInv
  BY DEF IndexInv
<1>2. Handed \in Nat /\ claimed \in Nat /\ Fetched \in Nat /\ claimed <= Handed
  BY CountersType
<1>3. TxHolding' = TxHolding /\ Fetched' = Fetched
  BY DEF TxHolding, Fetched
<1>4. TxTurns'
  BY <1>1, <1>3 DEF TxIndexInv, TxTurns
<1>5. TxReads'
  <2>1. PICK seen \in [1 .. Len(txq) -> 0 .. Handed] :
          /\ Reads(Len(txq), claimed, Handed, seen)
          /\ \A i \in 1 .. Len(txq) : txc[txq[i]].tail = OffsetOf(seen[i])
    BY <1>1 DEF TxIndexInv, TxReads
  <2>2. Len(txq) \in Nat
    BY TxTypes
  <2>3. /\ Reads(Len(txq), claimed, Handed', seen)
        /\ seen \in [1 .. Len(txq) -> 0 .. Handed']
    BY <1>2, <2>1, <2>2, ReadsOlder
  <2>4. QED BY <2>1, <2>3 DEF TxReads
<1>6. ClaimOnlyHanded'
  BY <1>2 DEF ClaimOnlyHanded
<1>7. QED BY <1>1, <1>3, <1>4, <1>5, <1>6 DEF TxIndexInv

\* The steps of the receive engine keep the engine's index invariant.
LEMMA RxIndexStep ==
  ASSUME WholeSlots, InOrder, TypeInv, IndexInv, RxStep
  PROVE  /\ RxIndexInv' /\ Published' \in Nat /\ Published <= Published'
         /\ cfg'.rx_head = cfg.rx_head /\ cfg'.tx_head = cfg.tx_head
         /\ cfg'.tx_tail = cfg.tx_tail
<1>1. /\ cfg \in device_meta_t /\ rxl \in RxLocal /\ rxc \in [RxContexts -> RxContext]
      /\ rxq \in Seq(RxContexts) /\ Len(rxq) \in Nat
      /\ admitted \in Seq(Packets) /\ RxQueueInv
  BY RxTypes
<1>2. UNCHANGED <<worker, echoed, Released>>
  BY DEF RxStep, hostVars, Released
<1>3. PICK c \in RxContexts : \/ RxProcess(c)
                              \/ \E f \in Frames : RxDrop(c, f) \/ RxAllow(c, f)
  BY DEF RxStep, RxNext
<1>4. /\ Published \in Nat /\ cfg.rx_tail = OffsetOf(Published)
      /\ rxl.shadow_tail = OffsetOf(Len(admitted)) /\ RxTurns /\ RxReads
      /\ \A d \in RxContexts : rxc[d].pc = "publish" => rxc[d].tail = OffsetOf(Published)
      /\ rxl.init = 0 => Len(admitted) = 0
  BY DEF IndexInv, RxIndexInv
<1>5. /\ Released \in Nat /\ Len(admitted) \in Nat /\ Released <= Published
      /\ Published <= Len(admitted) /\ Len(admitted) - Released <= NumSlots - 1
      /\ NumSlots \in Nat /\ NumSlots >= 2
  BY CountersType, SlotFacts
<1>6. \A d \in RxContexts : rxc[d].pc # "start" =>
         /\ rxl.init # 0 /\ rxl.packet_size = UDP_PACKET_SIZE
         /\ rxl.buffer_capacity = RING_BUFFER_SIZE
  BY DEF TypeInv, ConfigInv, RxConfigInv
\* The steps that move no index.
<1>7. ASSUME RxOthers(c), UNCHANGED <<cfg, admitted>>, rxl'.shadow_tail = rxl.shadow_tail,
             rxl'.init = 0 => rxl.init = 0, RxReads',
             c \in RxHolding <=> c \in RxHolding',
             c \in RxHolding => /\ rxc'[c].tail = rxc[c].tail
                                /\ rxc'[c].updated_tail = rxc[c].updated_tail,
             rxc'[c].pc = "publish" => rxc'[c].tail = OffsetOf(Published)
      PROVE  RxIndexInv' /\ Published' \in Nat /\ Published <= Published'
  <2>1. RxTurns' /\ Published' = Published
    BY <1>4, <1>7, RxTurnsSame
  <2>2. \A d \in RxContexts : rxc'[d].pc = "publish" => rxc'[d].tail = OffsetOf(Published)
    BY <1>4, <1>7 DEF RxOthers
  <2>3. ReserveOnlyFree'
    BY <1>2, <1>5, <1>7 DEF ReserveOnlyFree
  <2>4. QED BY <1>4, <1>7, <2>1, <2>2, <2>3 DEF RxIndexInv
<1>8. ASSUME RxOthers(c), UNCHANGED <<rxq, admitted>>, rxc[c].pc # "resume"
      PROVE  RxReads'
  BY <1>1, <1>2, <1>4, <1>8, RxReadsSame
<1>9. c \in RxHolding <=> rxc[c].pc \in {"dma", "publish"}
  BY DEF RxHolding
<1>10. c \in RxHolding' <=> rxc'[c].pc \in {"dma", "publish"}
  BY DEF RxHolding
<1>11. CASE c = rx_ctx0 /\ RxMain0
  <2>1. /\ rxc[c].pc = "start" /\ rxc'[c].pc = "receive" /\ RxOthers(c)
        /\ rxl'.init = 1 /\ rxl'.shadow_tail = rxl.shadow_tail
        /\ UNCHANGED <<cfg, rxq, admitted>>
    BY <1>1, <1>11, RxMain0Does
  <2>2. QED BY <1>7, <1>8, <1>9, <1>10, <2>1
<1>12. CASE RxMain(c)
  <2>1. /\ rxc[c].pc = "start" /\ rxc'[c].pc = "receive" /\ RxOthers(c)
        /\ UNCHANGED <<cfg, rxl, rxq, admitted>>
    BY <1>1, <1>12, RxMainDoes
  <2>2. QED BY <1>7, <1>8, <1>9, <1>10, <2>1
<1>13. CASE \E f \in Frames : RxDrop(c, f)
  <2>1. UNCHANGED <<cfg, rxl, rxc, rxq, admitted>> /\ rxc[c].pc = "receive"
    BY <1>13 DEF RxDrop
  <2>2. RxOthers(c)
    BY <2>1 DEF RxOthers
  <2>3. QED BY <1>7, <1>8, <1>9, <1>10, <2>1, <2>2
<1>14. CASE \E f \in Frames : RxAllow(c, f)
  <2>1. /\ rxc[c].pc = "receive" /\ rxc'[c].pc = "head" /\ RxOthers(c)
        /\ UNCHANGED <<cfg, rxl, rxq, admitted>>
    BY <1>1, <1>14, RxAllowDoes
  <2>2. QED BY <1>7, <1>8, <1>9, <1>10, <2>1
<1>15. CASE RxReadHead(c)
  <2>1. /\ rxc[c].pc = "head" /\ rxq' = Append(rxq, c)
        /\ rxc'[c].pc = "resume" /\ rxc'[c].head = cfg.rx_head /\ RxOthers(c)
        /\ UNCHANGED <<cfg, rxl, admitted>>
    BY <1>1, <1>15, RxReadHeadDoes
  <2>2. RxReads'
    <3>1. PICK seen :
            /\ Reads(Len(rxq), Len(admitted) - (NumSlots - 1), Released, seen)
            /\ \A i \in 1 .. Len(rxq) : rxc[rxq[i]].head = OffsetOf(seen[i])
      BY <1>4 DEF RxReads
    <3> DEFINE k == Len(rxq)
               lo == Len(admitted) - (NumSlots - 1)
    <3>2. /\ Len(rxq') = k + 1 /\ k \in Nat
          /\ \A i \in 1 .. k : rxq'[i] = rxq[i]
          /\ rxq'[k + 1] = c
      BY <1>1, <2>1, AppendFacts
    <3>2a. lo \in Int /\ lo <= Released /\ k + 1 \in Nat
      BY <1>5, <3>2
    <3> HIDE DEF lo
    <3>3. PICK next : /\ Reads(k + 1, lo, Released, next)
                      /\ next[k + 1] = Released /\ \A i \in 1 .. k : next[i] = seen[i]
      <4>1. k \in Nat /\ Released \in Nat /\ Reads(k, lo, Released, seen)
        BY <1>5, <3>1, <3>2 DEF lo
      <4> HIDE DEF k
      <4>2. QED BY <3>2a, <4>1, ReadsJoin
    <3>4. next \in [1 .. (k + 1) -> 0 .. Released]
      <4>1. Released \in Nat /\ Released <= Released
        BY <1>5
      <4>2. QED BY <3>2a, <3>3, <4>1, ReadsOlder
    <3>5. cfg.rx_head = OffsetOf(Released)
      BY DEF IndexInv, HostIndexInv
    <3>6. ASSUME NEW i \in 1 .. (k + 1) PROVE rxc'[rxq'[i]].head = OffsetOf(next[i])
      <4>1. CASE i = k + 1
        BY <2>1, <3>2, <3>3, <3>5, <4>1
      <4>2. CASE i \in 1 .. k
        <5>1. rxq[i] \in RxContexts /\ rxq[i] # c
          BY <1>1, <2>1, <4>2 DEF RxQueueInv, Queued, RxWaiting
        <5>2. next[i] = seen[i]
          BY <3>3, <4>2
        <5>3. QED BY <2>1, <3>1, <3>2, <4>2, <5>1, <5>2 DEF RxOthers
      <4>3. QED BY <3>2, <4>1, <4>2
    <3>7. QED BY <1>2, <2>1, <3>2, <3>3, <3>4, <3>6 DEF RxReads, lo
  <2>3. QED BY <1>7, <1>9, <1>10, <2>1, <2>2
<1>16. ASSUME rxc[c].pc = "resume", rxq # <<>>, c = Head(rxq), rxq' = Tail(rxq), RxOthers(c),
              Len(admitted') \in Nat,
              NEW seen,
              Reads(Len(rxq), Len(admitted) - (NumSlots - 1), Released, seen),
              \A i \in 1 .. Len(rxq) : rxc[rxq[i]].head = OffsetOf(seen[i]),
              Len(admitted') - (NumSlots - 1) <= seen[1]
       PROVE  RxReads'
  <2> DEFINE k == Len(rxq)
             lo == Len(admitted') - (NumSlots - 1)
  <2>1. /\ Len(rxq') = k - 1 /\ k \in Nat \ {0} /\ c = rxq[1]
        /\ \A i \in 1 .. (k - 1) : rxq'[i] = rxq[i + 1]
    BY <1>1, <1>16, TailFacts
  <2>1a. /\ lo \in Int /\ lo <= seen[1] /\ k - 1 \in Nat
         /\ Len(admitted) - (NumSlots - 1) \in Int
    BY <1>5, <1>16, <2>1
  <2> HIDE DEF lo
  <2> DEFINE next == SeenByRest(k, seen)
  <2>2. /\ Reads(k - 1, lo, Released, next)
        /\ \A i \in 1 .. (k - 1) : next[i] = seen[i + 1]
    <3>1. /\ k \in Nat \ {0} /\ Released \in Nat
          /\ Reads(k, Len(admitted) - (NumSlots - 1), Released, seen)
      BY <1>5, <1>16, <2>1
    <3> HIDE DEF k
    <3>2. QED BY <2>1a, <3>1, ReadsLeave
  <2> HIDE DEF next
  <2>3. next \in [1 .. (k - 1) -> 0 .. Released]
    BY <1>5, <2>1a, <2>2, ReadsOlder
  <2>4. ASSUME NEW i \in 1 .. (k - 1) PROVE rxc'[rxq'[i]].head = OffsetOf(next[i])
    <3>1. i + 1 \in 1 .. k /\ i + 1 # 1 /\ 1 \in 1 .. k
      BY <2>1
    <3>2. rxq[i + 1] \in RxContexts /\ rxq[i + 1] # c
      BY <1>1, <2>1, <3>1 DEF RxQueueInv, Queued, RxWaiting
    <3>3. QED BY <1>16, <2>1, <2>2, <3>1, <3>2 DEF RxOthers
  <2>5. QED BY <1>2, <2>1, <2>2, <2>3, <2>4 DEF RxReads, lo
<1>17. PICK seen :
         /\ Reads(Len(rxq), Len(admitted) - (NumSlots - 1), Released, seen)
         /\ \A i \in 1 .. Len(rxq) : rxc[rxq[i]].head = OffsetOf(seen[i])
  BY <1>4 DEF RxReads
<1>18. ASSUME rxq # <<>>, c = Head(rxq)
       PROVE  /\ seen[1] \in Nat /\ Len(admitted) - (NumSlots - 1) <= seen[1]
              /\ seen[1] <= Released /\ rxc[c].head = OffsetOf(seen[1])
  <2>1. 1 \in 1 .. Len(rxq) /\ c = rxq[1]
    BY <1>1, <1>18, TailFacts
  <2>2. QED BY <1>17, <2>1 DEF Reads
<1>19. CASE RxRetry(c)
  <2>1. /\ rxc[c].pc = "resume" /\ rxq # <<>> /\ c = Head(rxq) /\ rxq' = Tail(rxq)
        /\ rxc'[c].pc = "head" /\ RxOthers(c)
        /\ UNCHANGED <<cfg, rxl, admitted>>
    BY <1>1, <1>19, RxRetryDoes
  <2>2. RxReads'
    BY <1>5, <1>16, <1>17, <1>18, <2>1
  <2>3. QED BY <1>7, <1>9, <1>10, <2>1, <2>2
<1>20. CASE RxReserve(c)
  <2>1. /\ rxc[c].pc = "resume" /\ rxq # <<>> /\ c = Head(rxq) /\ rxq' = Tail(rxq)
        /\ UpdatedTail # rxc[c].head
        /\ rxc'[c].pc = "dma" /\ rxc'[c].tail = rxl.shadow_tail
        /\ rxc'[c].updated_tail = UpdatedTail /\ RxOthers(c)
        /\ rxl'.shadow_tail = UpdatedTail /\ rxl'.init = rxl.init
        /\ admitted' = Append(admitted, rxc[c].pkt)
        /\ UNCHANGED cfg
    BY <1>1, <1>20, RxReserveDoes
  <2> DEFINE n == Len(admitted)
  <2>2. UpdatedTail = OffsetOf(n + 1)
    BY <1>4, <1>5, <1>6, <2>1, OffsetNext DEF UpdatedTail
  <2>3. Len(admitted') = n + 1
    <3>1. rxc[c].pkt \in Packets
      BY <2>1 DEF TypeInv, RxHandsInv
    <3>2. QED BY <1>1, <2>1, <3>1
  <2>4. n + 1 - seen[1] <= NumSlots - 1
    <3>1. ASSUME n + 1 = seen[1] + NumSlots PROVE FALSE
      <4>1. OffsetOf(seen[1] + NumSlots) = OffsetOf(seen[1])
        BY <1>18, <2>1, OffsetAround
      <4>2. OffsetOf(n + 1) = OffsetOf(seen[1])
        BY <3>1, <4>1
      <4>3. QED BY <1>18, <2>1, <2>2, <4>2
    <3>2. seen[1] \in Nat /\ n - (NumSlots - 1) <= seen[1]
      BY <1>18, <2>1
    <3>3. QED BY <1>5, <3>1, <3>2
  <2>5. RxReads'
    <3>1. Len(admitted') \in Nat /\ Len(admitted') - (NumSlots - 1) <= seen[1]
      BY <1>5, <1>18, <2>1, <2>3, <2>4
    <3>2. QED BY <1>16, <1>17, <2>1, <3>1
  <2>6. /\ c \notin RxHolding /\ RxHolding' = RxHolding \cup {c}
        /\ Cardinality(RxHolding') = Cardinality(RxHolding) + 1
        /\ Cardinality(RxHolding) \in Nat
    BY <1>9, <1>10, <2>1, RxHoldingStep
  <2>7. Published' = Published
    <3>1. Published' = Len(admitted') - Cardinality(RxHolding')
          /\ Published = Len(admitted) - Cardinality(RxHolding)
      BY DEF Published
    <3>2. QED BY <1>5, <2>3, <2>6, <3>1
  <2>8. RxTurns'
    <3>1. PICK turn :
            /\ Turns(RxHolding, Published, Len(admitted), turn)
            /\ \A d \in RxHolding : /\ rxc[d].tail = OffsetOf(turn[d])
                                    /\ rxc[d].updated_tail = OffsetOf(turn[d] + 1)
      BY <1>4 DEF RxTurns
    <3> DEFINE next == TurnTaken(RxHolding, turn, c, n)
    <3>2. /\ Turns(RxHolding \cup {c}, Published, n + 1, next)
          /\ next[c] = n /\ \A d \in RxHolding : next[d] = turn[d]
      <4>1. /\ Published \in Nat /\ n \in Nat /\ Published <= n
            /\ Turns(RxHolding, Published, n, turn) /\ c \notin RxHolding
        BY <1>4, <1>5, <2>6, <3>1
      <4> HIDE DEF n
      <4>2. QED BY <4>1, TurnsEnter
    <3> HIDE DEF next
    <3>3. next \in [RxHolding \cup {c} -> Published .. ((n + 1) - 1)]
      BY <3>2 DEF Turns
    <3>4. ASSUME NEW d \in RxHolding \cup {c}
          PROVE  /\ rxc'[d].tail = OffsetOf(next[d])
                 /\ rxc'[d].updated_tail = OffsetOf(next[d] + 1)
      <4>1. CASE d = c
        BY <1>4, <2>1, <2>2, <3>2, <4>1
      <4>2. CASE d # c
        <5>1. d \in RxHolding /\ d \in RxContexts /\ next[d] = turn[d]
          BY <3>2, <4>2 DEF RxHolding
        <5>2. QED BY <2>1, <3>1, <4>2, <5>1 DEF RxOthers
      <4>3. QED BY <4>1, <4>2
    <3>5. QED BY <2>3, <2>6, <2>7, <3>2, <3>3, <3>4 DEF RxTurns
  <2>9. \A d \in RxContexts : rxc'[d].pc = "publish" => rxc'[d].tail = OffsetOf(Published)
    BY <1>4, <2>1 DEF RxOthers
  <2>10. ReserveOnlyFree'
    <3>1. Len(admitted') - Released <= NumSlots - 1
      BY <1>5, <1>18, <2>1, <2>3, <2>4
    <3>2. QED BY <1>2, <3>1 DEF ReserveOnlyFree
  <2>11. rxl'.init # 0
    BY <1>6, <2>1
  <2>12. RxIndexInv'
    BY <1>4, <2>1, <2>2, <2>3, <2>5, <2>7, <2>8, <2>9, <2>10, <2>11 DEF RxIndexInv
  <2>13. QED BY <1>4, <2>1, <2>7, <2>12
<1>21. CASE \E part \in rxc[c].pending : RxDmaWrite(c, part)
  <2>1. /\ rxc[c].pc = "dma" /\ rxc'[c].pc = "dma"
        /\ rxc'[c].tail = rxc[c].tail /\ rxc'[c].updated_tail = rxc[c].updated_tail
        /\ RxOthers(c) /\ UNCHANGED <<cfg, rxl, rxq, admitted>>
    BY <1>1, <1>21, RxDmaWriteDoes
  <2>2. QED BY <1>7, <1>8, <1>9, <1>10, <2>1
<1>22. CASE RxTurn(c)
  <2>1. /\ rxc[c].pc = "dma" /\ cfg.rx_tail = rxc[c].tail
        /\ rxc'[c].pc = "publish"
        /\ rxc'[c].tail = rxc[c].tail /\ rxc'[c].updated_tail = rxc[c].updated_tail
        /\ RxOthers(c) /\ UNCHANGED <<cfg, rxl, rxq, admitted>>
    BY <1>1, <1>22, RxTurnDoes
  <2>2. QED BY <1>4, <1>7, <1>8, <1>9, <1>10, <2>1
<1>23. CASE RxPublish(c)
  <2>1. /\ rxc[c].pc = "publish" /\ cfg'.rx_tail = rxc[c].updated_tail
        /\ cfg'.rx_head = cfg.rx_head /\ cfg'.tx_head = cfg.tx_head
        /\ cfg'.tx_tail = cfg.tx_tail
        /\ rxc'[c].pc = "receive" /\ RxOthers(c)
        /\ UNCHANGED <<rxl, rxq, admitted>>
    BY <1>1, <1>23, RxPublishDoes
  <2>2. PICK turn :
          /\ Turns(RxHolding, Published, Len(admitted), turn)
          /\ \A d \in RxHolding : /\ rxc[d].tail = OffsetOf(turn[d])
                                  /\ rxc[d].updated_tail = OffsetOf(turn[d] + 1)
    BY <1>4 DEF RxTurns
\* A context that publishes holds the first entry, so there is only one.
  <2>3. ASSUME NEW d \in RxContexts, rxc[d].pc = "publish"
        PROVE  d \in RxHolding /\ turn[d] = Published
    <3>1. d \in RxHolding
      BY <2>3 DEF RxHolding
    <3>2. turn[d] \in Published .. (Len(admitted) - 1)
          /\ OffsetOf(turn[d]) = OffsetOf(Published)
      BY <1>4, <2>2, <2>3, <3>1 DEF Turns
    <3>3. /\ turn[d] \in Nat
          /\ turn[d] - Published < NumSlots /\ Published - turn[d] < NumSlots
      BY <1>5, <1>4, <3>2
    <3>4. turn[d] = Published
      BY <1>4, <3>2, <3>3, OffsetSame
    <3>5. QED BY <3>1, <3>4
  <2>4. /\ c \in RxHolding /\ RxHolding' = RxHolding \ {c}
        /\ Cardinality(RxHolding') = Cardinality(RxHolding) - 1
        /\ Cardinality(RxHolding) \in Nat
    BY <1>9, <1>10, <2>1, RxHoldingStep
  <2>5. Published' = Published + 1
    <3>1. Published' = Len(admitted') - Cardinality(RxHolding')
          /\ Published = Len(admitted) - Cardinality(RxHolding)
      BY DEF Published
    <3>2. QED BY <1>5, <2>1, <2>4, <3>1
  <2>6. cfg'.rx_tail = OffsetOf(Published + 1)
    BY <2>1, <2>2, <2>3
  <2>7. RxTurns'
    <3> DEFINE next == TurnOver(RxHolding, turn, c)
    <3>1. /\ Turns(RxHolding \ {c}, Published + 1, Len(admitted), next)
          /\ \A d \in RxHolding \ {c} : next[d] = turn[d]
      <4>1. /\ Published \in Nat /\ Len(admitted) \in Nat
            /\ Turns(RxHolding, Published, Len(admitted), turn)
            /\ c \in RxHolding /\ turn[c] = Published
        BY <1>4, <1>5, <2>1, <2>2, <2>3
      <4>2. QED BY <4>1, TurnsLeave
    <3> HIDE DEF next
    <3>2. next \in [RxHolding \ {c} -> (Published + 1) .. (Len(admitted) - 1)]
      BY <3>1 DEF Turns
    <3>3. \A d \in RxHolding \ {c} : /\ rxc'[d].tail = OffsetOf(next[d])
                                     /\ rxc'[d].updated_tail = OffsetOf(next[d] + 1)
      BY <2>1, <2>2, <3>1 DEF RxOthers, RxHolding
    <3>4. QED BY <2>1, <2>4, <2>5, <3>1, <3>2, <3>3 DEF RxTurns
  <2>8. ASSUME NEW d \in RxContexts PROVE rxc'[d].pc # "publish"
    <3>1. CASE d = c
      BY <2>1, <3>1
    <3>2. CASE d # c
      <4>1. rxc[d].pc # "publish"
        BY <2>1, <2>2, <2>3, <3>2 DEF Turns
      <4>2. QED BY <2>1, <3>2, <4>1 DEF RxOthers
    <3>3. QED BY <3>1, <3>2
  <2>9. RxReads'
    BY <1>8, <2>1
  <2>10. ReserveOnlyFree'
    BY <1>2, <1>5, <2>1 DEF ReserveOnlyFree
  <2>11. Published' \in Nat /\ Published <= Published'
    BY <1>4, <2>5
  <2>12. RxIndexInv'
    BY <1>4, <2>1, <2>5, <2>6, <2>7, <2>8, <2>9, <2>10, <2>11 DEF RxIndexInv
  <2>13. QED BY <2>1, <2>11, <2>12
<1>24. UNCHANGED cfg \/ RxPublish(c)
  BY <1>3 DEF RxProcess, RxMain0, RxMain, RxDrop, RxAllow, RxReadHead, RxRetry, RxReserve,
              RxDmaWrite, RxTurn
<1>25. CASE RxPublish(c)
  BY <1>1, <1>23, <1>25, RxPublishDoes
<1>26. QED
  BY <1>3, <1>11, <1>12, <1>13, <1>14, <1>15, <1>19, <1>20, <1>21, <1>22, <1>23, <1>24,
     <1>25 DEF RxProcess

\* The steps of a transmit context keep the engine's index invariant.
LEMMA TxIndexProcess ==
  ASSUME WholeSlots, InOrder, TypeInv, IndexInv, UNCHANGED hostVars,
         NEW c \in TxContexts, TxProcess(c)
  PROVE  /\ TxIndexInv' /\ Fetched' \in Nat /\ Fetched <= Fetched'
         /\ cfg'.rx_head = cfg.rx_head /\ cfg'.rx_tail = cfg.rx_tail
         /\ cfg'.tx_tail = cfg.tx_tail
<1>1. /\ cfg \in device_meta_t /\ txl \in TxLocal /\ txc \in [TxContexts -> TxContext(Bytes)]
      /\ txq \in Seq(TxContexts) /\ Len(txq) \in Nat
      /\ TxQueueInv
  BY TxTypes
<1>2. UNCHANGED <<worker, echoed, Handed>>
  BY DEF hostVars, Handed
<1>4. /\ Fetched \in Nat /\ cfg.tx_head = OffsetOf(Fetched)
      /\ txl.shadow_head = OffsetOf(claimed) /\ TxTurns /\ TxReads
      /\ \A d \in TxContexts : txc[d].pc = "publish" => txc[d].head = OffsetOf(Fetched)
      /\ txl.init = 0 => claimed = 0
  BY DEF IndexInv, TxIndexInv
<1>5. /\ Handed \in Nat /\ claimed \in Nat /\ claimed <= Handed
      /\ Fetched <= claimed /\ claimed - Fetched <= NumSlots - 1
      /\ NumSlots \in Nat /\ NumSlots >= 2
  <2>1. /\ Handed \in Nat /\ claimed \in Nat /\ claimed <= Handed /\ Fetched <= claimed
        /\ Fetched \in Nat /\ echoed \in Nat
        /\ Handed <= echoed /\ echoed - Fetched <= NumSlots - 1
    BY CountersType
  <2>2. QED BY <2>1, SlotFacts
<1>6. \A d \in TxContexts : txc[d].pc # "start" =>
         /\ txl.init # 0 /\ txl.packet_size = UDP_PACKET_SIZE
         /\ txl.buffer_capacity = RING_BUFFER_SIZE
  BY DEF TypeInv, ConfigInv, TxConfigInv
\* The steps that move no index.
<1>7. ASSUME TxOthers(c), UNCHANGED <<cfg, claimed>>, txl'.shadow_head = txl.shadow_head,
             txl'.init = 0 => txl.init = 0, TxReads',
             c \in TxHolding <=> c \in TxHolding',
             c \in TxHolding => /\ txc'[c].head = txc[c].head
                                /\ txc'[c].updated_head = txc[c].updated_head,
             txc'[c].pc = "publish" => txc'[c].head = OffsetOf(Fetched)
      PROVE  TxIndexInv' /\ Fetched' \in Nat /\ Fetched <= Fetched'
  <2>1. TxTurns' /\ Fetched' = Fetched
    BY <1>4, <1>7, TxTurnsSame
  <2>2. \A d \in TxContexts : txc'[d].pc = "publish" => txc'[d].head = OffsetOf(Fetched)
    BY <1>4, <1>7 DEF TxOthers
  <2>3. ClaimOnlyHanded'
    BY <1>2, <1>5, <1>7 DEF ClaimOnlyHanded
  <2>4. QED BY <1>4, <1>7, <2>1, <2>2, <2>3 DEF TxIndexInv
<1>8. ASSUME TxOthers(c), UNCHANGED <<txq, claimed>>, txc[c].pc # "resume"
      PROVE  TxReads'
  BY <1>1, <1>2, <1>4, <1>8, TxReadsSame
<1>9. c \in TxHolding <=> txc[c].pc \in {"dma", "publish"}
  BY DEF TxHolding
<1>10. c \in TxHolding' <=> txc'[c].pc \in {"dma", "publish"}
  BY DEF TxHolding
<1>11. CASE c = tx_ctx0 /\ TxMain0
  <2>1. /\ txc[c].pc = "start" /\ txc'[c].pc = "allocate" /\ TxOthers(c)
        /\ txl'.init = 1 /\ txl'.shadow_head = txl.shadow_head
        /\ UNCHANGED <<cfg, txq, claimed>>
    BY <1>1, <1>11, TxMain0Does
  <2>2. QED BY <1>7, <1>8, <1>9, <1>10, <2>1
<1>12. CASE TxMain(c)
  <2>1. /\ txc[c].pc = "start" /\ txc'[c].pc = "allocate" /\ TxOthers(c)
        /\ UNCHANGED <<cfg, txl, txq, claimed>>
    BY <1>1, <1>12, TxMainDoes
  <2>2. QED BY <1>7, <1>8, <1>9, <1>10, <2>1
<1>13. CASE TxAllocate(c)
  <2>1. /\ txc[c].pc = "allocate" /\ txc'[c].pc = "tail" /\ TxOthers(c)
        /\ UNCHANGED <<cfg, txl, txq, claimed>>
    BY <1>1, <1>13, TxAllocateDoes
  <2>2. QED BY <1>7, <1>8, <1>9, <1>10, <2>1
<1>14. CASE TxSend(c)
  <2>1. /\ txc[c].pc = "send" /\ txc'[c].pc = "allocate" /\ TxOthers(c)
        /\ UNCHANGED <<cfg, txl, txq, claimed>>
    BY <1>1, <1>14, TxSendDoes
  <2>2. QED BY <1>7, <1>8, <1>9, <1>10, <2>1
<1>15. CASE TxReadTail(c)
  <2>1. /\ txc[c].pc = "tail" /\ txq' = Append(txq, c)
        /\ txc'[c].pc = "resume" /\ txc'[c].tail = cfg.tx_tail /\ TxOthers(c)
        /\ UNCHANGED <<cfg, txl, claimed>>
    BY <1>1, <1>15, TxReadTailDoes
  <2>2. TxReads'
    <3>1. PICK seen :
            /\ Reads(Len(txq), claimed, Handed, seen)
            /\ \A i \in 1 .. Len(txq) : txc[txq[i]].tail = OffsetOf(seen[i])
      BY <1>4 DEF TxReads
    <3> DEFINE k == Len(txq)
               lo == claimed
    <3>2. /\ Len(txq') = k + 1 /\ k \in Nat
          /\ \A i \in 1 .. k : txq'[i] = txq[i]
          /\ txq'[k + 1] = c
      BY <1>1, <2>1, AppendFacts
    <3>2a. lo \in Int /\ lo <= Handed /\ k + 1 \in Nat
      BY <1>5, <3>2
    <3> HIDE DEF lo
    <3>3. PICK next : /\ Reads(k + 1, lo, Handed, next)
                      /\ next[k + 1] = Handed /\ \A i \in 1 .. k : next[i] = seen[i]
      <4>1. k \in Nat /\ Handed \in Nat /\ Reads(k, lo, Handed, seen)
        BY <1>5, <3>1, <3>2 DEF lo
      <4> HIDE DEF k
      <4>2. QED BY <3>2a, <4>1, ReadsJoin
    <3>4. next \in [1 .. (k + 1) -> 0 .. Handed]
      <4>1. Handed \in Nat /\ Handed <= Handed
        BY <1>5
      <4>2. QED BY <3>2a, <3>3, <4>1, ReadsOlder
    <3>5. cfg.tx_tail = OffsetOf(Handed)
      BY DEF IndexInv, HostIndexInv
    <3>6. ASSUME NEW i \in 1 .. (k + 1) PROVE txc'[txq'[i]].tail = OffsetOf(next[i])
      <4>1. CASE i = k + 1
        BY <2>1, <3>2, <3>3, <3>5, <4>1
      <4>2. CASE i \in 1 .. k
        <5>1. txq[i] \in TxContexts /\ txq[i] # c
          BY <1>1, <2>1, <4>2 DEF TxQueueInv, Queued, TxWaiting
        <5>2. next[i] = seen[i]
          BY <3>3, <4>2
        <5>3. QED BY <2>1, <3>1, <3>2, <4>2, <5>1, <5>2 DEF TxOthers
      <4>3. QED BY <3>2, <4>1, <4>2
    <3>7. QED BY <1>2, <2>1, <3>2, <3>3, <3>4, <3>6 DEF TxReads, lo
  <2>3. QED BY <1>7, <1>9, <1>10, <2>1, <2>2
<1>16. ASSUME txc[c].pc = "resume", txq # <<>>, c = Head(txq), txq' = Tail(txq), TxOthers(c),
              claimed' \in Nat,
              NEW seen,
              Reads(Len(txq), claimed, Handed, seen),
              \A i \in 1 .. Len(txq) : txc[txq[i]].tail = OffsetOf(seen[i]),
              claimed' <= seen[1]
       PROVE  TxReads'
  <2> DEFINE k == Len(txq)
             lo == claimed'
  <2>1. /\ Len(txq') = k - 1 /\ k \in Nat \ {0} /\ c = txq[1]
        /\ \A i \in 1 .. (k - 1) : txq'[i] = txq[i + 1]
    BY <1>1, <1>16, TailFacts
  <2>1a. /\ lo \in Int /\ lo <= seen[1] /\ k - 1 \in Nat
         /\ claimed \in Int
    BY <1>5, <1>16, <2>1
  <2> HIDE DEF lo
  <2> DEFINE next == SeenByRest(k, seen)
  <2>2. /\ Reads(k - 1, lo, Handed, next)
        /\ \A i \in 1 .. (k - 1) : next[i] = seen[i + 1]
    <3>1. /\ k \in Nat \ {0} /\ Handed \in Nat
          /\ Reads(k, claimed, Handed, seen)
      BY <1>5, <1>16, <2>1
    <3> HIDE DEF k
    <3>2. QED BY <2>1a, <3>1, ReadsLeave
  <2> HIDE DEF next
  <2>3. next \in [1 .. (k - 1) -> 0 .. Handed]
    BY <1>5, <2>1a, <2>2, ReadsOlder
  <2>4. ASSUME NEW i \in 1 .. (k - 1) PROVE txc'[txq'[i]].tail = OffsetOf(next[i])
    <3>1. i + 1 \in 1 .. k /\ i + 1 # 1 /\ 1 \in 1 .. k
      BY <2>1
    <3>2. txq[i + 1] \in TxContexts /\ txq[i + 1] # c
      BY <1>1, <2>1, <3>1 DEF TxQueueInv, Queued, TxWaiting
    <3>3. QED BY <1>16, <2>1, <2>2, <3>1, <3>2 DEF TxOthers
  <2>5. QED BY <1>2, <2>1, <2>2, <2>3, <2>4 DEF TxReads, lo
<1>17. PICK seen :
         /\ Reads(Len(txq), claimed, Handed, seen)
         /\ \A i \in 1 .. Len(txq) : txc[txq[i]].tail = OffsetOf(seen[i])
  BY <1>4 DEF TxReads
<1>18. ASSUME txq # <<>>, c = Head(txq)
       PROVE  /\ seen[1] \in Nat /\ claimed <= seen[1]
              /\ seen[1] <= Handed /\ txc[c].tail = OffsetOf(seen[1])
  <2>1. 1 \in 1 .. Len(txq) /\ c = txq[1]
    BY <1>1, <1>18, TailFacts
  <2>2. QED BY <1>17, <2>1 DEF Reads
<1>19. CASE TxRetry(c)
  <2>1. /\ txc[c].pc = "resume" /\ txq # <<>> /\ c = Head(txq) /\ txq' = Tail(txq)
        /\ txc'[c].pc = "tail" /\ TxOthers(c)
        /\ UNCHANGED <<cfg, txl, claimed>>
    BY <1>1, <1>19, TxRetryDoes
  <2>2. TxReads'
    BY <1>5, <1>16, <1>17, <1>18, <2>1
  <2>3. QED BY <1>7, <1>9, <1>10, <2>1, <2>2
<1>20. CASE TxClaim(c)
  <2>1. /\ txc[c].pc = "resume" /\ txq # <<>> /\ c = Head(txq) /\ txq' = Tail(txq)
        /\ txl.shadow_head # txc[c].tail
        /\ txc'[c].pc = "dma" /\ txc'[c].head = txl.shadow_head
        /\ txc'[c].updated_head = UpdatedHead /\ TxOthers(c)
        /\ txl'.shadow_head = UpdatedHead /\ txl'.init = txl.init
        /\ claimed' = claimed + 1
        /\ UNCHANGED cfg
    BY <1>1, <1>20, TxClaimDoes
  <2> DEFINE n == claimed
  <2>2. UpdatedHead = OffsetOf(n + 1)
    BY <1>4, <1>5, <1>6, <2>1, OffsetNext DEF UpdatedHead
  <2>3. claimed' = n + 1
    BY <2>1
  <2>4. n + 1 <= seen[1]
    <3>1. seen[1] # n
      BY <1>4, <1>18, <2>1
    <3>2. seen[1] \in Nat /\ n <= seen[1]
      BY <1>18, <2>1
    <3>3. QED BY <1>5, <3>1, <3>2
  <2>5. TxReads'
    <3>1. claimed' \in Nat /\ claimed' <= seen[1]
      BY <1>5, <1>18, <2>1, <2>3, <2>4
    <3>2. QED BY <1>16, <1>17, <2>1, <3>1
  <2>6. /\ c \notin TxHolding /\ TxHolding' = TxHolding \cup {c}
        /\ Cardinality(TxHolding') = Cardinality(TxHolding) + 1
        /\ Cardinality(TxHolding) \in Nat
    BY <1>9, <1>10, <2>1, TxHoldingStep
  <2>7. Fetched' = Fetched
    <3>1. Fetched' = claimed' - Cardinality(TxHolding')
          /\ Fetched = claimed - Cardinality(TxHolding)
      BY DEF Fetched
    <3>2. QED BY <1>5, <2>3, <2>6, <3>1
  <2>8. TxTurns'
    <3>1. PICK turn :
            /\ Turns(TxHolding, Fetched, claimed, turn)
            /\ \A d \in TxHolding : /\ txc[d].head = OffsetOf(turn[d])
                                    /\ txc[d].updated_head = OffsetOf(turn[d] + 1)
      BY <1>4 DEF TxTurns
    <3> DEFINE next == TurnTaken(TxHolding, turn, c, n)
    <3>2. /\ Turns(TxHolding \cup {c}, Fetched, n + 1, next)
          /\ next[c] = n /\ \A d \in TxHolding : next[d] = turn[d]
      <4>1. /\ Fetched \in Nat /\ n \in Nat /\ Fetched <= n
            /\ Turns(TxHolding, Fetched, n, turn) /\ c \notin TxHolding
        BY <1>4, <1>5, <2>6, <3>1
      <4>2. Turns(TxHolding \cup {c}, Fetched, n + 1, TurnTaken(TxHolding, turn, c, n))
        BY <4>1, TurnsEnter
      <4>3. TurnTaken(TxHolding, turn, c, n)[c] = n
        BY <4>1 DEF TurnTaken
      <4>4. \A d \in TxHolding : TurnTaken(TxHolding, turn, c, n)[d] = turn[d]
        BY <4>1 DEF TurnTaken
      <4>5. QED BY <4>2, <4>3, <4>4
    <3> HIDE DEF next
    <3>3. next \in [TxHolding \cup {c} -> Fetched .. ((n + 1) - 1)]
      BY <3>2 DEF Turns
    <3>4. ASSUME NEW d \in TxHolding \cup {c}
          PROVE  /\ txc'[d].head = OffsetOf(next[d])
                 /\ txc'[d].updated_head = OffsetOf(next[d] + 1)
      <4>1. CASE d = c
        BY <1>4, <2>1, <2>2, <3>2, <4>1
      <4>2. CASE d # c
        <5>1. d \in TxHolding /\ d \in TxContexts /\ next[d] = turn[d]
          BY <3>2, <4>2 DEF TxHolding
        <5>2. QED BY <2>1, <3>1, <4>2, <5>1 DEF TxOthers
      <4>3. QED BY <4>1, <4>2
    <3>5. QED BY <2>3, <2>6, <2>7, <3>2, <3>3, <3>4 DEF TxTurns
  <2>9. \A d \in TxContexts : txc'[d].pc = "publish" => txc'[d].head = OffsetOf(Fetched)
    BY <1>4, <2>1 DEF TxOthers
  <2>10. ClaimOnlyHanded'
    <3>1. claimed' <= Handed
      BY <1>5, <1>18, <2>1, <2>3, <2>4
    <3>2. QED BY <1>2, <3>1 DEF ClaimOnlyHanded
  <2>11. txl'.init # 0
    BY <1>6, <2>1
  <2>12. TxIndexInv'
    BY <1>4, <2>1, <2>2, <2>3, <2>5, <2>7, <2>8, <2>9, <2>10, <2>11 DEF TxIndexInv
  <2>13. QED BY <1>4, <2>1, <2>7, <2>12
<1>21. CASE \E part \in txc[c].pending : TxDmaRead(c, part)
  <2>1. /\ txc[c].pc = "dma" /\ txc'[c].pc = "dma"
        /\ txc'[c].head = txc[c].head /\ txc'[c].updated_head = txc[c].updated_head
        /\ TxOthers(c) /\ UNCHANGED <<cfg, txl, txq, claimed>>
    BY <1>1, <1>21, TxDmaReadDoes
  <2>2. QED BY <1>7, <1>8, <1>9, <1>10, <2>1
<1>22. CASE TxTurn(c)
  <2>1. /\ txc[c].pc = "dma" /\ cfg.tx_head = txc[c].head
        /\ txc'[c].pc = "publish"
        /\ txc'[c].head = txc[c].head /\ txc'[c].updated_head = txc[c].updated_head
        /\ TxOthers(c) /\ UNCHANGED <<cfg, txl, txq, claimed>>
    BY <1>1, <1>22, TxTurnDoes
  <2>2. QED BY <1>4, <1>7, <1>8, <1>9, <1>10, <2>1
<1>23. CASE TxPublish(c)
  <2>1. /\ txc[c].pc = "publish" /\ cfg'.tx_head = txc[c].updated_head
        /\ cfg'.rx_head = cfg.rx_head /\ cfg'.rx_tail = cfg.rx_tail
        /\ cfg'.tx_tail = cfg.tx_tail
        /\ txc'[c].pc = "send" /\ TxOthers(c)
        /\ UNCHANGED <<txl, txq, claimed>>
    BY <1>1, <1>23, TxPublishDoes
  <2>2. PICK turn :
          /\ Turns(TxHolding, Fetched, claimed, turn)
          /\ \A d \in TxHolding : /\ txc[d].head = OffsetOf(turn[d])
                                  /\ txc[d].updated_head = OffsetOf(turn[d] + 1)
    BY <1>4 DEF TxTurns
\* A context that publishes holds the first entry, so there is only one.
  <2>3. ASSUME NEW d \in TxContexts, txc[d].pc = "publish"
        PROVE  d \in TxHolding /\ turn[d] = Fetched
    <3>1. d \in TxHolding
      BY <2>3 DEF TxHolding
    <3>2. turn[d] \in Fetched .. (claimed - 1)
          /\ OffsetOf(turn[d]) = OffsetOf(Fetched)
      BY <1>4, <2>2, <2>3, <3>1 DEF Turns
    <3>3. /\ turn[d] \in Nat
          /\ turn[d] - Fetched < NumSlots /\ Fetched - turn[d] < NumSlots
      BY <1>5, <1>4, <3>2
    <3>4. turn[d] = Fetched
      BY <1>4, <3>2, <3>3, OffsetSame
    <3>5. QED BY <3>1, <3>4
  <2>4. /\ c \in TxHolding /\ TxHolding' = TxHolding \ {c}
        /\ Cardinality(TxHolding') = Cardinality(TxHolding) - 1
        /\ Cardinality(TxHolding) \in Nat
    BY <1>9, <1>10, <2>1, TxHoldingStep
  <2>5. Fetched' = Fetched + 1
    <3>1. Fetched' = claimed' - Cardinality(TxHolding')
          /\ Fetched = claimed - Cardinality(TxHolding)
      BY DEF Fetched
    <3>2. QED BY <1>5, <2>1, <2>4, <3>1
  <2>6. cfg'.tx_head = OffsetOf(Fetched + 1)
    BY <2>1, <2>2, <2>3
  <2>7. TxTurns'
    <3> DEFINE next == TurnOver(TxHolding, turn, c)
    <3>1. /\ Turns(TxHolding \ {c}, Fetched + 1, claimed, next)
          /\ \A d \in TxHolding \ {c} : next[d] = turn[d]
      <4>1. /\ Fetched \in Nat /\ claimed \in Nat
            /\ Turns(TxHolding, Fetched, claimed, turn)
            /\ c \in TxHolding /\ turn[c] = Fetched
        BY <1>4, <1>5, <2>1, <2>2, <2>3
      <4>2. QED BY <4>1, TurnsLeave
    <3> HIDE DEF next
    <3>2. next \in [TxHolding \ {c} -> (Fetched + 1) .. (claimed - 1)]
      BY <3>1 DEF Turns
    <3>3. \A d \in TxHolding \ {c} : /\ txc'[d].head = OffsetOf(next[d])
                                     /\ txc'[d].updated_head = OffsetOf(next[d] + 1)
      BY <2>1, <2>2, <3>1 DEF TxOthers, TxHolding
    <3>4. QED BY <2>1, <2>4, <2>5, <3>1, <3>2, <3>3 DEF TxTurns
  <2>8. ASSUME NEW d \in TxContexts PROVE txc'[d].pc # "publish"
    <3>1. CASE d = c
      BY <2>1, <3>1
    <3>2. CASE d # c
      <4>1. txc[d].pc # "publish"
        BY <2>1, <2>2, <2>3, <3>2 DEF Turns
      <4>2. QED BY <2>1, <3>2, <4>1 DEF TxOthers
    <3>3. QED BY <3>1, <3>2
  <2>9. TxReads'
    BY <1>8, <2>1
  <2>10. ClaimOnlyHanded'
    BY <1>2, <1>5, <2>1 DEF ClaimOnlyHanded
  <2>11. Fetched' \in Nat /\ Fetched <= Fetched'
    BY <1>4, <2>5
  <2>12. TxIndexInv'
    BY <1>4, <2>1, <2>5, <2>6, <2>7, <2>8, <2>9, <2>10, <2>11 DEF TxIndexInv
  <2>13. QED BY <2>1, <2>11, <2>12
<1>24. UNCHANGED cfg \/ TxPublish(c)
  BY DEF TxProcess, TxMain0, TxMain, TxAllocate, TxReadTail, TxRetry, TxClaim,
         TxDmaRead, TxTurn, TxSend
<1>25. CASE TxPublish(c)
  BY <1>1, <1>23, <1>25, TxPublishDoes
<1>26. QED
  BY <1>11, <1>12, <1>13, <1>14, <1>15, <1>19, <1>20, <1>21, <1>22, <1>23, <1>24,
     <1>25 DEF TxProcess

\* The steps of the transmit engine keep the engine's index invariant.
LEMMA TxIndexStep ==
  ASSUME WholeSlots, InOrder, TypeInv, IndexInv, TxStep
  PROVE  /\ TxIndexInv' /\ Fetched' \in Nat /\ Fetched <= Fetched'
         /\ cfg'.rx_head = cfg.rx_head /\ cfg'.rx_tail = cfg.rx_tail
         /\ cfg'.tx_tail = cfg.tx_tail
<1>1. UNCHANGED hostVars
  BY DEF TxStep
<1>2. CASE NbiTransmit
  <2>1. UNCHANGED <<cfg, txl, txc, txq, claimed>>
    BY <1>2 DEF NbiTransmit
  <2>2. Handed' = Handed
    BY <1>1 DEF hostVars, Handed
  <2>3. Handed \in Nat /\ Fetched \in Nat
    BY CountersType
  <2>4. TxIndexInv' /\ Fetched' = Fetched
    BY <2>1, <2>2, <2>3, TxIndexKept
  <2>5. QED BY <2>1, <2>3, <2>4
<1>3. CASE \E c \in TxContexts : TxProcess(c)
  BY <1>1, <1>3, TxIndexProcess
<1>4. QED BY <1>2, <1>3 DEF TxStep, TxNext

\* What the worker's index invariant needs of the engines: their indices grow.
LEMMA HostIndexKept ==
  ASSUME WholeSlots, TypeInv, IndexInv, UNCHANGED hostVars,
         cfg'.rx_head = cfg.rx_head, cfg'.tx_tail = cfg.tx_tail,
         Published' \in Nat, Published <= Published', Fetched' \in Nat, Fetched <= Fetched'
  PROVE  /\ HostIndexInv'
         /\ Released' \in Nat /\ Released' = Released
         /\ Handed' \in Nat /\ Handed' = Handed
<1>1. UNCHANGED <<worker, ring_rx, ring_tx, echoed>>
  BY DEF hostVars
<1>2. Released' = Released /\ Handed' = Handed
  BY <1>1 DEF Released, Handed
<1>3. /\ Published \in Nat /\ Fetched \in Nat /\ Released \in Nat /\ Handed \in Nat
      /\ echoed \in Nat /\ echoed <= Published /\ echoed - Fetched <= NumSlots - 1
  BY CountersType
<1>4. HostIndexInv /\ WorkerInv
  BY DEF IndexInv, HostIndexInv
<1>5. echoed' <= Published' /\ echoed' - Fetched' <= NumSlots - 1
  BY <1>1, <1>3, SlotFacts
<1>6. 0 .. Published \subseteq 0 .. Published' /\ 0 .. Fetched \subseteq 0 .. Fetched'
  BY <1>3
<1>7. ASSUME worker \in {"read_tx", "check"}
      PROVE  \E k \in 0 .. Published' : echoed <= k /\ ring_rx.tail = OffsetOf(k)
  BY <1>4, <1>6, <1>7 DEF WorkerInv
<1>8. ASSUME worker = "check"
      PROVE  \E k \in 0 .. Fetched' : /\ echoed - k <= NumSlots - 1
                                      /\ ring_tx.head = OffsetOf(k)
  BY <1>4, <1>6, <1>8 DEF WorkerInv
<1>9. WorkerInv'
  BY <1>1, <1>4, <1>7, <1>8 DEF WorkerInv
<1>10. cfg'.rx_head = OffsetOf(Released') /\ cfg'.tx_tail = OffsetOf(Handed')
  BY <1>2, <1>4 DEF HostIndexInv
<1>11. QED BY <1>2, <1>3, <1>5, <1>9, <1>10 DEF HostIndexInv

\* Nothing has been reserved, claimed or copied at the start.
LEMMA IndexInit ==
  ASSUME WholeSlots, Init
  PROVE  IndexInv
<1>1. RxHolding = {} /\ TxHolding = {}
  BY DEF Init, RxInit, TxInit, RxIdle, TxIdle, RxHolding, TxHolding
<1>2. Cardinality(RxHolding) = 0 /\ Cardinality(TxHolding) = 0
  BY <1>1, FS_EmptySet
<1>3. admitted = <<>> /\ claimed = 0 /\ Len(admitted) = 0
  BY DEF Init, RxInit, TxInit
<1>4. Published = 0 /\ Fetched = 0
  BY <1>2, <1>3 DEF Published, Fetched
<1>5. worker = "configure" /\ echoed = 0
  BY DEF Init, HostInit
<1>6. Released = 0 /\ Handed = 0
  <2>1. /\ Count(worker = "write_tx") = 0
        /\ Count(worker \in {"write_tx", "write_rx"}) = 0
    BY <1>5 DEF Count
  <2>2. QED BY <1>5, <2>1 DEF Released, Handed
<1>7. NumSlots - 1 >= 0 /\ NumSlots \in Nat
  BY SlotFacts
<1>8. RxTurns
  <2>1. \E turn : turn \in [RxHolding -> Published .. (Len(admitted) - 1)]
    <3>1. [c \in {} |-> 0] \in [RxHolding -> Published .. (Len(admitted) - 1)]
      BY <1>1
    <3>2. QED BY <3>1
  <2>2. Published .. (Len(admitted) - 1) = {}
    BY <1>3, <1>4
  <2>3. QED BY <1>1, <2>1, <2>2 DEF RxTurns, Turns
<1>9. TxTurns
  <2>1. \E turn : turn \in [TxHolding -> Fetched .. (claimed - 1)]
    <3>1. [c \in {} |-> 0] \in [TxHolding -> Fetched .. (claimed - 1)]
      BY <1>1
    <3>2. QED BY <3>1
  <2>2. Fetched .. (claimed - 1) = {}
    BY <1>3, <1>4
  <2>3. QED BY <1>1, <2>1, <2>2 DEF TxTurns, Turns
<1>10. Len(rxq) = 0 /\ Len(txq) = 0
  BY DEF Init, RxInit, TxInit
<1>11. RxReads
  <2>1. 1 .. Len(rxq) = {}
    BY <1>10
  <2>2. PICK seen : seen \in [{} -> 0 .. Released] /\ seen \in [{} -> Nat]
    <3>1. [i \in {} |-> 0] \in [{} -> 0 .. Released] /\ [i \in {} |-> 0] \in [{} -> Nat]
      OBVIOUS
    <3>2. QED BY <3>1
  <2>3. QED BY <2>1, <2>2 DEF RxReads, Reads
<1>12. TxReads
  <2>1. 1 .. Len(txq) = {}
    BY <1>10
  <2>2. PICK seen : seen \in [{} -> 0 .. Handed] /\ seen \in [{} -> Nat]
    <3>1. [i \in {} |-> 0] \in [{} -> 0 .. Handed] /\ [i \in {} |-> 0] \in [{} -> Nat]
      OBVIOUS
    <3>2. QED BY <3>1
  <2>3. QED BY <2>1, <2>2 DEF TxReads, Reads
<1>13. /\ \A c \in RxContexts : rxc[c].pc # "publish"
       /\ \A c \in TxContexts : txc[c].pc # "publish"
  BY DEF Init, RxInit, TxInit, RxIdle, TxIdle
<1>14. /\ cfg.rx_tail = 0 /\ cfg.rx_head = 0 /\ cfg.tx_tail = 0 /\ cfg.tx_head = 0
       /\ rxl.shadow_tail = 0 /\ txl.shadow_head = 0
       /\ ring_rx.head = 0 /\ ring_tx.tail = 0
  BY DEF Init, MetaInit, RxInit, TxInit, HostInit
<1>15. RxIndexInv
  BY <1>3, <1>4, <1>6, <1>7, <1>8, <1>11, <1>13, <1>14, OffsetZero
     DEF RxIndexInv, ReserveOnlyFree
<1>16. TxIndexInv
  BY <1>3, <1>4, <1>6, <1>9, <1>12, <1>13, <1>14, OffsetZero
     DEF TxIndexInv, ClaimOnlyHanded
<1>17. HostIndexInv
  BY <1>4, <1>5, <1>6, <1>7, <1>14, OffsetZero DEF HostIndexInv, WorkerInv
<1>18. QED BY <1>15, <1>16, <1>17 DEF IndexInv

\* The worker's steps preserve the index invariant.
LEMMA HostIndexStep ==
  ASSUME WholeSlots, TypeInv, IndexInv, HostStep
  PROVE  IndexInv'
<1>1. UNCHANGED <<rxl, rxc, rxq, arrived, admitted, txl, txc, txq, claimed, sent>>
  BY DEF HostStep, rxVars, txVars
<1>2. /\ Published \in Nat /\ Released \in Nat /\ Handed \in Nat /\ Fetched \in Nat
      /\ echoed \in Nat /\ echoed <= Published /\ echoed - Fetched <= NumSlots - 1
      /\ Released <= echoed /\ Handed <= echoed
  BY CountersType
<1>3. Published' = Published /\ Fetched' = Fetched
  BY <1>1 DEF Published, Fetched, RxHolding, TxHolding
<1>4. /\ cfg.rx_head = OffsetOf(Released) /\ cfg.tx_tail = OffsetOf(Handed)
      /\ cfg.rx_tail = OffsetOf(Published) /\ cfg.tx_head = OffsetOf(Fetched)
      /\ WorkerInv
  BY DEF IndexInv, HostIndexInv, RxIndexInv, TxIndexInv
<1>5. /\ cfg \in device_meta_t
      /\ ring_rx \in ringbuffer_t(Offsets) /\ ring_tx \in ringbuffer_t(Offsets)
  BY DEF TypeInv, TypeOK, HostTypeOK
<1>6. ASSUME cfg'.rx_tail = cfg.rx_tail, cfg'.tx_head = cfg.tx_head,
             Released' \in Nat, Released <= Released', Handed' \in Nat, Handed <= Handed',
             cfg'.rx_head = OffsetOf(Released'), cfg'.tx_tail = OffsetOf(Handed'),
             echoed' <= Published, echoed' - Fetched <= NumSlots - 1, WorkerInv'
      PROVE  IndexInv'
  <2>1. RxIndexInv' /\ TxIndexInv'
    BY <1>1, <1>6, RxIndexKept, TxIndexKept
  <2>2. HostIndexInv'
    BY <1>3, <1>6 DEF HostIndexInv
  <2>3. QED BY <2>1, <2>2 DEF IndexInv
\* The steps that move no index of the device.
<1>7. ASSUME UNCHANGED <<echoed, Handed, Released>>,
             cfg'.rx_head = cfg.rx_head, cfg'.rx_tail = cfg.rx_tail,
             cfg'.tx_head = cfg.tx_head, cfg'.tx_tail = cfg.tx_tail, WorkerInv'
      PROVE  IndexInv'
  BY <1>2, <1>4, <1>6, <1>7
<1>8. CASE HostMapFails
  <2>1. worker = "configure" /\ worker' = "exit"
        /\ UNCHANGED <<cfg, ring_rx, ring_tx, echoed>>
    BY <1>8 DEF HostMapFails
  <2>2. Handed' = Handed /\ Released' = Released
    BY <2>1 DEF Handed, Released, Count
  <2>3. WorkerInv'
    BY <1>4, <2>1 DEF WorkerInv
  <2>4. QED BY <1>7, <2>1, <2>2, <2>3
<1>9. CASE HostConfigure
  <2>1. /\ worker = "configure" /\ worker' = "start" /\ UNCHANGED echoed
        /\ ring_rx'.head = ring_rx.head /\ ring_tx'.tail = ring_tx.tail
        /\ cfg'.rx_head = 0 /\ cfg'.rx_tail = 0
        /\ cfg'.tx_head = 0 /\ cfg'.tx_tail = 0
    BY <1>5, <1>9 DEF HostConfigure, device_meta_t, ringbuffer_t
  <2>2. cfg.start_signal = 0
    BY <2>1 DEF TypeInv, ConfigInv, HostConfigInv, Configured
  <2>3. rxl.init = 0 /\ txl.init = 0
    BY <2>2 DEF TypeInv, ConfigInv, RxConfigInv, TxConfigInv
  <2>4. RxHolding = {} /\ TxHolding = {}
    BY <2>3 DEF TypeInv, ConfigInv, RxConfigInv, TxConfigInv, RxHolding, TxHolding
  <2>5. Len(admitted) = 0 /\ claimed = 0 /\ echoed = 0
    BY <1>4, <2>1, <2>3 DEF IndexInv, RxIndexInv, TxIndexInv, WorkerInv
  <2>6. Published = 0 /\ Fetched = 0
    BY <2>4, <2>5, FS_EmptySet DEF Published, Fetched
  <2>7. Released = 0 /\ Handed = 0 /\ Released' = 0 /\ Handed' = 0
    <3>1. /\ Count(worker = "write_tx") = 0 /\ Count(worker' = "write_tx") = 0
          /\ Count(worker \in {"write_tx", "write_rx"}) = 0
          /\ Count(worker' \in {"write_tx", "write_rx"}) = 0
      BY <2>1 DEF Count
    <3>2. QED BY <2>1, <2>5, <3>1 DEF Handed, Released
  <2>8. WorkerInv'
    BY <1>4, <2>1 DEF WorkerInv
  <2>9. /\ cfg'.rx_head = cfg.rx_head /\ cfg'.rx_tail = cfg.rx_tail
        /\ cfg'.tx_head = cfg.tx_head /\ cfg'.tx_tail = cfg.tx_tail
    BY <1>4, <2>1, <2>6, <2>7, OffsetZero
  <2>10. QED BY <1>7, <2>1, <2>7, <2>8, <2>9
<1>10. CASE HostStart
  <2>1. /\ worker = "start" /\ worker' = "read_rx"
        /\ UNCHANGED <<ring_rx, ring_tx, echoed>>
        /\ cfg'.rx_head = cfg.rx_head /\ cfg'.rx_tail = cfg.rx_tail
        /\ cfg'.tx_head = cfg.tx_head /\ cfg'.tx_tail = cfg.tx_tail
    BY <1>5, <1>10 DEF HostStart, device_meta_t
  <2>2. Handed' = Handed /\ Released' = Released
    BY <2>1 DEF Handed, Released, Count
  <2>3. WorkerInv'
    BY <1>4, <2>1 DEF WorkerInv
  <2>4. QED BY <1>7, <2>1, <2>2, <2>3
<1>11. CASE HostReadRx
  <2>1. /\ worker = "read_rx" /\ worker' = "read_tx"
        /\ UNCHANGED <<cfg, ring_tx, echoed>>
        /\ ring_rx'.head = ring_rx.head /\ ring_rx'.tail = cfg.rx_tail
    BY <1>5, <1>11 DEF HostReadRx, ringbuffer_t
  <2>2. Handed' = Handed /\ Released' = Released
    BY <2>1 DEF Handed, Released, Count
  <2>3. \E k \in 0 .. Published : echoed <= k /\ ring_rx'.tail = OffsetOf(k)
    <3>1. Published \in 0 .. Published
      BY <1>2
    <3>2. QED BY <1>2, <1>4, <2>1, <3>1
  <2>4. WorkerInv'
    BY <1>3, <1>4, <2>1, <2>3 DEF WorkerInv
  <2>5. QED BY <1>7, <2>1, <2>2, <2>4
<1>12. CASE HostReadTx
  <2>1. /\ worker = "read_tx" /\ worker' = "check"
        /\ UNCHANGED <<cfg, ring_rx, echoed>>
        /\ ring_tx'.tail = ring_tx.tail /\ ring_tx'.head = cfg.tx_head
    BY <1>5, <1>12 DEF HostReadTx, ringbuffer_t
  <2>2. Handed' = Handed /\ Released' = Released
    BY <2>1 DEF Handed, Released, Count
  <2>3. \E k \in 0 .. Fetched : /\ echoed - k <= NumSlots - 1
                                /\ ring_tx'.head = OffsetOf(k)
    <3>1. Fetched \in 0 .. Fetched
      BY <1>2
    <3>2. QED BY <1>2, <1>4, <2>1, <3>1
  <2>4. WorkerInv'
    BY <1>3, <1>4, <2>1, <2>3 DEF WorkerInv
  <2>5. QED BY <1>7, <2>1, <2>2, <2>4
<1>13. CASE HostSkip
  <2>1. worker = "check" /\ worker' = "read_rx"
        /\ UNCHANGED <<cfg, ring_rx, ring_tx, echoed>>
    BY <1>13 DEF HostSkip
  <2>2. Handed' = Handed /\ Released' = Released
    BY <2>1 DEF Handed, Released, Count
  <2>3. WorkerInv'
    BY <1>4, <2>1 DEF WorkerInv
  <2>4. QED BY <1>7, <2>1, <2>2, <2>3
<1>14. CASE HostEcho
  <2>1. /\ worker = "check" /\ worker' = "write_tx" /\ UNCHANGED cfg
        /\ echoed' = echoed + 1
        /\ ring_rx.head # ring_rx.tail
        /\ (ring_tx.tail + ring_tx.entry_size) % ring_tx.capacity # ring_tx.head
        /\ ring_rx'.head = Advance(ring_rx.head, ring_rx.entry_size, ring_rx.capacity)
        /\ ring_tx'.tail = Advance(ring_tx.tail, ring_tx.entry_size, ring_tx.capacity)
    BY <1>5, <1>14 DEF HostEcho, ringbuffer_t, ringbuffer_empty, ringbuffer_full,
                       ringbuffer_pop, ringbuffer_push
  <2>2. /\ ring_rx.entry_size = UDP_PACKET_SIZE /\ ring_rx.capacity = RING_BUFFER_SIZE
        /\ ring_tx.entry_size = UDP_PACKET_SIZE /\ ring_tx.capacity = RING_BUFFER_SIZE
    BY <2>1 DEF TypeInv, ConfigInv, HostConfigInv, Configured
  <2>3. ring_rx.head = OffsetOf(echoed) /\ ring_tx.tail = OffsetOf(echoed)
    BY <1>4 DEF WorkerInv
  <2>4. PICK k \in 0 .. Published : echoed <= k /\ ring_rx.tail = OffsetOf(k)
    BY <1>4, <2>1 DEF WorkerInv
  <2>5. PICK h \in 0 .. Fetched : /\ echoed - h <= NumSlots - 1
                                  /\ ring_tx.head = OffsetOf(h)
    BY <1>4, <2>1 DEF WorkerInv
  <2>6. echoed + 1 <= Published
    <3>1. echoed # k
      BY <2>1, <2>3, <2>4
    <3>2. QED BY <1>2, <2>4, <3>1
  <2>7. echoed + 1 - Fetched <= NumSlots - 1
    <3>1. OffsetOf(echoed + 1) # OffsetOf(h)
      BY <1>2, <2>1, <2>2, <2>3, <2>5, OffsetNext
    <3>2. h \in Nat /\ h <= Fetched
      BY <1>2
    <3>3. echoed + 1 # h + NumSlots
      BY <3>1, <3>2, OffsetAround
    <3>4. QED BY <1>2, <2>5, <3>2, <3>3, SlotFacts
  <2>8. ring_rx'.head = OffsetOf(echoed') /\ ring_tx'.tail = OffsetOf(echoed')
    BY <1>2, <2>1, <2>2, <2>3, OffsetNext
  <2>9. Released = echoed /\ Handed = echoed
    BY <1>2, <2>1 DEF Released, Handed, Count
  <2>10. Released' = Released /\ Handed' = Handed
    <3>1. /\ Count(worker' = "write_tx") = 1
          /\ Count(worker' \in {"write_tx", "write_rx"}) = 1
      BY <2>1 DEF Count
    <3>2. QED BY <1>2, <2>1, <2>9, <3>1 DEF Released, Handed
  <2>11. WorkerInv'
    <3>1. echoed' > 0
      BY <1>2, <2>1
    <3>2. QED BY <2>1, <2>8, <3>1 DEF WorkerInv
  <2>12. echoed' <= Published /\ echoed' - Fetched <= NumSlots - 1
    <3>1. echoed' = echoed + 1
      BY <2>1
    <3>2. QED BY <1>2, <2>6, <2>7, <3>1, SlotFacts
  <2>13. QED BY <1>2, <1>4, <1>6, <2>1, <2>10, <2>11, <2>12
<1>15. CASE HostWriteTx
  <2>1. /\ worker = "write_tx" /\ worker' = "write_rx"
        /\ UNCHANGED <<ring_rx, ring_tx, echoed>>
        /\ cfg'.tx_tail = ring_tx.tail
        /\ cfg'.rx_head = cfg.rx_head /\ cfg'.rx_tail = cfg.rx_tail
        /\ cfg'.tx_head = cfg.tx_head
    BY <1>5, <1>15 DEF HostWriteTx, device_meta_t
  <2>2. Released' = Released /\ Handed' = echoed
    <3>1. /\ Count(worker' = "write_tx") = 0
          /\ Count(worker' \in {"write_tx", "write_rx"})
               = Count(worker \in {"write_tx", "write_rx"})
      BY <2>1 DEF Count
    <3>2. QED BY <1>2, <2>1, <3>1 DEF Released, Handed
  <2>3. WorkerInv' /\ ring_tx.tail = OffsetOf(echoed)
    BY <1>4, <2>1 DEF WorkerInv
  <2>4. QED BY <1>2, <1>4, <1>6, <2>1, <2>2, <2>3
<1>16. CASE HostWriteRx
  <2>1. /\ worker = "write_rx" /\ worker' = "read_rx"
        /\ UNCHANGED <<ring_rx, ring_tx, echoed>>
        /\ cfg'.rx_head = ring_rx.head
        /\ cfg'.tx_tail = cfg.tx_tail /\ cfg'.rx_tail = cfg.rx_tail
        /\ cfg'.tx_head = cfg.tx_head
    BY <1>5, <1>16 DEF HostWriteRx, device_meta_t
  <2>2. Released' = echoed /\ Handed' = Handed
    <3>1. /\ Count(worker' = "write_tx") = 0 /\ Count(worker = "write_tx") = 0
          /\ Count(worker' \in {"write_tx", "write_rx"}) = 0
      BY <2>1 DEF Count
    <3>2. QED BY <1>2, <2>1, <3>1 DEF Released, Handed
  <2>3. WorkerInv' /\ ring_rx.head = OffsetOf(echoed)
    BY <1>4, <2>1 DEF WorkerInv
  <2>4. QED BY <1>2, <1>4, <1>6, <2>1, <2>2, <2>3
<1>17. QED
  BY <1>8, <1>9, <1>10, <1>11, <1>12, <1>13, <1>14, <1>15, <1>16
     DEF HostStep, HostNext

\* Every step of the composition preserves the index invariant.
LEMMA IndexStep ==
  ASSUME WholeSlots, InOrder, TypeInv, IndexInv, [Next]_vars
  PROVE  IndexInv'
<1>1. /\ Published \in Nat /\ Fetched \in Nat /\ Released \in Nat /\ Handed \in Nat
  BY CountersType
<1>2. CASE RxStep
  <2>1. UNCHANGED <<tx_mem, txVars, hostVars>>
    BY <1>2 DEF RxStep
  <2>2. UNCHANGED <<txl, txc, txq, claimed>> /\ Fetched' = Fetched
    BY <2>1 DEF txVars, Fetched, TxHolding
  <2>3. /\ RxIndexInv' /\ Published' \in Nat /\ Published <= Published'
        /\ cfg'.rx_head = cfg.rx_head /\ cfg'.tx_head = cfg.tx_head
        /\ cfg'.tx_tail = cfg.tx_tail
    BY <1>2, RxIndexStep
  <2>4. HostIndexInv' /\ Handed' \in Nat /\ Handed' = Handed
    BY <1>1, <2>1, <2>2, <2>3, HostIndexKept
  <2>5. TxIndexInv'
    BY <2>2, <2>3, <2>4, TxIndexKept
  <2>6. QED BY <2>3, <2>4, <2>5 DEF IndexInv
<1>3. CASE TxStep
  <2>1. UNCHANGED <<rx_mem, rxVars, hostVars>>
    BY <1>3 DEF TxStep
  <2>2. UNCHANGED <<rxl, rxc, rxq, admitted>> /\ Published' = Published
    BY <2>1 DEF rxVars, Published, RxHolding
  <2>3. /\ TxIndexInv' /\ Fetched' \in Nat /\ Fetched <= Fetched'
        /\ cfg'.rx_head = cfg.rx_head /\ cfg'.rx_tail = cfg.rx_tail
        /\ cfg'.tx_tail = cfg.tx_tail
    BY <1>3, TxIndexStep
  <2>4. HostIndexInv' /\ Released' \in Nat /\ Released' = Released
    BY <1>1, <2>1, <2>2, <2>3, HostIndexKept
  <2>5. RxIndexInv'
    BY <2>2, <2>3, <2>4, RxIndexKept
  <2>6. QED BY <2>3, <2>4, <2>5 DEF IndexInv
<1>4. CASE HostStep
  BY <1>4, HostIndexStep
<1>5. CASE UNCHANGED vars
  <2>1. /\ UNCHANGED <<cfg, rxl, rxc, rxq, admitted, txl, txc, txq, claimed>>
        /\ UNCHANGED hostVars
    BY <1>5 DEF vars, rxVars, txVars
  <2>2. Published' = Published /\ Fetched' = Fetched
    BY <2>1 DEF Published, Fetched, RxHolding, TxHolding
  <2>3. /\ HostIndexInv' /\ Handed' \in Nat /\ Handed' = Handed
        /\ Released' \in Nat /\ Released' = Released
    BY <1>1, <2>1, <2>2, HostIndexKept
  <2>4. RxIndexInv' /\ TxIndexInv'
    BY <2>1, <2>3, RxIndexKept, TxIndexKept
  <2>5. QED BY <2>3, <2>4 DEF IndexInv
<1>6. QED BY <1>2, <1>3, <1>4, <1>5 DEF Next, RxStep, TxStep, HostStep

\* The index invariant holds throughout.
LEMMA IndexInvariant ==
  ASSUME WholeSlots, InOrder
  PROVE  Spec => [](TypeInv /\ IndexInv)
<1>1. Init => TypeInv /\ IndexInv
  BY TypeInit, IndexInit
<1>2. (TypeInv /\ IndexInv) /\ [Next]_vars => (TypeInv /\ IndexInv)'
  BY TypeStep, IndexStep
<1>3. QED BY <1>1, <1>2, PTL DEF Spec

(***************************************************************************)
(* If contexts run again in the order of their reads (InOrder), then, however *)
(* the contexts of an engine interleave their DMAs, they publish in           *)
(* the order in which they reserved: the published index counts the finished *)
(* entries, and the contexts in between hold the others, each its own        *)
(* (multi_rx.c:84-100, multi_tx.c:56-73).                                    *)
(***************************************************************************)
THEOREM PublicationOrdered ==
  ASSUME WholeSlots, InOrder
  PROVE  Spec => []OrderedPublication
<1>1. TypeInv /\ IndexInv => OrderedPublication
  <2> SUFFICES ASSUME TypeInv, IndexInv PROVE OrderedPublication
    OBVIOUS
  <2>1. Published \in Nat /\ Fetched \in Nat /\ Len(admitted) \in Nat /\ claimed \in Nat
    BY CountersType
  <2>2. /\ cfg.rx_tail = OffsetOf(Published) /\ rxl.shadow_tail = OffsetOf(Len(admitted))
        /\ cfg.tx_head = OffsetOf(Fetched) /\ txl.shadow_head = OffsetOf(claimed)
        /\ RxTurns /\ TxTurns
    BY DEF IndexInv, RxIndexInv, TxIndexInv
  <2>3. {rxc[c].tail : c \in RxHolding} = {OffsetOf(n) : n \in Published .. (Len(admitted) - 1)}
    <3>1. PICK turn : /\ Turns(RxHolding, Published, Len(admitted), turn)
                      /\ \A c \in RxHolding : rxc[c].tail = OffsetOf(turn[c])
      BY <2>2 DEF RxTurns
    <3>2. /\ \A c \in RxHolding : turn[c] \in Published .. (Len(admitted) - 1)
          /\ \A n \in Published .. (Len(admitted) - 1) : \E c \in RxHolding : turn[c] = n
      BY <3>1 DEF Turns
    <3>3. \A c \in RxHolding : \E n \in Published .. (Len(admitted) - 1) : rxc[c].tail = OffsetOf(n)
      BY <3>1, <3>2
    <3>4. \A n \in Published .. (Len(admitted) - 1) : \E c \in RxHolding : OffsetOf(n) = rxc[c].tail
      BY <3>1, <3>2
    <3>5. QED BY <3>3, <3>4
  <2>4. {txc[c].head : c \in TxHolding} = {OffsetOf(n) : n \in Fetched .. (claimed - 1)}
    <3>1. PICK turn : /\ Turns(TxHolding, Fetched, claimed, turn)
                      /\ \A c \in TxHolding : txc[c].head = OffsetOf(turn[c])
      BY <2>2 DEF TxTurns
    <3>2. /\ \A c \in TxHolding : turn[c] \in Fetched .. (claimed - 1)
          /\ \A n \in Fetched .. (claimed - 1) : \E c \in TxHolding : turn[c] = n
      BY <3>1 DEF Turns
    <3>3. \A c \in TxHolding : \E n \in Fetched .. (claimed - 1) : txc[c].head = OffsetOf(n)
      BY <3>1, <3>2
    <3>4. \A n \in Fetched .. (claimed - 1) : \E c \in TxHolding : OffsetOf(n) = txc[c].head
      BY <3>1, <3>2
    <3>5. QED BY <3>3, <3>4
  <2>5. QED BY <2>2, <2>3, <2>4 DEF OrderedPublication
<1>2. QED BY IndexInvariant, <1>1, PTL

(***************************************************************************)
(* If contexts run again in the order of their reads (InOrder), none        *)
(* reserves an entry the worker has not given back, although other contexts  *)
(* reserve between its read of the head and its use                          *)
(* (multi_rx.c:66-84).                                                       *)
(***************************************************************************)
THEOREM ReservationsSafe ==
  ASSUME WholeSlots, InOrder
  PROVE  Spec => []ReserveOnlyFree
<1>1. IndexInv => ReserveOnlyFree
  BY DEF IndexInv, RxIndexInv
<1>2. QED BY IndexInvariant, <1>1, PTL

(***************************************************************************)
(* If contexts run again in the order of their reads (InOrder), none claims *)
(* an entry the worker has not handed over, although other contexts          *)
(* claim between its read of the tail and its use                            *)
(* (multi_tx.c:38-56).                                                       *)
(***************************************************************************)
THEOREM ClaimsSafe ==
  ASSUME WholeSlots, InOrder
  PROVE  Spec => []ClaimOnlyHanded
<1>1. IndexInv => ClaimOnlyHanded
  BY DEF IndexInv, TxIndexInv
<1>2. QED BY IndexInvariant, <1>1, PTL

-----------------------------------------------------------------------------
(***************************************************************************)
(* The data.  A context that holds entry number n moves packet number n, and *)
(* what its DMAs have moved so far is in place.                              *)
(***************************************************************************)
RxFilled(c, n) ==
    /\ rxc[c].pkt = admitted[n + 1]
    /\ \A b \in DoneBytes(rxc[c].pending) :
          rx_mem[OffsetOf(n) + b] = <<admitted[n + 1], b>>

RxDataInv ==
    /\ \A c \in RxHolding : rxc[c].pc = "publish" => rxc[c].pending = {}
    /\ \A c \in RxHolding : \A n \in Published .. (Len(admitted) - 1) :
          rxc[c].tail = OffsetOf(n) => RxFilled(c, n)

TxFilled(c, n) ==
    \A b \in DoneBytes(txc[c].pending) : txc[c].pkt.data[b] = <<admitted[n + 1], b>>

TxDataInv ==
    /\ \A c \in TxHolding :
          txc[c].pc = "publish" =>
              /\ txc[c].pending = {}
              /\ txc[c].pkt.len = UDP_PACKET_SIZE + MAC_PREPEND_BYTES
    /\ \A c \in TxHolding : \A n \in Fetched .. (claimed - 1) :
          txc[c].head = OffsetOf(n) => TxFilled(c, n)

DataInv == RxDataInv /\ TxDataInv /\ EntriesIntact

-----------------------------------------------------------------------------
\* No context holds an entry at the start and none has been published.
LEMMA DataInit ==
  ASSUME WholeSlots, Init
  PROVE  DataInv
<1>1. RxHolding = {} /\ TxHolding = {}
  BY DEF Init, RxInit, TxInit, RxIdle, TxIdle, RxHolding, TxHolding
<1>2. Len(admitted) = 0 /\ claimed = 0 /\ echoed = 0
  BY DEF Init, RxInit, TxInit, HostInit
<1>3. Published = 0 /\ Fetched = 0
  BY <1>1, <1>2, FS_EmptySet DEF Published, Fetched
<1>4. EntriesIntact
  BY <1>2, <1>3 DEF EntriesIntact
<1>5. QED BY <1>1, <1>4 DEF DataInv, RxDataInv, TxDataInv

\* The entries between two counters less than one turn apart have offsets of
\* their own.
LEMMA SlotsApart ==
  ASSUME WholeSlots, NEW lo \in Nat, NEW hi \in Nat, hi - lo <= NumSlots - 1,
         NEW m \in lo .. hi, NEW n \in lo .. hi, OffsetOf(m) = OffsetOf(n)
  PROVE  m = n
<1>1. m \in Nat /\ n \in Nat /\ m - n < NumSlots /\ n - m < NumSlots
  BY SlotFacts
<1>2. QED BY <1>1, OffsetSame

\* The bytes of different entries between two such counters do not overlap.
LEMMA SlotsDisjoint ==
  ASSUME WholeSlots, NEW lo \in Nat, NEW hi \in Nat, hi - lo <= NumSlots - 1,
         NEW m \in lo .. hi, NEW n \in lo .. hi, m # n,
         NEW i \in PacketOffsets, NEW j \in PacketOffsets
  PROVE  OffsetOf(m) + i # OffsetOf(n) + j
<1>1. m \in Nat /\ n \in Nat /\ m - n < NumSlots /\ n - m < NumSlots
  BY SlotFacts
<1>2. CASE m < n
  BY <1>1, <1>2, OffsetDisjoint
<1>3. CASE n < m
  BY <1>1, <1>3, OffsetDisjoint
<1>4. QED BY <1>1, <1>2, <1>3

\* How far apart the counters are.
LEMMA CountersSpan ==
  ASSUME WholeSlots, TypeInv, IndexInv
  PROVE  /\ Published \in Nat /\ Fetched \in Nat /\ echoed \in Nat
         /\ claimed \in Nat /\ Len(admitted) \in Nat
         /\ echoed <= Published /\ Published <= Len(admitted)
         /\ Fetched <= claimed /\ claimed <= echoed
         /\ Len(admitted) - echoed <= NumSlots - 1
         /\ Len(admitted) - Published <= NumSlots - 1
         /\ echoed - Fetched <= NumSlots - 1 /\ claimed - Fetched <= NumSlots - 1
<1>1. /\ Published \in Nat /\ Fetched \in Nat /\ Released \in Nat /\ Handed \in Nat
      /\ echoed \in Nat /\ claimed \in Nat /\ Len(admitted) \in Nat
      /\ Released <= Handed /\ Handed <= echoed /\ echoed <= Published
      /\ Published <= Len(admitted) /\ Fetched <= claimed /\ claimed <= Handed
      /\ Len(admitted) - Released <= NumSlots - 1 /\ echoed - Fetched <= NumSlots - 1
  BY CountersType
<1>2. QED BY <1>1, SlotFacts

\* The entry of a receive context, which is no other context's.
LEMMA RxEntry ==
  ASSUME WholeSlots, TypeInv, IndexInv, NEW c \in RxHolding
  PROVE  \E m \in Published .. (Len(admitted) - 1) :
            /\ rxc[c].tail = OffsetOf(m)
            /\ \A d \in RxHolding : d # c => rxc[d].tail # OffsetOf(m)
<1>1. PICK turn : /\ Turns(RxHolding, Published, Len(admitted), turn)
                  /\ \A d \in RxHolding : rxc[d].tail = OffsetOf(turn[d])
  BY DEF IndexInv, RxIndexInv, RxTurns
<1>2. /\ \A d \in RxHolding : turn[d] \in Published .. (Len(admitted) - 1)
      /\ \A d, e \in RxHolding : turn[d] = turn[e] => d = e
  BY <1>1 DEF Turns
<1>3. /\ Published \in Nat /\ Len(admitted) \in Nat
      /\ Len(admitted) - Published <= NumSlots - 1
  BY CountersSpan
<1>4. ASSUME NEW d \in RxHolding, OffsetOf(turn[d]) = OffsetOf(turn[c])
      PROVE  d = c
  <2>1. turn[d] \in Published .. Len(admitted) /\ turn[c] \in Published .. Len(admitted)
    BY <1>2, <1>3
  <2>2. turn[d] = turn[c]
    BY <1>3, <1>4, <2>1, SlotsApart
  <2>3. QED BY <1>2, <2>2
<1>5. QED BY <1>1, <1>2, <1>4

\* The entry of a transmit context, which is no other context's.
LEMMA TxEntry ==
  ASSUME WholeSlots, TypeInv, IndexInv, NEW c \in TxHolding
  PROVE  \E m \in Fetched .. (claimed - 1) :
            /\ txc[c].head = OffsetOf(m)
            /\ \A d \in TxHolding : d # c => txc[d].head # OffsetOf(m)
<1>1. PICK turn : /\ Turns(TxHolding, Fetched, claimed, turn)
                  /\ \A d \in TxHolding : txc[d].head = OffsetOf(turn[d])
  BY DEF IndexInv, TxIndexInv, TxTurns
<1>2. /\ \A d \in TxHolding : turn[d] \in Fetched .. (claimed - 1)
      /\ \A d, e \in TxHolding : turn[d] = turn[e] => d = e
  BY <1>1 DEF Turns
<1>3. /\ Fetched \in Nat /\ claimed \in Nat
      /\ claimed - Fetched <= NumSlots - 1
  BY CountersSpan
<1>4. ASSUME NEW d \in TxHolding, OffsetOf(turn[d]) = OffsetOf(turn[c])
      PROVE  d = c
  <2>1. turn[d] \in Fetched .. claimed /\ turn[c] \in Fetched .. claimed
    BY <1>2, <1>3
  <2>2. turn[d] = turn[c]
    BY <1>3, <1>4, <2>1, SlotsApart
  <2>3. QED BY <1>2, <2>2
<1>5. QED BY <1>1, <1>2, <1>4

\* A step of a receive context that moves no data and no index.
LEMMA RxDataSame ==
  ASSUME RxDataInv, NEW c \in RxContexts, RxOthers(c), RxHolding' = RxHolding,
         UNCHANGED <<rx_mem, admitted, Published>>,
         c \in RxHolding => /\ rxc'[c].tail = rxc[c].tail /\ rxc'[c].pkt = rxc[c].pkt
                            /\ rxc'[c].pending = rxc[c].pending
                            /\ rxc'[c].pc = "publish" => rxc[c].pending = {}
  PROVE  RxDataInv'
<1>1. \A d \in RxHolding : d \in RxContexts
  BY DEF RxHolding
<1>2. ASSUME NEW d \in RxHolding
      PROVE  /\ rxc'[d].tail = rxc[d].tail /\ rxc'[d].pkt = rxc[d].pkt
             /\ rxc'[d].pending = rxc[d].pending
             /\ rxc'[d].pc = "publish" => rxc[d].pending = {}
  <2>1. CASE d = c
    BY <2>1
  <2>2. CASE d # c
    <3>1. rxc'[d] = rxc[d]
      BY <1>1, <2>2 DEF RxOthers
    <3>2. QED BY <3>1 DEF RxDataInv
  <2>3. QED BY <2>1, <2>2
<1>3. ASSUME NEW d \in RxHolding, NEW n, RxFilled(d, n)
      PROVE  RxFilled(d, n)'
  BY <1>2, <1>3 DEF RxFilled
<1>4. QED BY <1>2, <1>3 DEF RxDataInv

\* The same of a transmit context.
LEMMA TxDataSame ==
  ASSUME TxDataInv, NEW c \in TxContexts, TxOthers(c), TxHolding' = TxHolding,
         UNCHANGED <<admitted, claimed, Fetched>>,
         c \in TxHolding => /\ txc'[c].head = txc[c].head
                            /\ txc'[c].pending = txc[c].pending
                            /\ txc'[c].pkt.data = txc[c].pkt.data
                            /\ txc'[c].pc = "publish" =>
                                  /\ txc[c].pending = {}
                                  /\ txc'[c].pkt.len = UDP_PACKET_SIZE + MAC_PREPEND_BYTES
  PROVE  TxDataInv'
<1>1. \A d \in TxHolding : d \in TxContexts
  BY DEF TxHolding
<1>2. ASSUME NEW d \in TxHolding
      PROVE  /\ txc'[d].head = txc[d].head
             /\ txc'[d].pending = txc[d].pending
             /\ txc'[d].pkt.data = txc[d].pkt.data
             /\ txc'[d].pc = "publish" =>
                   /\ txc[d].pending = {}
                   /\ txc'[d].pkt.len = UDP_PACKET_SIZE + MAC_PREPEND_BYTES
  <2>1. CASE d = c
    BY <2>1
  <2>2. CASE d # c
    <3>1. txc'[d] = txc[d]
      BY <1>1, <2>2 DEF TxOthers
    <3>2. QED BY <3>1 DEF TxDataInv
  <2>3. QED BY <2>1, <2>2
<1>3. ASSUME NEW d \in TxHolding, NEW n, TxFilled(d, n)
      PROVE  TxFilled(d, n)'
  BY <1>2, <1>3 DEF TxFilled
<1>4. QED BY <1>2, <1>3 DEF TxDataInv
\* The packets admitted so far stay what they are.
LEMMA Admitting ==
  ASSUME admitted \in Seq(Packets), NEW p \in Packets, admitted' = Append(admitted, p)
  PROVE  /\ Len(admitted) \in Nat /\ Len(admitted') = Len(admitted) + 1
         /\ admitted'[Len(admitted) + 1] = p
         /\ \A n \in 1 .. Len(admitted) : admitted'[n] = admitted[n]
OBVIOUS

\* What a receive step that admits nothing leaves alone.
LEMMA RxDataFrame ==
  ASSUME DataInv, RxStep, UNCHANGED <<rx_mem, admitted, Published>>
  PROVE  TxDataInv' /\ EntriesIntact'
<1>1. UNCHANGED <<tx_mem, txc, claimed, echoed>> /\ TxHolding' = TxHolding /\ Fetched' = Fetched
  BY DEF RxStep, txVars, hostVars, TxHolding, Fetched
<1>2. TxDataInv'
  BY <1>1 DEF DataInv, TxDataInv, TxFilled
<1>3. EntriesIntact'
  BY <1>1 DEF DataInv, EntriesIntact
<1>4. QED BY <1>2, <1>3

\* A context reserves: its entry is the newest, and empty.
LEMMA RxReserveData ==
  ASSUME WholeSlots, InOrder, TypeInv, IndexInv, DataInv, RxStep,
         NEW c \in RxContexts, RxReserve(c)
  PROVE  DataInv'
<1>1. /\ rxl \in RxLocal /\ rxc \in [RxContexts -> RxContext] /\ rxq \in Seq(RxContexts)
      /\ admitted \in Seq(Packets) /\ RxQueueInv
  BY RxTypes
<1>2. /\ rxc[c].pc = "resume" /\ rxc'[c].pc = "dma" /\ rxc'[c].tail = rxl.shadow_tail
      /\ rxc'[c].pkt = rxc[c].pkt
      /\ rxc'[c].pending = DmaParts(rxl.packet_size, RxCtmWindow)
      /\ RxOthers(c) /\ admitted' = Append(admitted, rxc[c].pkt) /\ UNCHANGED rx_mem
  BY <1>1, RxReserveDoes
<1>3. rxc[c].pkt \in Packets
  BY <1>2 DEF TypeInv, RxHandsInv
<1>4. /\ Len(admitted) \in Nat /\ Len(admitted') = Len(admitted) + 1
      /\ admitted'[Len(admitted) + 1] = rxc[c].pkt
      /\ \A n \in 1 .. Len(admitted) : admitted'[n] = admitted[n]
  <2>1. admitted' = Append(admitted, rxc[c].pkt)
    BY <1>2
  <2>2. QED BY <1>1, <1>3, <2>1, Admitting
<1>5. /\ Published \in Nat /\ Fetched \in Nat /\ echoed \in Nat /\ claimed \in Nat
      /\ Published <= Len(admitted) /\ echoed <= Published /\ claimed <= echoed
      /\ Fetched <= claimed /\ Len(admitted) - Published <= NumSlots - 1
  BY CountersSpan
<1>6. /\ c \notin RxHolding /\ RxHolding' = RxHolding \cup {c}
      /\ Cardinality(RxHolding') = Cardinality(RxHolding) + 1
      /\ Cardinality(RxHolding) \in Nat
  BY <1>2, RxHoldingStep
<1>7. Published' = Published
  <2>1. /\ Published' = Len(admitted') - Cardinality(RxHolding')
        /\ Published = Len(admitted) - Cardinality(RxHolding)
    BY DEF Published
  <2>2. QED BY <1>4, <1>6, <2>1
<1>8. rxl.shadow_tail = OffsetOf(Len(admitted)) /\ rxl.packet_size = UDP_PACKET_SIZE
  <2>1. rxl.init # 0
    BY <1>2 DEF TypeInv, ConfigInv, RxConfigInv
  <2>2. QED BY <2>1 DEF IndexInv, RxIndexInv, TypeInv, ConfigInv, RxConfigInv
<1>9. DoneBytes(rxc'[c].pending) = {}
  BY <1>2, <1>8, PartsCover
<1>10. /\ UNCHANGED <<tx_mem, txc, claimed, echoed>>
       /\ TxHolding' = TxHolding /\ Fetched' = Fetched
  BY DEF RxStep, txVars, hostVars, TxHolding, Fetched
<1>11. EntriesIntact'
  <2>1. \A n \in (echoed + 1) .. Published : admitted'[n] = admitted[n]
    <3>1. \A n \in (echoed + 1) .. Published : n \in 1 .. Len(admitted)
      BY <1>4, <1>5
    <3>2. QED BY <1>4, <3>1
  <2>2. \A n \in (Fetched + 1) .. echoed : admitted'[n] = admitted[n]
    <3>1. \A n \in (Fetched + 1) .. echoed : n \in 1 .. Len(admitted)
      BY <1>4, <1>5
    <3>2. QED BY <1>4, <3>1
  <2>3. UNCHANGED <<rx_mem, tx_mem, echoed, Published, Fetched>>
    BY <1>2, <1>7, <1>10
  <2>4. QED BY <2>1, <2>2, <2>3 DEF DataInv, EntriesIntact
<1>12. TxDataInv'
  <2>1. \A n \in Fetched .. (claimed - 1) : admitted'[n + 1] = admitted[n + 1]
    <3>1. \A n \in Fetched .. (claimed - 1) : n + 1 \in 1 .. Len(admitted)
      BY <1>4, <1>5
    <3>2. QED BY <1>4, <3>1
  <2>2. QED BY <1>10, <2>1 DEF DataInv, TxDataInv, TxFilled
<1>13. ASSUME NEW d \in RxHolding, NEW n \in Published .. Len(admitted),
              rxc'[d].tail = OffsetOf(n)
       PROVE  RxFilled(d, n)'
  <2>1. d # c /\ rxc'[d] = rxc[d]
    BY <1>2, <1>6 DEF RxHolding, RxOthers
  <2>2. PICK m \in Published .. (Len(admitted) - 1) : rxc[d].tail = OffsetOf(m)
    BY RxEntry
  <2>3. m \in Published .. Len(admitted) /\ OffsetOf(m) = OffsetOf(n)
    BY <1>4, <1>5, <1>13, <2>1, <2>2
  <2>4. m = n
    BY <1>4, <1>5, <2>3, SlotsApart
  <2>5. RxFilled(d, n)
    BY <2>2, <2>4 DEF DataInv, RxDataInv
  <2>6. admitted'[n + 1] = admitted[n + 1]
    BY <1>4, <1>5, <2>2, <2>4
  <2>7. QED BY <1>2, <2>1, <2>5, <2>6 DEF RxFilled
<1>14. ASSUME NEW n \in Published .. Len(admitted), rxc'[c].tail = OffsetOf(n)
       PROVE  RxFilled(c, n)'
  <2>1. Len(admitted) \in Published .. Len(admitted)
        /\ OffsetOf(n) = OffsetOf(Len(admitted))
    BY <1>2, <1>4, <1>5, <1>8, <1>14
  <2>2. n = Len(admitted)
    BY <1>4, <1>5, <2>1, SlotsApart
  <2>3. QED BY <1>2, <1>4, <1>9, <2>2 DEF RxFilled
<1>15. RxDataInv'
  <2>1. \A d \in RxHolding' : rxc'[d].pc = "publish" => rxc'[d].pending = {}
    <3>1. \A d \in RxHolding : d \in RxContexts /\ d # c
      BY <1>6 DEF RxHolding
    <3>2. QED BY <1>2, <1>6, <3>1 DEF DataInv, RxDataInv, RxOthers
  <2>2. Len(admitted') - 1 = Len(admitted)
    BY <1>4
  <2>3. QED BY <1>6, <1>7, <1>13, <1>14, <2>1, <2>2 DEF RxDataInv
<1>16. QED BY <1>11, <1>12, <1>15 DEF DataInv

\* A DMA part of a context's packet reaches host memory.
LEMMA RxDmaWriteData ==
  ASSUME WholeSlots, TypeInv, IndexInv, DataInv, RxStep,
         NEW c \in RxContexts, NEW part, RxDmaWrite(c, part)
  PROVE  DataInv'
<1> DEFINE data == PacketBytes(rxc[c].pkt)
<1>1. /\ rxc \in [RxContexts -> RxContext] /\ rx_mem \in [HostBytes -> Bytes]
  BY RxTypes
<1>2. /\ rxc[c].pc = "dma" /\ part \in rxc[c].pending
      /\ rx_mem' = Store(rx_mem, rxc[c].tail, part, data)
      /\ rxc'[c].pc = "dma" /\ rxc'[c].pending = rxc[c].pending \ {part}
      /\ rxc'[c].tail = rxc[c].tail
      /\ rxc'[c].pkt = rxc[c].pkt /\ RxOthers(c) /\ UNCHANGED admitted
  BY <1>1, RxDmaWriteDoes
<1>3. \A b \in PacketOffsets : data[b] = <<rxc[c].pkt, b>>
  BY DEF PacketBytes
<1> HIDE DEF data
<1>4. c \in RxHolding /\ RxHolding' = RxHolding /\ Published' = Published
  <2>1. c \in RxHolding /\ RxHolding' = RxHolding
    BY <1>2, RxHoldingStep
  <2>2. QED BY <1>2, <2>1 DEF Published
<1>5. /\ Published \in Nat /\ Fetched \in Nat /\ echoed \in Nat /\ Len(admitted) \in Nat
      /\ echoed <= Published /\ Published <= Len(admitted)
      /\ Len(admitted) - echoed <= NumSlots - 1
      /\ Len(admitted) - Published <= NumSlots - 1
  BY CountersSpan
<1>6. PICK m \in Published .. (Len(admitted) - 1) :
         /\ rxc[c].tail = OffsetOf(m)
         /\ \A d \in RxHolding : d # c => rxc[d].tail # OffsetOf(m)
  BY <1>4, RxEntry
<1>7. m \in Nat /\ m \in echoed .. Len(admitted) /\ OffsetOf(m) \in Offsets
  <2>1. m \in Nat /\ m \in echoed .. Len(admitted)
    BY <1>5, <1>6
  <2>2. QED BY <2>1, OffsetInside
<1>8. part \in SUBSET PacketOffsets
  <2>1. rxc[c] \in RxContext
    BY <1>1
  <2>2. QED BY <1>2, <2>1 DEF RxContext
<1>9. ASSUME NEW n \in echoed .. Len(admitted), n # m, NEW b \in PacketOffsets
      PROVE  rx_mem'[OffsetOf(n) + b] = rx_mem[OffsetOf(n) + b]
  <2>1. n \in Nat
    BY <1>5, <1>9
  <2>2. OffsetOf(n) \in Offsets
    BY <2>1, OffsetInside
  <2>3. \A j \in part : j \in PacketOffsets
    BY <1>8
  <2>4. \A j \in part : OffsetOf(n) + b # OffsetOf(m) + j
    BY <1>5, <1>7, <1>9, <2>3, SlotsDisjoint
  <2>5. QED BY <1>1, <1>2, <1>6, <1>7, <1>8, <2>2, <2>4, StoreAt
<1>10. /\ UNCHANGED <<tx_mem, txc, claimed, echoed>>
       /\ TxHolding' = TxHolding /\ Fetched' = Fetched
  BY DEF RxStep, txVars, hostVars, TxHolding, Fetched
<1>11. TxDataInv'
  BY <1>2, <1>10 DEF DataInv, TxDataInv, TxFilled
<1>12. EntriesIntact'
  <2>1. ASSUME NEW n \in (echoed + 1) .. Published, NEW b \in PacketOffsets
        PROVE  rx_mem'[OffsetOf(n - 1) + b] = rx_mem[OffsetOf(n - 1) + b]
    <3>1. n - 1 \in echoed .. Len(admitted) /\ n - 1 # m
      BY <1>5, <1>6
    <3>2. QED BY <1>9, <3>1
  <2>2. UNCHANGED <<tx_mem, echoed, Published, Fetched, admitted>>
    BY <1>2, <1>4, <1>10
  <2>3. QED BY <2>1, <2>2 DEF DataInv, EntriesIntact
<1>13. ASSUME NEW d \in RxHolding, d # c, NEW n \in Published .. (Len(admitted) - 1),
              rxc'[d].tail = OffsetOf(n)
       PROVE  RxFilled(d, n)'
  <2>1. d \in RxContexts /\ rxc'[d] = rxc[d]
    BY <1>2, <1>13 DEF RxHolding, RxOthers
  <2>2. RxFilled(d, n) /\ n # m
    BY <1>6, <1>13, <2>1 DEF DataInv, RxDataInv
  <2>3. n \in echoed .. Len(admitted)
    BY <1>5, <1>13
  <2>4. \A b \in DoneBytes(rxc[d].pending) : b \in PacketOffsets
    BY DEF DoneBytes
  <2>5. \A b \in DoneBytes(rxc[d].pending) :
           rx_mem'[OffsetOf(n) + b] = rx_mem[OffsetOf(n) + b]
    BY <1>9, <2>2, <2>3, <2>4
  <2>6. QED BY <1>2, <2>1, <2>2, <2>5 DEF RxFilled
<1>14. ASSUME NEW n \in Published .. (Len(admitted) - 1), rxc'[c].tail = OffsetOf(n)
       PROVE  RxFilled(c, n)'
  <2>1. /\ n \in Published .. Len(admitted) /\ m \in Published .. Len(admitted)
        /\ OffsetOf(n) = OffsetOf(m)
    BY <1>2, <1>5, <1>6, <1>14
  <2>2. n = m
    BY <1>5, <2>1, SlotsApart
  <2>3. /\ rxc[c].pkt = admitted[m + 1]
        /\ \A b \in DoneBytes(rxc[c].pending) :
              rx_mem[OffsetOf(m) + b] = <<admitted[m + 1], b>>
    BY <1>4, <1>6 DEF DataInv, RxDataInv, RxFilled
  <2>4. ASSUME NEW b \in DoneBytes(rxc'[c].pending)
        PROVE  rx_mem'[OffsetOf(m) + b] = <<admitted[m + 1], b>>
    <3>1. b \in PacketOffsets
      BY DEF DoneBytes
    <3>2. CASE b \in part
      <4>1. rx_mem' = Store(rx_mem, OffsetOf(m), part, data) /\ DOMAIN rx_mem = HostBytes
        BY <1>1, <1>2, <1>6
      <4>2. rx_mem'[OffsetOf(m) + b] = data[b]
        BY <1>7, <1>8, <3>1, <3>2, <4>1, StoreAt
      <4>3. QED BY <1>3, <2>3, <3>1, <4>2
    <3>3. CASE b \notin part
      <4>1. b \in DoneBytes(rxc[c].pending)
        BY <1>2, <2>4, <3>1, <3>3 DEF DoneBytes
      <4>2. \A j \in part : OffsetOf(m) + b # OffsetOf(m) + j
        <5>1. OffsetOf(m) \in Int /\ b \in Int /\ \A j \in part : j \in Int /\ j # b
          BY <1>7, <1>8, <3>1, <3>3 DEF Offsets, PacketOffsets
        <5>2. QED BY <5>1
      <4>3. rx_mem'[OffsetOf(m) + b] = rx_mem[OffsetOf(m) + b]
        BY <1>1, <1>2, <1>6, <1>7, <1>8, <3>1, <4>2, StoreAt
      <4>4. QED BY <2>3, <4>1, <4>3
    <3>4. QED BY <3>2, <3>3
  <2>5. QED BY <1>2, <2>2, <2>3, <2>4 DEF RxFilled
<1>15. RxDataInv'
  <2>1. \A d \in RxHolding : rxc'[d].pc = "publish" => rxc'[d].pending = {}
    <3>1. \A d \in RxHolding : d \in RxContexts
      BY DEF RxHolding
    <3>2. QED BY <1>2, <3>1 DEF DataInv, RxDataInv, RxOthers
  <2>2. QED BY <1>2, <1>4, <1>13, <1>14, <2>1 DEF RxDataInv
<1>16. QED BY <1>11, <1>12, <1>15 DEF DataInv

\* A context publishes: its entry is whole.
LEMMA RxPublishData ==
  ASSUME WholeSlots, TypeInv, IndexInv, DataInv, RxStep,
         NEW c \in RxContexts, RxPublish(c)
  PROVE  DataInv'
<1>1. cfg \in device_meta_t /\ rxc \in [RxContexts -> RxContext]
  BY RxTypes
<1>2. /\ rxc[c].pc = "publish" /\ rxc'[c].pc = "receive" /\ RxOthers(c)
      /\ UNCHANGED <<rx_mem, admitted>>
  BY <1>1, RxPublishDoes
<1>3. /\ c \in RxHolding /\ RxHolding' = RxHolding \ {c}
      /\ Cardinality(RxHolding') = Cardinality(RxHolding) - 1
      /\ Cardinality(RxHolding) \in Nat
  BY <1>2, RxHoldingStep
<1>4. /\ Published \in Nat /\ Fetched \in Nat /\ echoed \in Nat /\ Len(admitted) \in Nat
      /\ echoed <= Published /\ Published <= Len(admitted)
  BY CountersSpan
<1>5. Published' = Published + 1
  <2>1. /\ Published' = Len(admitted') - Cardinality(RxHolding')
        /\ Published = Len(admitted) - Cardinality(RxHolding)
    BY DEF Published
  <2>2. QED BY <1>2, <1>3, <1>4, <2>1
<1>6. rxc[c].tail = OffsetOf(Published) /\ Published \in Published .. (Len(admitted) - 1)
  <2>1. rxc[c].tail = OffsetOf(Published)
    BY <1>2 DEF IndexInv, RxIndexInv
  <2>2. PICK m \in Published .. (Len(admitted) - 1) : rxc[c].tail = OffsetOf(m)
    BY <1>3, RxEntry
  <2>3. QED BY <1>4, <2>1, <2>2
<1>7. \A b \in PacketOffsets :
         rx_mem[OffsetOf(Published) + b] = <<admitted[Published + 1], b>>
  <2>1. rxc[c].pending = {} /\ RxFilled(c, Published)
    BY <1>2, <1>3, <1>6 DEF DataInv, RxDataInv
  <2>2. QED BY <2>1, NothingPending DEF RxFilled
<1>8. /\ UNCHANGED <<tx_mem, txc, claimed, echoed>>
      /\ TxHolding' = TxHolding /\ Fetched' = Fetched
  BY DEF RxStep, txVars, hostVars, TxHolding, Fetched
<1>9. TxDataInv'
  BY <1>2, <1>8 DEF DataInv, TxDataInv, TxFilled
<1>10. EntriesIntact'
  <2>1. ASSUME NEW n \in (echoed + 1) .. (Published + 1), NEW b \in PacketOffsets
        PROVE  rx_mem[OffsetOf(n - 1) + b] = <<admitted[n], b>>
    <3>1. n \in (echoed + 1) .. Published \/ (n = Published + 1 /\ n - 1 = Published)
      BY <1>4
    <3>2. QED BY <1>7, <3>1 DEF DataInv, EntriesIntact
  <2>2. UNCHANGED <<rx_mem, tx_mem, echoed, Fetched, admitted>>
    BY <1>2, <1>8
  <2>3. QED BY <1>5, <2>1, <2>2 DEF DataInv, EntriesIntact
<1>11. ASSUME NEW d \in RxHolding'
       PROVE  d \in RxHolding /\ rxc'[d] = rxc[d]
  BY <1>2, <1>3, <1>11 DEF RxHolding, RxOthers
<1>12. (Published + 1) .. (Len(admitted) - 1) \subseteq Published .. (Len(admitted) - 1)
  BY <1>4
<1>13. ASSUME NEW d \in RxHolding', NEW n \in (Published + 1) .. (Len(admitted) - 1),
              rxc'[d].tail = OffsetOf(n)
       PROVE  RxFilled(d, n)'
  <2>1. RxFilled(d, n)
    BY <1>11, <1>12, <1>13 DEF DataInv, RxDataInv
  <2>2. QED BY <1>2, <1>11, <2>1 DEF RxFilled
<1>14. RxDataInv'
  <2>1. \A d \in RxHolding' : rxc'[d].pc = "publish" => rxc'[d].pending = {}
    BY <1>11 DEF DataInv, RxDataInv
  <2>2. QED BY <1>2, <1>5, <1>13, <2>1 DEF RxDataInv
<1>15. QED BY <1>9, <1>10, <1>14 DEF DataInv

\* The receive engine keeps the data.
LEMMA RxDataStep ==
  ASSUME WholeSlots, InOrder, TypeInv, IndexInv, DataInv, RxStep
  PROVE  DataInv'
<1>1. /\ rxl \in RxLocal /\ rxc \in [RxContexts -> RxContext] /\ rxq \in Seq(RxContexts)
      /\ RxQueueInv
  BY RxTypes
<1>2. PICK c \in RxContexts : \/ RxProcess(c)
                              \/ \E f \in Frames : RxDrop(c, f) \/ RxAllow(c, f)
  BY DEF RxStep, RxNext
<1>3. ASSUME NEW d \in RxContexts, RxOthers(d), UNCHANGED <<rx_mem, admitted>>,
             d \in RxHolding <=> d \in RxHolding',
             d \in RxHolding => /\ rxc'[d].tail = rxc[d].tail /\ rxc'[d].pkt = rxc[d].pkt
                                /\ rxc'[d].pending = rxc[d].pending
                                /\ rxc'[d].pc = "publish" => rxc[d].pending = {}
      PROVE  DataInv'
  <2>1. RxHolding' = RxHolding
    BY <1>3, RxHoldingStep
  <2>2. Published' = Published
    BY <1>3, <2>1 DEF Published
  <2>3. RxDataInv'
    BY <1>3, <2>1, <2>2, RxDataSame DEF DataInv
  <2>4. TxDataInv' /\ EntriesIntact'
    BY <1>3, <2>2, RxDataFrame
  <2>5. QED BY <2>3, <2>4 DEF DataInv
<1>4. ASSUME NEW d \in RxContexts, RxOthers(d), UNCHANGED <<rx_mem, admitted>>,
             rxc[d].pc \notin {"dma", "publish"}, rxc'[d].pc \notin {"dma", "publish"}
      PROVE  DataInv'
  BY <1>3, <1>4 DEF RxHolding
<1>5. CASE RxMain0
  BY <1>1, <1>4, <1>5, RxMain0Does
<1>6. CASE RxMain(c)
  BY <1>1, <1>4, <1>6, RxMainDoes
<1>7. CASE RxReadHead(c)
  BY <1>1, <1>4, <1>7, RxReadHeadDoes
<1>8. CASE RxRetry(c)
  BY <1>1, <1>4, <1>8, RxRetryDoes
<1>9. CASE RxReserve(c)
  BY <1>9, RxReserveData
<1>10. CASE \E part \in rxc[c].pending : RxDmaWrite(c, part)
  BY <1>10, RxDmaWriteData
<1>11. CASE RxTurn(c)
  <2>1. /\ rxc[c].pc = "dma" /\ rxc[c].pending = {} /\ rxc'[c].pc = "publish"
        /\ rxc'[c].pending = rxc[c].pending /\ rxc'[c].tail = rxc[c].tail
        /\ rxc'[c].pkt = rxc[c].pkt /\ RxOthers(c) /\ UNCHANGED <<rx_mem, admitted>>
    BY <1>1, <1>11, RxTurnDoes
  <2>2. c \in RxHolding /\ c \in RxHolding'
    BY <2>1 DEF RxHolding
  <2>3. QED BY <1>3, <2>1, <2>2
<1>12. CASE RxPublish(c)
  BY <1>12, RxPublishData
<1>13. ASSUME NEW f \in Frames, RxDrop(c, f) PROVE DataInv'
  <2>1. rxc[c].pc = "receive" /\ UNCHANGED <<rxc, rx_mem, admitted>>
    BY <1>13 DEF RxDrop
  <2>2. QED BY <1>4, <2>1 DEF RxOthers
<1>14. ASSUME NEW f \in Frames, RxAllow(c, f) PROVE DataInv'
  BY <1>1, <1>4, <1>14, RxAllowDoes
<1>15. QED BY <1>2, <1>5, <1>6, <1>7, <1>8, <1>9, <1>10, <1>11, <1>12, <1>13, <1>14
           DEF RxProcess

-----------------------------------------------------------------------------
\* What a transmit step that gives no entry back leaves alone.
LEMMA TxDataFrame ==
  ASSUME DataInv, TxStep, UNCHANGED <<tx_mem, Fetched>>
  PROVE  RxDataInv' /\ EntriesIntact'
<1>1. UNCHANGED <<rx_mem, rxc, admitted, echoed>>
      /\ RxHolding' = RxHolding /\ Published' = Published
  BY DEF TxStep, rxVars, hostVars, RxHolding, Published
<1>2. RxDataInv'
  BY <1>1 DEF DataInv, RxDataInv, RxFilled
<1>3. EntriesIntact'
  BY <1>1 DEF DataInv, EntriesIntact
<1>4. QED BY <1>2, <1>3

\* A context claims: none of its packet has been fetched.
LEMMA TxClaimData ==
  ASSUME WholeSlots, InOrder, TypeInv, IndexInv, DataInv, TxStep,
         NEW c \in TxContexts, TxClaim(c)
  PROVE  DataInv' /\ Fetched' = Fetched
<1>1. /\ txl \in TxLocal /\ txc \in [TxContexts -> TxContext(Bytes)]
      /\ txq \in Seq(TxContexts) /\ TxQueueInv
  BY TxTypes
<1>2. /\ txc[c].pc = "resume" /\ txc'[c].pc = "dma"
      /\ txc'[c].pending = DmaParts(txl.packet_size, TxCtmWindow)
      /\ TxOthers(c) /\ claimed' = claimed + 1 /\ UNCHANGED tx_mem
  BY <1>1, TxClaimDoes
<1>3. /\ Fetched \in Nat /\ claimed \in Nat /\ Fetched <= claimed
      /\ claimed - Fetched <= NumSlots - 1
  BY CountersSpan
<1>4. /\ c \notin TxHolding /\ TxHolding' = TxHolding \cup {c}
      /\ Cardinality(TxHolding') = Cardinality(TxHolding) + 1
      /\ Cardinality(TxHolding) \in Nat
  BY <1>2, TxHoldingStep
<1>5. Fetched' = Fetched
  <2>1. /\ Fetched' = claimed' - Cardinality(TxHolding')
        /\ Fetched = claimed - Cardinality(TxHolding)
    BY DEF Fetched
  <2>2. QED BY <1>2, <1>3, <1>4, <2>1
<1>6. txl.packet_size = UDP_PACKET_SIZE
  <2>1. txl.init # 0
    BY <1>2 DEF TypeInv, ConfigInv, TxConfigInv
  <2>2. QED BY <2>1 DEF TypeInv, ConfigInv, TxConfigInv
<1>7. DoneBytes(txc'[c].pending) = {}
  BY <1>2, <1>6, PartsCover
<1>8. UNCHANGED admitted
  BY DEF TxStep, rxVars
<1>9. RxDataInv' /\ EntriesIntact'
  BY <1>2, <1>5, TxDataFrame
<1>10. ASSUME NEW d \in TxHolding, NEW n \in Fetched .. claimed,
              txc'[d].head = OffsetOf(n)
       PROVE  TxFilled(d, n)'
  <2>1. d # c /\ txc'[d] = txc[d]
    BY <1>2, <1>4 DEF TxHolding, TxOthers
  <2>2. PICK m \in Fetched .. (claimed - 1) : txc[d].head = OffsetOf(m)
    BY TxEntry
  <2>3. m \in Fetched .. claimed /\ OffsetOf(m) = OffsetOf(n)
    BY <1>3, <1>10, <2>1, <2>2
  <2>4. m = n
    BY <1>3, <2>3, SlotsApart
  <2>5. TxFilled(d, n)
    BY <2>2, <2>4 DEF DataInv, TxDataInv
  <2>6. QED BY <1>8, <2>1, <2>5 DEF TxFilled
<1>11. ASSUME NEW n PROVE TxFilled(c, n)'
  BY <1>7 DEF TxFilled
<1>12. TxDataInv'
  <2>1. \A d \in TxHolding' : txc'[d].pc = "publish" =>
             /\ txc'[d].pending = {}
             /\ txc'[d].pkt.len = UDP_PACKET_SIZE + MAC_PREPEND_BYTES
    <3>1. \A d \in TxHolding : d \in TxContexts /\ d # c
      BY <1>4 DEF TxHolding
    <3>2. QED BY <1>2, <1>4, <3>1 DEF DataInv, TxDataInv, TxOthers
  <2>2. claimed' - 1 = claimed
    BY <1>2, <1>3
  <2>3. QED BY <1>4, <1>5, <1>10, <1>11, <2>1, <2>2 DEF TxDataInv
<1>13. QED BY <1>5, <1>9, <1>12 DEF DataInv

\* A DMA part of a context's packet is fetched: the entry is whole.
LEMMA TxDmaReadData ==
  ASSUME WholeSlots, TypeInv, IndexInv, DataInv, TxStep,
         NEW c \in TxContexts, NEW part, TxDmaRead(c, part)
  PROVE  DataInv'
<1>1. txc \in [TxContexts -> TxContext(Bytes)] /\ txc[c] \in TxContext(Bytes)
  BY TxTypes
<1>2. /\ txc[c].pc = "dma" /\ part \in txc[c].pending
      /\ txc'[c].pc = "dma" /\ txc'[c].pending = txc[c].pending \ {part}
      /\ txc'[c].head = txc[c].head
      /\ txc'[c].pkt.data = Fetch(tx_mem, txc[c].head, part, txc[c].pkt.data)
      /\ TxOthers(c) /\ UNCHANGED <<tx_mem, claimed>>
  BY <1>1, TxDmaReadDoes
<1>3. txc[c].pkt.data \in [PacketOffsets -> Bytes]
  BY <1>1 DEF TxContext, TxPackets
<1>4. c \in TxHolding /\ TxHolding' = TxHolding /\ Fetched' = Fetched
  <2>1. c \in TxHolding /\ TxHolding' = TxHolding
    BY <1>2, TxHoldingStep
  <2>2. QED BY <1>2, <2>1 DEF Fetched
<1>5. /\ Fetched \in Nat /\ claimed \in Nat /\ echoed \in Nat
      /\ Fetched <= claimed /\ claimed <= echoed /\ claimed - Fetched <= NumSlots - 1
  BY CountersSpan
<1>6. PICK m \in Fetched .. (claimed - 1) : txc[c].head = OffsetOf(m)
  BY <1>4, TxEntry
<1>7. \A b \in PacketOffsets : tx_mem[txc[c].head + b] = <<admitted[m + 1], b>>
  <2>1. m + 1 \in (Fetched + 1) .. echoed /\ (m + 1) - 1 = m
    BY <1>5, <1>6
  <2>2. QED BY <1>6, <2>1 DEF DataInv, EntriesIntact
<1>8. \A b \in PacketOffsets :
         txc'[c].pkt.data[b] = IF b \in part THEN tx_mem[txc[c].head + b]
                                             ELSE txc[c].pkt.data[b]
  BY <1>2, <1>3 DEF Fetch
<1>9. UNCHANGED admitted
  BY DEF TxStep, rxVars
<1>10. RxDataInv' /\ EntriesIntact'
  BY <1>2, <1>4, TxDataFrame
<1>11. ASSUME NEW n \in Fetched .. (claimed - 1), txc'[c].head = OffsetOf(n)
       PROVE  TxFilled(c, n)'
  <2>1. /\ n \in Fetched .. claimed /\ m \in Fetched .. claimed
        /\ OffsetOf(n) = OffsetOf(m)
    BY <1>2, <1>5, <1>6, <1>11
  <2>2. n = m
    BY <1>5, <2>1, SlotsApart
  <2>3. \A b \in DoneBytes(txc[c].pending) :
           txc[c].pkt.data[b] = <<admitted[m + 1], b>>
    BY <1>4, <1>6 DEF DataInv, TxDataInv, TxFilled
  <2>4. \A b \in DoneBytes(txc'[c].pending) :
           b \in PacketOffsets /\ (b \in part \/ b \in DoneBytes(txc[c].pending))
    BY <1>2 DEF DoneBytes
  <2>5. \A b \in DoneBytes(txc'[c].pending) :
           txc'[c].pkt.data[b] = <<admitted[m + 1], b>>
    BY <1>7, <1>8, <2>3, <2>4
  <2>6. QED BY <1>9, <2>2, <2>5 DEF TxFilled
<1>12. ASSUME NEW d \in TxHolding, d # c
       PROVE  d \in TxContexts /\ txc'[d] = txc[d]
  BY <1>2, <1>12 DEF TxHolding, TxOthers
<1>13. ASSUME NEW d \in TxHolding, d # c, NEW n \in Fetched .. (claimed - 1),
              txc'[d].head = OffsetOf(n)
       PROVE  TxFilled(d, n)'
  <2>1. txc'[d] = txc[d] /\ TxFilled(d, n)
    BY <1>12, <1>13 DEF DataInv, TxDataInv
  <2>2. QED BY <1>9, <2>1 DEF TxFilled
<1>14. TxDataInv'
  <2>1. \A d \in TxHolding : txc'[d].pc = "publish" =>
             /\ txc'[d].pending = {}
             /\ txc'[d].pkt.len = UDP_PACKET_SIZE + MAC_PREPEND_BYTES
    BY <1>2, <1>12 DEF DataInv, TxDataInv
  <2>2. QED BY <1>2, <1>4, <1>11, <1>13, <2>1 DEF TxDataInv
<1>15. QED BY <1>10, <1>14 DEF DataInv

\* A context gives its entry back, with its packet whole.
LEMMA TxPublishData ==
  ASSUME WholeSlots, TypeInv, IndexInv, DataInv, TxStep,
         NEW c \in TxContexts, TxPublish(c)
  PROVE  /\ DataInv' /\ Fetched' = Fetched + 1
         /\ txc'[c].pkt = EchoOf(admitted[Fetched + 1])
<1>1. /\ cfg \in device_meta_t /\ txc \in [TxContexts -> TxContext(Bytes)]
      /\ txc[c] \in TxContext(Bytes)
  BY TxTypes
<1>2. /\ txc[c].pc = "publish" /\ txc'[c].pc = "send" /\ txc'[c].pkt = txc[c].pkt
      /\ TxOthers(c) /\ UNCHANGED <<tx_mem, claimed>>
  BY <1>1, TxPublishDoes
<1>3. /\ c \in TxHolding /\ TxHolding' = TxHolding \ {c}
      /\ Cardinality(TxHolding') = Cardinality(TxHolding) - 1
      /\ Cardinality(TxHolding) \in Nat
  BY <1>2, TxHoldingStep
<1>4. Fetched \in Nat /\ claimed \in Nat /\ echoed \in Nat /\ Fetched <= claimed
  BY CountersSpan
<1>5. Fetched' = Fetched + 1
  <2>1. /\ Fetched' = claimed' - Cardinality(TxHolding')
        /\ Fetched = claimed - Cardinality(TxHolding)
    BY DEF Fetched
  <2>2. QED BY <1>2, <1>3, <1>4, <2>1
<1>6. txc[c].head = OffsetOf(Fetched) /\ Fetched \in Fetched .. (claimed - 1)
  <2>1. txc[c].head = OffsetOf(Fetched)
    BY <1>2 DEF IndexInv, TxIndexInv
  <2>2. PICK m \in Fetched .. (claimed - 1) : txc[c].head = OffsetOf(m)
    BY <1>3, TxEntry
  <2>3. QED BY <1>4, <2>1, <2>2
<1>7. txc'[c].pkt = EchoOf(admitted[Fetched + 1])
  <2>1. /\ txc[c].pending = {} /\ TxFilled(c, Fetched)
        /\ txc[c].pkt.len = UDP_PACKET_SIZE + MAC_PREPEND_BYTES
    BY <1>2, <1>3, <1>6 DEF DataInv, TxDataInv
  <2>2. \A b \in PacketOffsets : txc[c].pkt.data[b] = <<admitted[Fetched + 1], b>>
    BY <2>1, NothingPending DEF TxFilled
  <2>3. /\ txc[c].pkt.data \in [PacketOffsets -> Bytes]
        /\ txc[c].pkt = [len |-> txc[c].pkt.len, data |-> txc[c].pkt.data]
    BY <1>1 DEF TxContext, TxPackets
  <2>4. txc[c].pkt.data = PacketBytes(admitted[Fetched + 1])
    BY <2>2, <2>3 DEF PacketBytes
  <2>5. QED BY <1>2, <2>1, <2>3, <2>4 DEF EchoOf
<1>8. /\ UNCHANGED <<rx_mem, rxc, admitted, echoed>>
      /\ RxHolding' = RxHolding /\ Published' = Published
  BY DEF TxStep, rxVars, hostVars, RxHolding, Published
<1>9. RxDataInv'
  BY <1>8 DEF DataInv, RxDataInv, RxFilled
<1>10. EntriesIntact'
  <2>1. (Fetched + 1 + 1) .. echoed \subseteq (Fetched + 1) .. echoed
    BY <1>4
  <2>2. UNCHANGED <<rx_mem, tx_mem, echoed, Published, admitted>>
    BY <1>2, <1>8
  <2>3. QED BY <1>5, <2>1, <2>2 DEF DataInv, EntriesIntact
<1>11. ASSUME NEW d \in TxHolding'
       PROVE  d \in TxHolding /\ txc'[d] = txc[d]
  BY <1>2, <1>3, <1>11 DEF TxHolding, TxOthers
<1>12. (Fetched + 1) .. (claimed - 1) \subseteq Fetched .. (claimed - 1)
  BY <1>4
<1>13. ASSUME NEW d \in TxHolding', NEW n \in (Fetched + 1) .. (claimed - 1),
              txc'[d].head = OffsetOf(n)
       PROVE  TxFilled(d, n)'
  <2>1. TxFilled(d, n)
    BY <1>11, <1>12, <1>13 DEF DataInv, TxDataInv
  <2>2. QED BY <1>8, <1>11, <2>1 DEF TxFilled
<1>14. TxDataInv'
  <2>1. \A d \in TxHolding' : txc'[d].pc = "publish" =>
             /\ txc'[d].pending = {}
             /\ txc'[d].pkt.len = UDP_PACKET_SIZE + MAC_PREPEND_BYTES
    BY <1>11 DEF DataInv, TxDataInv
  <2>2. QED BY <1>2, <1>5, <1>13, <2>1 DEF TxDataInv
<1>15. QED BY <1>5, <1>7, <1>9, <1>10, <1>14 DEF DataInv

\* The transmit engine keeps the data.
LEMMA TxDataStep ==
  ASSUME WholeSlots, InOrder, TypeInv, IndexInv, DataInv, TxStep
  PROVE  DataInv'
<1>1. /\ txl \in TxLocal /\ txc \in [TxContexts -> TxContext(Bytes)]
      /\ txq \in Seq(TxContexts) /\ TxQueueInv
  BY TxTypes
<1>2. UNCHANGED admitted
  BY DEF TxStep, rxVars
<1>3. ASSUME NEW d \in TxContexts, TxOthers(d), UNCHANGED <<tx_mem, claimed>>,
             d \in TxHolding <=> d \in TxHolding',
             d \in TxHolding => /\ txc'[d].head = txc[d].head
                                /\ txc'[d].pending = txc[d].pending
                                /\ txc'[d].pkt.data = txc[d].pkt.data
                                /\ txc'[d].pc = "publish" =>
                                      /\ txc[d].pending = {}
                                      /\ txc'[d].pkt.len = UDP_PACKET_SIZE + MAC_PREPEND_BYTES
      PROVE  DataInv'
  <2>1. TxHolding' = TxHolding
    BY <1>3, TxHoldingStep
  <2>2. Fetched' = Fetched
    BY <1>3, <2>1 DEF Fetched
  <2>3. TxDataInv'
    BY <1>2, <1>3, <2>1, <2>2, TxDataSame DEF DataInv
  <2>4. RxDataInv' /\ EntriesIntact'
    BY <1>3, <2>2, TxDataFrame
  <2>5. QED BY <2>3, <2>4 DEF DataInv
<1>4. ASSUME NEW d \in TxContexts, TxOthers(d), UNCHANGED <<tx_mem, claimed>>,
             txc[d].pc \notin {"dma", "publish"}, txc'[d].pc \notin {"dma", "publish"}
      PROVE  DataInv'
  BY <1>3, <1>4 DEF TxHolding
<1>5. CASE NbiTransmit
  <2>1. UNCHANGED <<tx_mem, txc, claimed>>
    BY <1>5 DEF NbiTransmit
  <2>2. TxHolding' = TxHolding /\ Fetched' = Fetched
    BY <2>1 DEF TxHolding, Fetched
  <2>3. RxDataInv' /\ EntriesIntact'
    BY <2>1, <2>2, TxDataFrame
  <2>4. TxDataInv'
    BY <1>2, <2>1, <2>2 DEF DataInv, TxDataInv, TxFilled
  <2>5. QED BY <2>3, <2>4 DEF DataInv
<1>6. ASSUME NEW c \in TxContexts, TxProcess(c)
      PROVE  DataInv'
  <2>1. CASE TxMain0
    BY <1>1, <1>4, <2>1, TxMain0Does
  <2>2. CASE TxMain(c)
    BY <1>1, <1>4, <2>2, TxMainDoes
  <2>3. CASE TxAllocate(c)
    BY <1>1, <1>4, <2>3, TxAllocateDoes
  <2>4. CASE TxReadTail(c)
    BY <1>1, <1>4, <2>4, TxReadTailDoes
  <2>5. CASE TxRetry(c)
    BY <1>1, <1>4, <2>5, TxRetryDoes
  <2>6. CASE TxClaim(c)
    BY <2>6, TxClaimData
  <2>7. CASE \E part \in txc[c].pending : TxDmaRead(c, part)
    BY <2>7, TxDmaReadData
  <2>8. CASE TxTurn(c)
    <3>1. /\ txc[c].pc = "dma" /\ txc[c].pending = {} /\ txc'[c].pc = "publish"
          /\ txc'[c].pending = txc[c].pending /\ txc'[c].head = txc[c].head
          /\ txc'[c].pkt = [len |-> txl.packet_size + MAC_PREPEND_BYTES,
                            data |-> txc[c].pkt.data]
          /\ TxOthers(c) /\ UNCHANGED <<tx_mem, claimed>>
      BY <1>1, <2>8, TxTurnDoes
    <3>2. c \in TxHolding /\ c \in TxHolding'
      BY <3>1 DEF TxHolding
    <3>3. txl.packet_size = UDP_PACKET_SIZE
      <4>1. txl.init # 0
        BY <3>1 DEF TypeInv, ConfigInv, TxConfigInv
      <4>2. QED BY <4>1 DEF TypeInv, ConfigInv, TxConfigInv
    <3>4. /\ txc'[c].pkt.data = txc[c].pkt.data
          /\ txc'[c].pkt.len = UDP_PACKET_SIZE + MAC_PREPEND_BYTES
      BY <3>1, <3>3
    <3>5. QED BY <1>3, <3>1, <3>2, <3>4
  <2>9. CASE TxPublish(c)
    BY <2>9, TxPublishData
  <2>10. CASE TxSend(c)
    BY <1>1, <1>4, <2>10, TxSendDoes
  <2>11. QED BY <1>6, <2>1, <2>2, <2>3, <2>4, <2>5, <2>6, <2>7, <2>8, <2>9, <2>10
             DEF TxProcess
<1>7. QED BY <1>5, <1>6 DEF TxStep, TxNext

\* The worker keeps the data.
LEMMA HostDataStep ==
  ASSUME WholeSlots, TypeInv, IndexInv, DataInv, HostStep, IndexInv'
  PROVE  DataInv'
<1>1. UNCHANGED <<rxc, admitted, txc, claimed>>
  BY DEF HostStep, rxVars, txVars
<1>2. /\ Published \in Nat /\ Fetched \in Nat /\ echoed \in Nat
      /\ echoed - Fetched <= NumSlots - 1
  BY CountersSpan
<1>3. /\ Published' = Published /\ Fetched' = Fetched
      /\ RxHolding' = RxHolding /\ TxHolding' = TxHolding
  BY <1>1 DEF Published, Fetched, RxHolding, TxHolding
<1>4. EntriesIntact
  BY DEF DataInv
<1>5. rx_mem' = rx_mem
  BY DEF HostStep, HostNext, HostMapFails, HostConfigure, HostStart, HostReadRx,
         HostReadTx, HostSkip, HostEcho, HostWriteTx, HostWriteRx
<1>6. RxDataInv' /\ TxDataInv'
  BY <1>1, <1>3, <1>5 DEF DataInv, RxDataInv, TxDataInv, RxFilled, TxFilled
<1>7. CASE HostEcho
  <2> DEFINE data == [b \in PacketOffsets |-> rx_mem[ring_rx.head + b]]
  <2>1. /\ worker = "check" /\ echoed' = echoed + 1
        /\ tx_mem' = Store(tx_mem, ring_tx.tail, PacketOffsets, data)
    BY <1>7 DEF HostEcho
  <2>2. ring_rx.head = OffsetOf(echoed) /\ ring_tx.tail = OffsetOf(echoed)
    BY DEF IndexInv, HostIndexInv, WorkerInv
  <2>3. tx_mem \in [HostBytes -> Bytes] /\ OffsetOf(echoed) \in Offsets
    BY <1>2, OffsetInside DEF TypeInv, TypeOK
  <2>4. echoed + 1 \in (echoed + 1) .. Published
    <3>1. echoed' <= Published'
      BY DEF IndexInv, HostIndexInv
    <3>2. QED BY <1>2, <1>3, <2>1, <3>1
  <2>5. \A b \in PacketOffsets : data[b] = <<admitted[echoed + 1], b>>
    <3>1. (echoed + 1) - 1 = echoed
      BY <1>2
    <3>2. QED BY <1>4, <2>2, <2>4, <3>1 DEF EntriesIntact
  <2> HIDE DEF data
  <2>6. ASSUME NEW n \in (Fetched + 1) .. echoed, NEW b \in PacketOffsets
        PROVE  tx_mem'[OffsetOf(n - 1) + b] = tx_mem[OffsetOf(n - 1) + b]
    <3>1. n - 1 \in Nat /\ n - 1 < echoed /\ echoed - (n - 1) < NumSlots
      BY <1>2, SlotFacts
    <3>2. OffsetOf(n - 1) \in Offsets
      BY <3>1, OffsetInside
    <3>3. \A j \in PacketOffsets : OffsetOf(n - 1) + b # OffsetOf(echoed) + j
      BY <1>2, <3>1, OffsetDisjoint
    <3>4. QED BY <2>1, <2>2, <2>3, <3>2, <3>3, StoreAt
  <2>7. ASSUME NEW b \in PacketOffsets
        PROVE  tx_mem'[OffsetOf(echoed) + b] = <<admitted[echoed + 1], b>>
    BY <2>1, <2>2, <2>3, <2>5, StoreAt
  <2>8. ASSUME NEW n \in (Fetched + 1) .. (echoed + 1), NEW b \in PacketOffsets
        PROVE  tx_mem'[OffsetOf(n - 1) + b] = <<admitted[n], b>>
    <3>1. n \in (Fetched + 1) .. echoed \/ (n = echoed + 1 /\ n - 1 = echoed)
      BY <1>2
    <3>2. QED BY <1>4, <2>6, <2>7, <3>1 DEF EntriesIntact
  <2>9. ASSUME NEW n \in (echoed + 1 + 1) .. Published
        PROVE  n \in (echoed + 1) .. Published
    BY <1>2
  <2>10. echoed' = echoed + 1
    BY <2>1
  <2>11. EntriesIntact'
    BY <1>1, <1>3, <1>4, <1>5, <2>8, <2>9, <2>10 DEF EntriesIntact
  <2>12. QED BY <1>6, <2>11 DEF DataInv
<1>8. CASE ~ HostEcho
  <2>1. UNCHANGED <<tx_mem, echoed>>
    BY <1>8 DEF HostStep, HostNext, HostMapFails, HostConfigure, HostStart,
                HostReadRx, HostReadTx, HostSkip, HostWriteTx, HostWriteRx
  <2>2. EntriesIntact'
    BY <1>1, <1>3, <1>4, <1>5, <2>1 DEF EntriesIntact
  <2>3. QED BY <1>6, <2>2 DEF DataInv
<1>9. QED BY <1>7, <1>8

\* Every step of the composition keeps the data.
LEMMA DataStep ==
  ASSUME WholeSlots, InOrder, TypeInv, IndexInv, DataInv, [Next]_vars
  PROVE  DataInv'
<1>1. IndexInv'
  BY IndexStep
<1>2. CASE Next
  BY <1>1, <1>2, RxDataStep, TxDataStep, HostDataStep DEF Next, RxStep, TxStep, HostStep
<1>3. CASE UNCHANGED vars
  <2>1. UNCHANGED <<rx_mem, tx_mem, rxc, admitted, txc, claimed, echoed>>
    BY <1>3 DEF vars, rxVars, txVars, hostVars
  <2>2. QED BY <2>1 DEF DataInv, RxDataInv, TxDataInv, RxFilled, TxFilled, EntriesIntact,
                        Published, Fetched, RxHolding, TxHolding
<1>4. QED BY <1>2, <1>3

\* The data invariant holds throughout, beside the index invariant.
LEMMA DataInvariant ==
  ASSUME WholeSlots, InOrder
  PROVE  Spec => [](TypeInv /\ IndexInv /\ DataInv)
<1>1. Init => TypeInv /\ IndexInv /\ DataInv
  BY TypeInit, IndexInit, DataInit
<1>2. (TypeInv /\ IndexInv /\ DataInv) /\ [Next]_vars => (TypeInv /\ IndexInv /\ DataInv)'
  BY TypeStep, IndexStep, DataStep
<1>3. QED BY <1>1, <1>2, PTL DEF Spec

(***************************************************************************)
(* If contexts run again in the order of their reads (InOrder), then what    *)
(* the worker or a transmit context still has to read is whole, however      *)
(* the DMAs of the receive contexts interleave: no DMA lands in an entry      *)
(* that is published, and no entry is refilled before it is given back        *)
(* (multi_rx.c:72-100, multi_tx.c:44-73, app_main.c:157-165).                 *)
(***************************************************************************)
THEOREM MultiEntriesSafe ==
  ASSUME WholeSlots, InOrder
  PROVE  Spec => []EntriesIntact
<1>1. DataInv => EntriesIntact
  BY DEF DataInv
<1>2. QED BY DataInvariant, <1>1, PTL

-----------------------------------------------------------------------------
(***************************************************************************)
(* That no packet is answered twice rests on two more invariants.  Contexts  *)
(* with a packet that has no entry yet:                                      *)
(***************************************************************************)
RxFresh == {c \in RxContexts : rxc[c].pc \in {"head", "resume"}}

\* Every frame becomes one packet, and every packet is admitted once.
OnceInv ==
    /\ \A i \in 1 .. Len(admitted) : admitted[i].id <= arrived
    /\ \A i, j \in 1 .. Len(admitted) : admitted[i].id = admitted[j].id => i = j
    /\ \A c \in RxFresh : rxc[c].pkt.id <= arrived
    /\ \A c \in RxFresh : \A i \in 1 .. Len(admitted) : admitted[i].id # rxc[c].pkt.id
    /\ \A c, d \in RxFresh : rxc[c].pkt.id = rxc[d].pkt.id => c = d

\* Contexts that have given their entry back and hold a packet to send.
TxSending == {c \in TxContexts : txc[c].pc = "send"}

\* The replies to the packets fetched are sent or in hand, none of them twice.
ReplyInv ==
    /\ \A c \in TxSending : \E n \in 1 .. Fetched : txc[c].pkt = EchoOf(admitted[n])
    /\ \A c, d \in TxSending : txc[c].pkt = txc[d].pkt => c = d
    /\ \A i \in 1 .. Len(sent) : \E n \in 1 .. Fetched : sent[i] = EchoOf(admitted[n])
    /\ \A c \in TxSending : \A i \in 1 .. Len(sent) : sent[i] # txc[c].pkt
    /\ Len(sent) + Cardinality(TxSending) = Fetched

\* No packet has arrived and none has been sent.
LEMMA OnceInit ==
  ASSUME Init
  PROVE  OnceInv /\ ReplyInv
<1>1. RxFresh = {} /\ TxSending = {} /\ TxHolding = {}
  BY DEF Init, RxInit, TxInit, RxIdle, TxIdle, RxFresh, TxSending, TxHolding
<1>2. Len(admitted) = 0 /\ Len(sent) = 0 /\ claimed = 0
  BY DEF Init, RxInit, TxInit
<1>3. Cardinality(TxSending) = 0 /\ Fetched = 0
  BY <1>1, <1>2, FS_EmptySet DEF Fetched
<1>4. OnceInv
  BY <1>1, <1>2 DEF OnceInv
<1>5. ReplyInv
  BY <1>1, <1>2, <1>3 DEF ReplyInv
<1>6. QED BY <1>4, <1>5

\* Where the numbers of the packets come from.
LEMMA PacketIds ==
  ASSUME TypeInv
  PROVE  /\ \A i \in 1 .. Len(admitted) : admitted[i].id \in Nat
         /\ \A c \in RxFresh : rxc[c].pkt \in Packets /\ rxc[c].pkt.id \in Nat
         /\ arrived \in Nat
<1>1. admitted \in Seq(Packets) /\ arrived \in 0 .. MaxFrames
  BY RxTypes
<1>2. \A i \in 1 .. Len(admitted) : admitted[i] \in Packets
  BY <1>1
<1>3. \A c \in RxFresh : rxc[c].pkt \in Packets
  BY DEF TypeInv, RxHandsInv, RxFresh
<1>4. \A p \in Packets : p.id \in Nat
  BY DEF Packets
<1>5. QED BY <1>1, <1>2, <1>3, <1>4

\* A step in which no context takes a packet or reserves.
LEMMA OnceSame ==
  ASSUME TypeInv, OnceInv, UNCHANGED admitted, arrived' \in Nat, arrived <= arrived',
         RxFresh' = RxFresh, \A c \in RxFresh : rxc'[c].pkt = rxc[c].pkt
  PROVE  OnceInv'
<1>1. /\ \A i \in 1 .. Len(admitted) : admitted[i].id \in Nat
      /\ \A c \in RxFresh : rxc[c].pkt.id \in Nat
      /\ arrived \in Nat
  BY PacketIds
<1>2. /\ \A i \in 1 .. Len(admitted) : admitted[i].id <= arrived'
      /\ \A c \in RxFresh : rxc[c].pkt.id <= arrived'
  BY <1>1 DEF OnceInv
<1>3. QED BY <1>2 DEF OnceInv

\* The receive engine admits every packet once.
LEMMA RxOnceStep ==
  ASSUME InOrder, TypeInv, OnceInv, RxStep
  PROVE  OnceInv'
<1>1. /\ cfg \in device_meta_t /\ rxl \in RxLocal /\ rxc \in [RxContexts -> RxContext]
      /\ rxq \in Seq(RxContexts) /\ admitted \in Seq(Packets) /\ RxQueueInv
  BY RxTypes
<1>2. PICK c \in RxContexts : \/ RxProcess(c)
                              \/ \E f \in Frames : RxDrop(c, f) \/ RxAllow(c, f)
  BY DEF RxStep, RxNext
<1>3. /\ \A i \in 1 .. Len(admitted) : admitted[i].id \in Nat
      /\ \A d \in RxFresh : rxc[d].pkt \in Packets /\ rxc[d].pkt.id \in Nat
      /\ arrived \in Nat
  BY PacketIds
<1>4. \A d \in RxFresh : d \in RxContexts /\ rxc[d].pc \in {"head", "resume"}
  BY DEF RxFresh
\* The context takes no packet and keeps the one it may have.
<1>5. ASSUME NEW d \in RxContexts, RxOthers(d), UNCHANGED <<arrived, admitted>>,
             \/ /\ rxc[d].pc \notin {"head", "resume"}
                /\ rxc'[d].pc \notin {"head", "resume"}
             \/ /\ rxc[d].pc \in {"head", "resume"} /\ rxc'[d].pc \in {"head", "resume"}
                /\ rxc'[d].pkt = rxc[d].pkt
      PROVE  OnceInv'
  <2>1. RxFresh' = RxFresh
    BY <1>5 DEF RxFresh, RxOthers
  <2>2. \A e \in RxFresh : rxc'[e].pkt = rxc[e].pkt
    BY <1>4, <1>5 DEF RxOthers
  <2>3. QED BY <1>3, <1>5, <2>1, <2>2, OnceSame
<1>6. CASE RxMain0
  BY <1>1, <1>5, <1>6, RxMain0Does
<1>7. CASE RxMain(c)
  BY <1>1, <1>5, <1>7, RxMainDoes
<1>8. CASE RxReadHead(c)
  BY <1>1, <1>5, <1>8, RxReadHeadDoes
<1>9. CASE RxRetry(c)
  BY <1>1, <1>5, <1>9, RxRetryDoes
<1>10. CASE RxReserve(c)
  <2>1. /\ rxc[c].pc = "resume" /\ rxc'[c].pc = "dma" /\ RxOthers(c)
        /\ admitted' = Append(admitted, rxc[c].pkt) /\ UNCHANGED arrived
    BY <1>1, <1>10, RxReserveDoes
  <2>2. c \in RxFresh /\ rxc[c].pkt \in Packets
    BY <1>3, <2>1 DEF RxFresh
  <2>3. /\ Len(admitted) \in Nat /\ Len(admitted') = Len(admitted) + 1
        /\ admitted'[Len(admitted) + 1] = rxc[c].pkt
        /\ \A n \in 1 .. Len(admitted) : admitted'[n] = admitted[n]
    <3>1. admitted' = Append(admitted, rxc[c].pkt)
      BY <2>1
    <3>2. QED BY <1>1, <2>2, <3>1, Admitting
  <2>4. \A d \in RxFresh' : d \in RxFresh /\ d # c /\ rxc'[d] = rxc[d]
    BY <2>1 DEF RxFresh, RxOthers
  <2>5. \A i \in 1 .. Len(admitted') : i \in 1 .. Len(admitted) \/ i = Len(admitted) + 1
    BY <2>3
  <2>6. \A i \in 1 .. Len(admitted') : admitted'[i].id <= arrived
    BY <2>2, <2>3, <2>5 DEF OnceInv
  <2>7. \A i, j \in 1 .. Len(admitted') : admitted'[i].id = admitted'[j].id => i = j
    BY <2>2, <2>3, <2>5 DEF OnceInv
  <2>8. \A d \in RxFresh' : \A i \in 1 .. Len(admitted') : admitted'[i].id # rxc'[d].pkt.id
    BY <2>2, <2>3, <2>4, <2>5 DEF OnceInv
  <2>9. \A d \in RxFresh' : rxc'[d].pkt.id <= arrived
    BY <2>4 DEF OnceInv
  <2>10. \A d, e \in RxFresh' : rxc'[d].pkt.id = rxc'[e].pkt.id => d = e
    BY <2>4 DEF OnceInv
  <2>11. arrived' = arrived
    BY <2>1
  <2>12. QED BY <2>6, <2>7, <2>8, <2>9, <2>10, <2>11 DEF OnceInv
<1>11. CASE \E part \in rxc[c].pending : RxDmaWrite(c, part)
  BY <1>1, <1>5, <1>11, RxDmaWriteDoes
<1>12. CASE RxTurn(c)
  BY <1>1, <1>5, <1>12, RxTurnDoes
<1>13. CASE RxPublish(c)
  BY <1>1, <1>5, <1>13, RxPublishDoes
<1>14. ASSUME NEW f \in Frames, RxDrop(c, f) PROVE OnceInv'
  <2>1. arrived' = arrived + 1 /\ UNCHANGED <<rxc, admitted>>
    BY <1>14 DEF RxDrop
  <2>2. RxFresh' = RxFresh /\ arrived' \in Nat /\ arrived <= arrived'
    BY <1>3, <2>1 DEF RxFresh
  <2>3. QED BY <2>1, <2>2, OnceSame
<1>15. ASSUME NEW f \in Frames, RxAllow(c, f) PROVE OnceInv'
  <2>1. /\ rxc[c].pc = "receive" /\ arrived' = arrived + 1 /\ rxc'[c].pc = "head"
        /\ rxc'[c].pkt = [id |-> arrived + 1, hdr |-> modify_packet_header(f)]
        /\ RxOthers(c) /\ UNCHANGED admitted
    BY <1>1, <1>15, RxAllowDoes
  <2>2. rxc'[c].pkt.id = arrived + 1
    BY <2>1
  <2>3. \A d \in RxFresh' : d = c \/ (d \in RxFresh /\ d # c /\ rxc'[d] = rxc[d])
    BY <2>1 DEF RxFresh, RxOthers
  <2>4. \A i \in 1 .. Len(admitted) : /\ admitted[i].id <= arrived'
                                      /\ admitted[i].id # arrived + 1
    <3>1. \A i \in 1 .. Len(admitted) : admitted[i].id <= arrived
      BY DEF OnceInv
    <3>2. QED BY <1>3, <2>1, <3>1
  <2>5. \A d \in RxFresh : rxc[d].pkt.id <= arrived' /\ rxc[d].pkt.id # arrived + 1
    <3>1. \A d \in RxFresh : rxc[d].pkt.id <= arrived
      BY DEF OnceInv
    <3>2. QED BY <1>3, <2>1, <3>1
  <2>6. \A d \in RxFresh' : rxc'[d].pkt.id <= arrived'
    <3>1. arrived + 1 <= arrived'
      BY <1>3, <2>1
    <3>2. QED BY <2>2, <2>3, <2>5, <3>1
  <2>7. \A d \in RxFresh' : \A i \in 1 .. Len(admitted) : admitted[i].id # rxc'[d].pkt.id
    BY <2>2, <2>3, <2>4 DEF OnceInv
  <2>8. \A d, e \in RxFresh' : rxc'[d].pkt.id = rxc'[e].pkt.id => d = e
    BY <2>2, <2>3, <2>5 DEF OnceInv
  <2>9. admitted' = admitted
    BY <2>1
  <2>10. QED BY <2>4, <2>6, <2>7, <2>8, <2>9 DEF OnceInv
<1>16. QED BY <1>2, <1>6, <1>7, <1>8, <1>9, <1>10, <1>11, <1>12, <1>13, <1>14, <1>15
           DEF RxProcess

\* Every packet is admitted once, whoever steps.
LEMMA OnceStep ==
  ASSUME InOrder, TypeInv, OnceInv, [Next]_vars
  PROVE  OnceInv'
<1>1. CASE RxStep
  BY <1>1, RxOnceStep
<1>2. CASE TxStep \/ HostStep \/ UNCHANGED vars
  <2>1. UNCHANGED <<arrived, admitted, rxc>>
    BY <1>2 DEF TxStep, HostStep, vars, rxVars
  <2>2. RxFresh' = RxFresh /\ arrived \in Nat
    BY <2>1, PacketIds DEF RxFresh
  <2>3. QED BY <2>1, <2>2, OnceSame
<1>3. QED BY <1>1, <1>2 DEF Next, RxStep, TxStep, HostStep

-----------------------------------------------------------------------------
\* Replies to different packets differ.
LEMMA RepliesDiffer ==
  ASSUME NEW p, NEW q, EchoOf(p) = EchoOf(q)
  PROVE  p = q
<1>1. PacketBytes(p) = PacketBytes(q)
  BY DEF EchoOf
<1>2. 0 \in PacketOffsets
  BY DEF PacketOffsets
<1>3. PacketBytes(p)[0] = <<p, 0>> /\ PacketBytes(q)[0] = <<q, 0>>
  BY <1>2 DEF PacketBytes
<1>4. QED BY <1>1, <1>3

\* A step in which no packet is fetched or sent.
LEMMA ReplySame ==
  ASSUME ReplyInv, UNCHANGED <<sent, Fetched>>, TxSending' = TxSending,
         \A c \in TxSending : txc'[c].pkt = txc[c].pkt,
         \A n \in 1 .. Fetched : admitted'[n] = admitted[n]
  PROVE  ReplyInv'
<1>1. \A n \in 1 .. Fetched : EchoOf(admitted'[n]) = EchoOf(admitted[n])
  OBVIOUS
<1>2. QED BY <1>1 DEF ReplyInv

\* A context begins or ends to send, or does neither.
LEMMA TxSendingStep ==
  ASSUME NEW c \in TxContexts, TxOthers(c)
  PROVE  /\ Cardinality(TxSending) \in Nat
         /\ c \in TxSending <=> txc[c].pc = "send"
         /\ c \in TxSending' <=> txc'[c].pc = "send"
         /\ (c \in TxSending <=> c \in TxSending') => TxSending' = TxSending
         /\ c \notin TxSending /\ c \in TxSending' =>
                /\ TxSending' = TxSending \cup {c}
                /\ Cardinality(TxSending') = Cardinality(TxSending) + 1
         /\ c \in TxSending /\ c \notin TxSending' =>
                /\ TxSending' = TxSending \ {c}
                /\ Cardinality(TxSending') = Cardinality(TxSending) - 1
<1>1. IsFiniteSet(TxSending) /\ Cardinality(TxSending) \in Nat
  BY ContextsFinite DEF TxSending
<1>2. TxSending' = {d \in TxContexts : txc'[d].pc = "send"}
  BY DEF TxSending
<1>3. \A d \in TxContexts : d # c => (d \in TxSending <=> d \in TxSending')
  BY <1>2 DEF TxSending, TxOthers
<1>4. TxSending \subseteq TxContexts /\ TxSending' \subseteq TxContexts
  BY <1>2 DEF TxSending
<1>5. (c \in TxSending <=> c \in TxSending') => TxSending' = TxSending
  BY <1>3, <1>4
<1>6. ASSUME c \notin TxSending, c \in TxSending'
      PROVE  TxSending' = TxSending \cup {c}
             /\ Cardinality(TxSending') = Cardinality(TxSending) + 1
  <2>1. TxSending' = TxSending \cup {c}
    BY <1>3, <1>4, <1>6
  <2>2. QED BY <1>1, <1>6, <2>1, FS_AddElement
<1>7. ASSUME c \in TxSending, c \notin TxSending'
      PROVE  TxSending' = TxSending \ {c}
             /\ Cardinality(TxSending') = Cardinality(TxSending) - 1
  <2>1. TxSending' = TxSending \ {c}
    BY <1>3, <1>4, <1>7
  <2>2. QED BY <1>1, <1>7, <2>1, FS_RemoveElement
<1>8. QED BY <1>1, <1>2, <1>5, <1>6, <1>7 DEF TxSending

\* A context that gives its entry back has a reply nobody else has.
LEMMA TxPublishReply ==
  ASSUME WholeSlots, TypeInv, IndexInv, DataInv, OnceInv, ReplyInv, TxStep,
         NEW c \in TxContexts, TxPublish(c)
  PROVE  ReplyInv'
<1>1. cfg \in device_meta_t /\ txc \in [TxContexts -> TxContext(Bytes)]
      /\ sent \in Seq(TxPackets(Bytes))
  BY TxTypes
<1>2. /\ txc[c].pc = "publish" /\ txc'[c].pc = "send" /\ TxOthers(c)
      /\ UNCHANGED <<sent, claimed>>
  BY <1>1, TxPublishDoes
<1>3. Fetched' = Fetched + 1 /\ txc'[c].pkt = EchoOf(admitted[Fetched + 1])
  BY TxPublishData
<1>4. /\ c \notin TxSending /\ TxSending' = TxSending \cup {c}
      /\ Cardinality(TxSending') = Cardinality(TxSending) + 1
      /\ Cardinality(TxSending) \in Nat
  BY <1>2, TxSendingStep
<1>5. /\ Fetched \in Nat /\ Len(admitted) \in Nat /\ Fetched + 1 <= Len(admitted)
  <2>1. c \in TxHolding
    BY <1>2 DEF TxHolding
  <2>2. PICK m \in Fetched .. (claimed - 1) : txc[c].head = OffsetOf(m)
    BY <2>1, TxEntry
  <2>3. /\ Fetched \in Nat /\ claimed \in Nat /\ echoed \in Nat /\ Published \in Nat
        /\ Len(admitted) \in Nat /\ claimed <= echoed /\ echoed <= Published
        /\ Published <= Len(admitted)
    BY CountersSpan
  <2>4. Fetched <= m /\ m <= claimed - 1 /\ m \in Int
    BY <2>2, <2>3
  <2>5. QED BY <2>3, <2>4
<1>6. ASSUME NEW n \in 1 .. Fetched
      PROVE  EchoOf(admitted[n]) # EchoOf(admitted[Fetched + 1])
  <2>1. n \in 1 .. Len(admitted) /\ Fetched + 1 \in 1 .. Len(admitted) /\ n # Fetched + 1
    BY <1>5
  <2>2. admitted[n].id # admitted[Fetched + 1].id
    BY <2>1 DEF OnceInv
  <2>3. QED BY <2>2, RepliesDiffer
<1>7. UNCHANGED admitted
  BY DEF TxStep, rxVars
<1>8. \A n \in 1 .. Fetched : n \in 1 .. (Fetched + 1)
  BY <1>5
<1>9. Fetched + 1 \in 1 .. (Fetched + 1)
  BY <1>5
<1>10. \A d \in TxSending : d # c /\ txc'[d] = txc[d]
  BY <1>2, <1>4 DEF TxSending, TxOthers
<1>11. \A d \in TxSending' : \E n \in 1 .. (Fetched + 1) : txc'[d].pkt = EchoOf(admitted[n])
  BY <1>3, <1>4, <1>8, <1>9, <1>10 DEF ReplyInv
<1>12. \A d, e \in TxSending' : txc'[d].pkt = txc'[e].pkt => d = e
  <2>1. \A d \in TxSending : txc[d].pkt # txc'[c].pkt
    BY <1>3, <1>6 DEF ReplyInv
  <2>2. QED BY <1>4, <1>10, <2>1 DEF ReplyInv
<1>13. \A i \in 1 .. Len(sent) : \E n \in 1 .. (Fetched + 1) : sent[i] = EchoOf(admitted[n])
  BY <1>8 DEF ReplyInv
<1>14. \A d \in TxSending' : \A i \in 1 .. Len(sent) : sent[i] # txc'[d].pkt
  <2>1. \A i \in 1 .. Len(sent) : sent[i] # txc'[c].pkt
    BY <1>3, <1>6 DEF ReplyInv
  <2>2. QED BY <1>4, <1>10, <2>1 DEF ReplyInv
<1>15. Len(sent) + Cardinality(TxSending') = Fetched + 1
  <2>1. Len(sent) \in Nat /\ Len(sent) + Cardinality(TxSending) = Fetched
    BY <1>1 DEF ReplyInv
  <2>2. QED BY <1>4, <2>1
<1>16. QED BY <1>2, <1>3, <1>7, <1>11, <1>12, <1>13, <1>14, <1>15 DEF ReplyInv

\* A context hands its reply to the NBI.
LEMMA TxSendReply ==
  ASSUME TypeInv, ReplyInv, TxStep, NEW c \in TxContexts, TxSend(c)
  PROVE  ReplyInv'
<1>1. txc \in [TxContexts -> TxContext(Bytes)] /\ sent \in Seq(TxPackets(Bytes))
      /\ txc[c] \in TxContext(Bytes) /\ txc[c].pkt \in TxPackets(Bytes)
  BY TxTypes DEF TxContext
<1>2. /\ txc[c].pc = "send" /\ sent' = Append(sent, txc[c].pkt)
      /\ txc'[c].pc = "allocate" /\ TxOthers(c) /\ UNCHANGED claimed
  BY <1>1, TxSendDoes
<1>3. /\ c \in TxSending /\ TxSending' = TxSending \ {c}
      /\ Cardinality(TxSending') = Cardinality(TxSending) - 1
      /\ Cardinality(TxSending) \in Nat
  BY <1>2, TxSendingStep
<1>4. Fetched' = Fetched
  <2>1. TxHolding' = TxHolding
    BY <1>2, TxHoldingStep
  <2>2. QED BY <1>2, <2>1 DEF Fetched
<1>5. /\ Len(sent) \in Nat /\ Len(sent') = Len(sent) + 1
      /\ sent'[Len(sent) + 1] = txc[c].pkt
      /\ \A i \in 1 .. Len(sent) : sent'[i] = sent[i]
  <2>1. sent' = Append(sent, txc[c].pkt)
    BY <1>2
  <2>2. QED BY <1>1, <2>1, AppendFacts
<1>6. \A i \in 1 .. Len(sent') : i \in 1 .. Len(sent) \/ i = Len(sent) + 1
  BY <1>5
<1>7. UNCHANGED admitted
  BY DEF TxStep, rxVars
<1>8. \A d \in TxSending' : d \in TxSending /\ d # c /\ txc'[d] = txc[d]
  BY <1>2, <1>3 DEF TxSending, TxOthers
<1>9. \A d \in TxSending' : \E n \in 1 .. Fetched : txc'[d].pkt = EchoOf(admitted[n])
  BY <1>8 DEF ReplyInv
<1>10. \A d, e \in TxSending' : txc'[d].pkt = txc'[e].pkt => d = e
  BY <1>8 DEF ReplyInv
<1>11. \A i \in 1 .. Len(sent') : \E n \in 1 .. Fetched : sent'[i] = EchoOf(admitted[n])
  BY <1>3, <1>5, <1>6 DEF ReplyInv
<1>12. \A d \in TxSending' : \A i \in 1 .. Len(sent') : sent'[i] # txc'[d].pkt
  BY <1>3, <1>5, <1>6, <1>8 DEF ReplyInv
<1>13. Len(sent') + Cardinality(TxSending') = Fetched
  <2>1. Len(sent) + Cardinality(TxSending) = Fetched
    BY DEF ReplyInv
  <2>2. QED BY <1>3, <1>5, <2>1
<1>14. QED BY <1>4, <1>7, <1>9, <1>10, <1>11, <1>12, <1>13 DEF ReplyInv

\* The transmit engine answers no packet twice.
LEMMA TxReplyStep ==
  ASSUME WholeSlots, InOrder, TypeInv, IndexInv, DataInv, OnceInv, ReplyInv, TxStep
  PROVE  ReplyInv'
<1>1. /\ txl \in TxLocal /\ txc \in [TxContexts -> TxContext(Bytes)]
      /\ txq \in Seq(TxContexts) /\ TxQueueInv
  BY TxTypes
<1>2. UNCHANGED admitted
  BY DEF TxStep, rxVars
<1>3. ASSUME NEW d \in TxContexts, TxOthers(d), UNCHANGED <<sent, Fetched>>,
             txc[d].pc # "send", txc'[d].pc # "send"
      PROVE  ReplyInv'
  <2>1. TxSending' = TxSending /\ d \notin TxSending
    BY <1>3, TxSendingStep
  <2>2. \A e \in TxSending : txc'[e].pkt = txc[e].pkt
    BY <1>3, <2>1 DEF TxSending, TxOthers
  <2>3. QED BY <1>2, <1>3, <2>1, <2>2, ReplySame
<1>4. ASSUME NEW d \in TxContexts, TxOthers(d), UNCHANGED <<sent, claimed>>,
             txc[d].pc \in {"dma", "publish"} <=> txc'[d].pc \in {"dma", "publish"},
             txc[d].pc # "send", txc'[d].pc # "send"
      PROVE  ReplyInv'
  <2>1. TxHolding' = TxHolding
    BY <1>4, TxHoldingStep
  <2>2. Fetched' = Fetched
    BY <1>4, <2>1 DEF Fetched
  <2>3. QED BY <1>3, <1>4, <2>2
<1>5. CASE NbiTransmit
  <2>1. UNCHANGED <<txc, claimed, sent>>
    BY <1>5 DEF NbiTransmit
  <2>2. TxSending' = TxSending /\ Fetched' = Fetched
    BY <2>1 DEF TxSending, TxHolding, Fetched
  <2>3. QED BY <1>2, <2>1, <2>2, ReplySame
<1>6. ASSUME NEW c \in TxContexts, TxProcess(c)
      PROVE  ReplyInv'
  <2>1. CASE TxMain0
    BY <1>1, <1>4, <2>1, TxMain0Does
  <2>2. CASE TxMain(c)
    BY <1>1, <1>4, <2>2, TxMainDoes
  <2>3. CASE TxAllocate(c)
    BY <1>1, <1>4, <2>3, TxAllocateDoes
  <2>4. CASE TxReadTail(c)
    BY <1>1, <1>4, <2>4, TxReadTailDoes
  <2>5. CASE TxRetry(c)
    BY <1>1, <1>4, <2>5, TxRetryDoes
  <2>6. CASE TxClaim(c)
    <3>1. Fetched' = Fetched
      BY <2>6, TxClaimData
    <3>2. QED BY <1>1, <1>3, <2>6, <3>1, TxClaimDoes
  <2>7. CASE \E part \in txc[c].pending : TxDmaRead(c, part)
    BY <1>1, <1>4, <2>7, TxDmaReadDoes
  <2>8. CASE TxTurn(c)
    BY <1>1, <1>4, <2>8, TxTurnDoes
  <2>9. CASE TxPublish(c)
    BY <2>9, TxPublishReply
  <2>10. CASE TxSend(c)
    BY <2>10, TxSendReply
  <2>11. QED BY <1>6, <2>1, <2>2, <2>3, <2>4, <2>5, <2>6, <2>7, <2>8, <2>9, <2>10
             DEF TxProcess
<1>7. QED BY <1>5, <1>6 DEF TxStep, TxNext

\* Only a reservation adds to the packets admitted, at their end.
LEMMA RxAdmits ==
  ASSUME InOrder, TypeInv, RxStep
  PROVE  \/ UNCHANGED admitted
         \/ \E c \in RxContexts :
               /\ RxReserve(c) /\ rxc[c].pkt \in Packets
               /\ admitted' = Append(admitted, rxc[c].pkt)
<1>1. PICK c \in RxContexts : \/ RxProcess(c)
                              \/ \E f \in Frames : RxDrop(c, f) \/ RxAllow(c, f)
  BY DEF RxStep, RxNext
<1>2. CASE RxReserve(c)
  <2>1. rxc[c].pc = "resume" /\ admitted' = Append(admitted, rxc[c].pkt)
    BY <1>2 DEF RxReserve
  <2>2. rxc[c].pkt \in Packets
    BY <2>1 DEF TypeInv, RxHandsInv
  <2>3. QED BY <1>2, <2>1, <2>2
<1>3. CASE ~ RxReserve(c)
  BY <1>1, <1>3 DEF RxProcess, RxMain0, RxMain, RxReadHead, RxRetry, RxDmaWrite, RxTurn,
                    RxPublish, RxDrop, RxAllow
<1>4. QED BY <1>2, <1>3

\* No packet is answered twice, whoever steps.
LEMMA ReplyStep ==
  ASSUME WholeSlots, InOrder, TypeInv, IndexInv, DataInv, OnceInv, ReplyInv, [Next]_vars
  PROVE  ReplyInv'
<1>1. CASE RxStep
  <2>1. UNCHANGED <<txc, sent, claimed>>
    BY <1>1 DEF RxStep, txVars
  <2>2. TxSending' = TxSending /\ Fetched' = Fetched
    BY <2>1 DEF TxSending, TxHolding, Fetched
  <2>3. Fetched \in Nat /\ Len(admitted) \in Nat /\ Fetched <= Len(admitted)
    BY CountersSpan
  <2>4. admitted \in Seq(Packets)
    BY RxTypes
  <2>5. \A n \in 1 .. Fetched : n \in 1 .. Len(admitted)
    BY <2>3
  <2>6. \A n \in 1 .. Len(admitted) : admitted'[n] = admitted[n]
    BY <1>1, <2>4, RxAdmits, Admitting
  <2>7. QED BY <2>1, <2>2, <2>5, <2>6, ReplySame
<1>2. CASE TxStep
  BY <1>2, TxReplyStep
<1>3. CASE HostStep \/ UNCHANGED vars
  <2>1. UNCHANGED <<txc, sent, claimed, admitted>>
    BY <1>3 DEF HostStep, vars, rxVars, txVars
  <2>2. TxSending' = TxSending /\ Fetched' = Fetched
    BY <2>1 DEF TxSending, TxHolding, Fetched
  <2>3. QED BY <2>1, <2>2, ReplySame
<1>4. QED BY <1>1, <1>2, <1>3 DEF Next, RxStep, TxStep, HostStep

-----------------------------------------------------------------------------
EchoInv == /\ TypeInv /\ IndexInv /\ DataInv
           /\ OnceInv /\ ReplyInv

\* All parts of the invariant hold throughout.
LEMMA EchoInvariant ==
  ASSUME WholeSlots, InOrder
  PROVE  Spec => []EchoInv
<1>1. Init => EchoInv
  BY TypeInit, IndexInit, DataInit, OnceInit DEF EchoInv
<1>2. EchoInv /\ [Next]_vars => EchoInv'
  BY TypeStep, IndexStep, DataStep, OnceStep, ReplyStep DEF EchoInv
<1>3. QED BY <1>1, <1>2, PTL DEF Spec

\* Every step of the path is a step of the service or leaves it alone: only
\* RxReserve admits a packet and only TxSend sends one.
LEMMA ServiceStep ==
  ASSUME WholeSlots, InOrder, EchoInv, [Next]_vars
  PROVE  [Service!Next]_(Service!serviceVars)
<1>1. TypeInv /\ IndexInv /\ ReplyInv
  BY DEF EchoInv
<1>2. ASSUME UNCHANGED <<admitted, sent>>
      PROVE  [Service!Next]_(Service!serviceVars)
  BY <1>2 DEF Service!serviceVars
<1>3. /\ Released \in Nat /\ echoed \in Nat /\ Handed \in Nat /\ Fetched \in Nat
      /\ Len(admitted) \in Nat /\ Len(sent) \in Nat
      /\ Released <= Handed /\ Handed <= echoed /\ echoed - Fetched <= NumSlots - 1
  BY <1>1, CountersType
<1>4. Cardinality(TxSending) <= Cardinality(TxContexts)
      /\ Cardinality(TxSending) \in Nat /\ Cardinality(TxContexts) \in Nat
  BY FS_Subset, FS_CardinalityType DEF TxSending
<1>5. CASE RxStep
  <2>1. UNCHANGED <<sent, hostVars>>
    BY <1>5 DEF RxStep, txVars
  <2>2. ASSUME NEW p \in Packets, admitted' = Append(admitted, p)
        PROVE  Service!Admit
    <3>1. Len(admitted') = Len(admitted) + 1
      <4>1. admitted \in Seq(Packets)
        BY <1>1, RxTypes
      <4>2. QED BY <2>2, <4>1, Admitting
    <3>2. Len(admitted') - Released' <= NumSlots - 1
      <4>1. IndexInv'
        BY <1>1, IndexStep
      <4>2. QED BY <4>1 DEF IndexInv, RxIndexInv, ReserveOnlyFree
    <3>3. Released' = Released
      BY <2>1 DEF hostVars, Released
    <3>4. Len(sent) + Cardinality(TxSending) = Fetched
      BY <1>1 DEF ReplyInv
    <3>5. Len(admitted) - Len(sent) < 2 * (NumSlots - 1) + Cardinality(TxContexts)
      <4>1. NumSlots \in Nat /\ (Len(admitted) + 1) - Released <= NumSlots - 1
        <5>1. Len(admitted') - Released' = (Len(admitted) + 1) - Released
          BY <3>1, <3>3
        <5>2. QED BY <3>2, <5>1, SlotFacts
      <4>2. Len(admitted) < echoed + (NumSlots - 1)
        BY <1>3, <4>1
      <4>3. Len(admitted) - Fetched < 2 * (NumSlots - 1)
        <5>1. echoed <= Fetched + (NumSlots - 1)
          BY <1>3, <4>1
        <5>2. QED BY <1>3, <4>1, <4>2, <5>1
      <4>4. Fetched - Len(sent) <= Cardinality(TxContexts)
        BY <1>3, <1>4, <3>4
      <4>5. QED BY <1>3, <1>4, <4>1, <4>3, <4>4
    <3>6. QED BY <2>1, <2>2, <3>5 DEF Service!Admit
  <2>3. CASE UNCHANGED admitted
    BY <1>2, <2>1, <2>3
  <2>4. CASE Service!Admit
    BY <2>4 DEF Service!Next
  <2>5. QED BY <1>1, <1>5, <2>2, <2>3, <2>4, RxAdmits
<1>6. CASE TxStep
  <2>1. UNCHANGED admitted
    BY <1>6 DEF TxStep, rxVars
  <2>2. ASSUME NEW c \in TxContexts, TxSend(c)
        PROVE  \E n \in 1 .. Len(admitted) : Service!SendBack(n)
    <3>1. c \in TxSending /\ sent' = Append(sent, txc[c].pkt)
      BY <2>2 DEF TxSend, TxSending
    <3>2. PICK n \in 1 .. Fetched : txc[c].pkt = EchoOf(admitted[n])
      BY <1>1, <3>1 DEF ReplyInv
    <3>3. ~ Service!Replied(n)
      BY <1>1, <3>1, <3>2 DEF ReplyInv, Service!Replied
    <3>4. n \in 1 .. Len(admitted)
      <4>1. Fetched \in Nat /\ Len(admitted) \in Nat /\ Fetched <= Len(admitted)
        <5>1. /\ Fetched \in Nat /\ claimed \in Nat /\ echoed \in Nat /\ Published \in Nat
              /\ Len(admitted) \in Nat /\ Fetched <= claimed /\ claimed <= echoed
              /\ echoed <= Published /\ Published <= Len(admitted)
          BY <1>1, CountersSpan
        <5>2. QED BY <5>1
      <4>2. QED BY <3>2, <4>1
    <3>5. Service!SendBack(n)
      BY <2>1, <3>1, <3>2, <3>3 DEF Service!SendBack
    <3>6. QED BY <3>4, <3>5
  <2>3. (\E c \in TxContexts : TxSend(c)) \/ UNCHANGED sent
    <3>2. ASSUME NEW c \in TxContexts, TxProcess(c), ~ TxSend(c)
          PROVE  UNCHANGED sent
      BY <3>2 DEF TxProcess, TxMain0, TxMain, TxAllocate, TxReadTail, TxRetry, TxClaim,
                  TxDmaRead, TxTurn, TxPublish
    <3>3. CASE NbiTransmit
      BY <3>3 DEF NbiTransmit
    <3>4. QED BY <1>6, <3>2, <3>3 DEF TxStep, TxNext
  <2>4. CASE UNCHANGED sent
    BY <1>2, <2>1, <2>4
  <2>5. CASE \E n \in 1 .. Len(admitted) : Service!SendBack(n)
    BY <2>5 DEF Service!Next
  <2>6. QED BY <2>2, <2>3, <2>4, <2>5
<1>7. CASE HostStep \/ UNCHANGED vars
  <2>1. UNCHANGED <<admitted, sent>>
    BY <1>7 DEF HostStep, vars, rxVars, txVars
  <2>2. QED BY <1>2, <2>1
<1>8. QED BY <1>5, <1>6, <1>7 DEF Next, RxStep, TxStep, HostStep

(***************************************************************************)
(* For every number of contexts and every configuration with whole entries, *)
(* if contexts run again in the order of their reads (InOrder), the          *)
(* multi-context echo path (multi_rx.c, udp_worker, multi_tx.c)              *)
(* implements the unordered echo service: every packet that gets an entry of *)
(* the receive ring is sent at most once, with exactly its bytes and its     *)
(* configured length, and never more packets are inside than the two rings   *)
(* and the transmit contexts hold.                                           *)
(***************************************************************************)
THEOREM MultiEchoCorrect ==
  ASSUME WholeSlots, InOrder
  PROVE  Spec => EchoSafety
<1>1. Init => Service!Init
  BY DEF Init, RxInit, TxInit, Service!Init
<1>2. EchoInv /\ [Next]_vars => [Service!Next]_(Service!serviceVars)
  BY ServiceStep
<1>3. QED BY <1>1, <1>2, EchoInvariant, PTL DEF Spec, EchoSafety, Service!Safety

==============================================================================
