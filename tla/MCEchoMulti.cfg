\* Two contexts on each engine and three entries per ring: two packets fill a
\* ring, so both contexts can hold an entry.
CONSTANTS
    client = client
    server = server
    Zero = Zero
    NoPkt = NoPkt
    RxContexts = {r0, r1}
    rx_ctx0 = r0
    TxContexts = {t0, t1}
    tx_ctx0 = t0
    InOrder = TRUE
    Frames <- MCMixedFrames
    UDP_PACKET_SIZE = 1
    RING_BUFFER_SIZE = 3
    MAC_PREPEND_BYTES = 4
    RxCtmWindow = 1
    TxCtmWindow = 1
    TxBuffers = 2
    MaxFrames = 3

SPECIFICATION FairSpec

INVARIANTS
    OrderedPublication
    ReserveOnlyFree
    ClaimOnlyHanded
    EntriesIntact
    ConfiguredBeforeUse
    BuffersConserved

PROPERTIES
    EchoSafety
    EchoLiveness

CHECK_DEADLOCK FALSE
