\* Three-byte packets, three entries per ring: the DMA windows split a packet
\* at different bytes on receive and transmit, and five frames wrap both rings.
CONSTANTS
    client = client
    server = server
    Zero = Zero
    NoPkt = NoPkt
    Frames <- MCFrames
    UDP_PACKET_SIZE = 3
    RING_BUFFER_SIZE = 9
    MAC_PREPEND_BYTES = 4
    RxCtmWindow = 1
    TxCtmWindow = 2
    TxBuffers = 2
    MaxFrames = 5

SPECIFICATION FairSpec

INVARIANTS
    TypeOK
    NoOverrun
    EntriesIntact
    ConfiguredBeforeUse

PROPERTIES
    RingsSafe
    EchoSafety
    EchoLiveness

CHECK_DEADLOCK FALSE
