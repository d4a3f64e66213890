\* The contexts run again in any order after a CLS read (receive side).
CONSTANTS
    client = client
    server = server
    Zero = Zero
    NoPkt = NoPkt
    RxContexts = {r0, r1}
    rx_ctx0 = r0
    TxContexts = {t0, t1}
    tx_ctx0 = t0
    InOrder = FALSE
    Frames <- MCFrames
    UDP_PACKET_SIZE = 1
    RING_BUFFER_SIZE = 2
    MAC_PREPEND_BYTES = 4
    RxCtmWindow = 1
    TxCtmWindow = 1
    TxBuffers = 2
    MaxFrames = 3

SPECIFICATION Spec

INVARIANT ReserveOnlyFree

CHECK_DEADLOCK FALSE
