CONSTANTS
    Scripts <- MCScripts
    HasFactory = TRUE
    Cap = 3
    RecvChunk = 2
    StreamChunk = 5
    MaxBody = 2
    MaxStreamed = 4
    MaxKeepalive = 4
    TxCap = 2
SPECIFICATION FairSpec
INVARIANTS
    WireInOrder
    FramingHolds
    SinkToldOnce
    NothingLeftBehind
PROPERTIES
    DrainEnds
    SlowPeerDropped
