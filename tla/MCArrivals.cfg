SPECIFICATION ArrivalsSpec
CONSTANTS
    ReorderWindow = 5
    BitmapBits = 6
    StartSeq = 1
    MaxSeq = 10
    Packet <- MCPacket
    Key = {k1, k2}
    MaxCounter = 7
    Counter <- MCCounter
    Word = 2
    window_bits = 4
INVARIANTS
    DeliveredInOrder
    AckIsExact
    MissingIsAnnounced
    
    
    HandshakeAgrees
    PumpIsTabled
    RingIsExact
 
CHECK_DEADLOCK FALSE
