CONSTANTS
    Conn = {c1, c2, c3}
    Addr = {a1, a2}
    PeerId = {p1, p2}
    OurId = OurId
    MAX_NUM_PEERS = 1
    NoConn = NoConn
    NoAddr = NoAddr
    NoId = NoId
SPECIFICATION FairSpec
INVARIANT TypeOK NoDeadEntry IInv
PROPERTY DeadPeerDropped
