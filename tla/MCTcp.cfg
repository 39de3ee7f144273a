SPECIFICATION FairSpec
CONSTANTS
    Procs = {p1, p2}
    MAX_CONN = 2
    PORTS = 3
    RX_SIZE = 3
    TX_MSS = 2
    SEQ = 24
    ISS = 22
    PEER_ISS = 22
    Worlds <- AllWorlds
CHECK_DEADLOCK FALSE
 
 
PROPERTY SlotsKept
 
