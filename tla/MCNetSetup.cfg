SPECIFICATION FairSpec
CONSTANTS
    RX_COUNT = 3
    TX_COUNT = 2
    ARP_SIZE = 2
    MaxDepth = 6
    Worlds <- MCWorlds
 
 
INVARIANT RingsAgree
 
CHECK_DEADLOCK FALSE
