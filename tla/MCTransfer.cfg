SPECIFICATION FairSpec
CONSTANTS
    a = a
    b = b
    c = c
    ab = ab
    ba = ba
    bc = bc
    cb = cb
    Zone <- MCZone
    End <- MCEnd
    Home <- MCHome
    Name <- MCName
    Peer <- MCPeer
    Supply <- MCSupply
    MaxSequence = 2
    MaxHops = 2
    MaxTransfers = 4
INVARIANTS SupplyConstant VouchersBacked
PROPERTIES TransfersSettle
CHECK_DEADLOCK FALSE
