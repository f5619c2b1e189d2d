CONSTANTS
    Account = {a1, a2}
    Req = {r1, r2}
    NoReq = NoReq
    FeeCollector = FeeCollector
    NoTx = NoTx
    Absent = Absent
    TxSet <- FewTx
    ChanCap = 1
    MaxCommit = 1
    Funds = 1
SPECIFICATION FairSpec
INVARIANTS
    FreshContext
PROPERTIES
    ImplementsSerial
    EveryRequestEnds
CHECK_DEADLOCK FALSE
