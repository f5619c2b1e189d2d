CONSTANTS
    Account = {a1, a2}
    Req = {r1, r2, r3}
    NoReq = NoReq
    FeeCollector = FeeCollector
    NoTx = NoTx
    Absent = Absent
    TxSet <- SignerPaysTx
    ChanCap = 2
    MaxCommit = 0
    Funds = 1
SYMMETRY Symmetry
SPECIFICATION Spec
INVARIANTS
    TypeOK
    ArrivalOrder
    AcceptedOnce
CHECK_DEADLOCK FALSE
