CONSTANTS
    Account = {a1, a2}
    Req = {r1, r2}
    NoReq = NoReq
    FeeCollector = FeeCollector
    NoTx = NoTx
    Absent = Absent
    TxSet <- AnyonePaysTx
    ChanCap = 2
    MaxCommit = 0
    Funds = 2
SYMMETRY ReqSymmetry
SPECIFICATION Spec
INVARIANT AcceptedOnce
CHECK_DEADLOCK FALSE
