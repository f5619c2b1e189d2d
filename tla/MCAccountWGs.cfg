CONSTANTS
    Account = {a1, a2}
    Req = {r1, r2, r3, r4}
    NoReq = NoReq
SYMMETRY Symmetry
SPECIFICATION Spec
INVARIANTS
    MutualExclusion
    RegistrationOrder
    TableIsCurrent
    NoCircularWait
CHECK_DEADLOCK FALSE
