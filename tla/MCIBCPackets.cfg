SPECIFICATION FairSpec
CONSTANTS
    A = A
    B = B
    Sender = {A}
    MayClose = {B}
    MaxHeight = 3
    LastHeight <- MCLastHeight
    MaxSequence = 2
    Timeout <- MCTimeout
    BlockTime <- MCBlockTime
INVARIANTS NeverBoth DeliveredInOrder
PROPERTIES ImplementsChannel PacketsSettle
CHECK_DEADLOCK FALSE
