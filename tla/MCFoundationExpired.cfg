CONSTANTS
    m1 = m1
    m2 = m2
    m3 = m3
    Address = {m1, m2, m3}
    Genesis = {m1, m2}
    Policies <- OnePolicy
    FirstPolicy <- Threshold2
    MaxExecutionPeriod = 1
    OperatorSigns = FALSE
    PayloadSet <- JoinPayloads
    OptionSet = {"yes"}
    MaxProposal = 1
    MaxVersion = 2
    MaxTime = 3
SPECIFICATION Spec
INVARIANT ExpiredArePruned
CHECK_DEADLOCK FALSE
