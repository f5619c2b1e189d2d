CONSTANTS
    m1 = m1
    m2 = m2
    m3 = m3
    Address = {m1, m2, m3}
    Genesis = {m1, m2}
    Policies <- OnePolicy
    FirstPolicy <- Threshold2
    MaxExecutionPeriod = 1
    OperatorSigns = TRUE
    PayloadSet <- JoinPayloads
    OptionSet = {"yes"}
    MaxProposal = 2
    MaxVersion = 3
    MaxTime = 1
SPECIFICATION Spec
INVARIANT OldProposalsAborted
CHECK_DEADLOCK FALSE
