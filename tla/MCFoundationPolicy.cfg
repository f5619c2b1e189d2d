CONSTANTS
    m1 = m1
    m2 = m2
    m3 = m3
    Address = {m1, m2}
    Genesis = {m1, m2}
    Policies <- TwoPolicies
    FirstPolicy <- Threshold2
    MaxExecutionPeriod = 1
    OperatorSigns = TRUE
    PayloadSet <- PolicyPayloads
    OptionSet = {"yes", "abstain"}
    MaxProposal = 2
    MaxVersion = 2
    MaxTime = 1
SPECIFICATION Spec
INVARIANTS
    EarlyDecisionSound
PROPERTIES
    DecisionIsFinal
CHECK_DEADLOCK FALSE
