CONSTANTS
    m1 = m1
    m2 = m2
    m3 = m3
    Address = {m1, m2, m3}
    Genesis = {m1, m2}
    Policies <- OnePolicy
    FirstPolicy <- Threshold2
    MaxExecutionPeriod = 1
    OperatorSigns = FALSE
    PayloadSet <- JoinPayloads
    OptionSet = {"yes", "no"}
    MaxProposal = 2
    MaxVersion = 2
    MaxTime = 2
SPECIFICATION Spec
INVARIANTS
    TypeOK
    QueueMatches
    VotesArePruned
    ExecutedOnce
CHECK_DEADLOCK FALSE
