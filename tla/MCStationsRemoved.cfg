CONSTANTS
    r1 = r1
    r2 = r2
    l1 = l1
    l2 = l2
    Runners <- TwoRunners
    NoRunner = NoRunner
    Loops <- TwoLoops
    MaxCalls = 2
SPECIFICATION FairSpec
PROPERTY RemovedFallsSilent
