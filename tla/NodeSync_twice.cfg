SPECIFICATION Spec
CONSTANTS
    alice = alice
    bob = bob
    c1 = c1
    c2 = c2
    Users <- MCUsers
    Plans <- MCOnePlan
    Configs <- MCConfigs
    TlsConfigs <- MCTls
    PullInterval <- TwoIntervals
    FailBodies = {errPage}
    Runners = {1, 2}
    Named = FALSE
    Faults = {}
    Nil = Nil
    Fail = Fail
INVARIANT NeverPanics
