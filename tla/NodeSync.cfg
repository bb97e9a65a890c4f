SPECIFICATION FairSpec
CONSTANTS
    alice = alice
    bob = bob
    c1 = c1
    c2 = c2
    Users <- MCUsers
    Plans <- MCPlans
    Configs <- MCConfigs
    TlsConfigs <- MCTls
    PullInterval <- SameInterval
    FailBodies = {errPage}
    Runners = {1}
    Named = FALSE
    Faults = {"node", "users", "cert", "addnode"}
    Nil = Nil
    Fail = Fail
INVARIANT Agreement
PROPERTIES NoNeedlessKick UsersConverge ConfigConverges
