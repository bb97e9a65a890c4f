SPECIFICATION Spec
CONSTANTS
    k1 = k1
    k2 = k2
    alice = alice
    ip1 = ip1
    ip2 = ip2
    Conns <- TwoConns
    Users <- OneUser
    Ips <- TwoIps
    Limits <- Mixed
    NodeSpeed = 3
    MaxAlive = 1
    MaxReports = 2
    MaxUpdates = 1
    Nil = Nil
SYMMETRY Symmetric
INVARIANTS CountedHasConn AdmittedPastLimitIsKnown OneBucket
