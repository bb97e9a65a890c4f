SPECIFICATION FairSpec
CONSTANTS
    a = a
    u1 = u1
    c1 = c1
    c2 = c2
    m1 = m1
    m2 = m2
    s1 = s1
    s2 = s2
    r1 = r1
    r2 = r2
    Cores = {"xray", "hy2"}
    Tags = {a}
    Users = {u1}
    Conns = {c1}
    Tables = {m1}
    Storages = {s1}
    Reporters = {r1, r2}
    ReportsFor <- OneNode
    Started = {r1}
    MinTraffic = 0
    Retries = 1
    Faults = {"answer"}
    MaxMoved = 2
    Churn = {"users", "nodes"}
    Nil = Nil
INVARIANT RepeatsBounded
PROPERTY GetsBilled
