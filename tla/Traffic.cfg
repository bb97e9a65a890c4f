SPECIFICATION Spec
CONSTANTS
    a = a
    u1 = u1
    c1 = c1
    c2 = c2
    m1 = m1
    m2 = m2
    s1 = s1
    s2 = s2
    r1 = r1
    r2 = r2
    Cores = {"xray", "sing", "hy2"}
    Tags = {a}
    Users = {u1}
    Conns = {c1, c2}
    Tables = {m1, m2}
    Storages = {s1, s2}
    Reporters = {r1}
    ReportsFor <- OneNode
    Started = {r1}
    MinTraffic = 0
    Retries = 1
    Faults = {"drop"}
    MaxMoved = 2
    Churn = {"users"}
    Nil = Nil
SYMMETRY Symmetry
PROPERTIES ImplementsLedger KeptWhileServed
