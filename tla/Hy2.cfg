SPECIFICATION Spec
CONSTANTS
    N = 2
    MaxEdits = 1
    c1 = c1
    c2 = c2
    h1 = h1
    h2 = h2
    alice = alice
    Conns <- MCConns
    Handlers <- MCHandlers
    Users <- MCUsers
    Nil = Nil
SYMMETRY Symmetry
INVARIANTS FlagIsOwnAnswer AccessIsListed PanicHasCause
