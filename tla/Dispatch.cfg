SPECIFICATION Spec
CONSTANTS
    k1 = k1
    k2 = k2
    alice = alice
    bob = bob
    Conns <- TwoConns
    Users <- TwoUsers
    Nil = Nil
SYMMETRY Symmetric
INVARIANTS TypeOK DeletedUsersAreCut OwnEgress
