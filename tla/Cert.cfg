SPECIFICATION Spec
CONSTANTS
    N = 2
    Life = 2
    Margin = 1
    MaxDay = 3
    MaxCrashes = 1
    MaxReloads = 1
    MaxIssued = 4
    Nil = Nil
    Torn = Torn
INVARIANTS PairMatches LoadsItsPair AccountLoads ExpiryIsRefused
