SPECIFICATION TaskFairSpec
CONSTANTS
    MaxStarts = 4
    MayFail = TRUE
    SelfRestart = TRUE
INVARIANTS Stoppable RunningIsServed
PROPERTIES OnlyErrorsPanic AllStop
