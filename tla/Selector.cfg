SPECIFICATION Spec
CONSTANTS
    Scenarios <- MCScenarios
    Edits <- MCEdits
    MaxReloads = 2
    Speeds = {100, 200}
    Nil = Nil
INVARIANTS RoutedToHolder StaysWithItsType OnlyBadInputEnds SameWhicheverCore
