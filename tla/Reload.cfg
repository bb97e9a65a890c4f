SPECIFICATION Spec
CONSTANTS
    N = 2
    MaxEdits = 2
    Faults <- MCFaults
    None = None
    Absent = Absent
INVARIANTS TypeOK OneCoreOpen TasksOwned LimiterIsOwners CrashHasCause OnlyIgnoredEditsAreLost
PROPERTIES NeverOlder
