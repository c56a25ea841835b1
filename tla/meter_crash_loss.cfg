SPECIFICATION FairSpec
CONSTANTS
    None = None
    MaxHour = 0
    HoursPerMonth = 2
    MaxCount = 2
    MaxCarried = 2
    MaxPending = 1
    Faults = {"crash"}
INVARIANT CrashLosesOnlyUnpolled
