SPECIFICATION FairSpec
CONSTANTS
    None = None
    MaxHour = 2
    HoursPerMonth = 2
    MaxCount = 1
    MaxCarried = 2
    MaxPending = 1
    Faults = {"crash", "clockBack", "write"}
INVARIANTS
    TypeOK
    HourWithinMonth
    NoDoubleCounting
    
PROPERTIES
    CountsNeverShrink
    PeriodFollowsClock
