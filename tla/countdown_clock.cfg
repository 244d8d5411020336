SPECIFICATION FairClockSpec
CONSTANTS
    SecondsPerMinute = 3
    MinutesPerHour = 2
    HoursPerDay = 4
    ChangeAt = 8
INVARIANTS
    ClockTypeOK
    NeverEarly
    TextIsTime
PROPERTIES
    ReadingIsExact
    CountdownFinishes
