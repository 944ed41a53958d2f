SPECIFICATION AttendanceSpec
CONSTANTS
    SlotsPerDay = 2
    UtcOffset <- NoOffset
    MidnightOffset <- NoOffset
    User = {u1, u2}
    Date <- MCDate
    AttendReq = {a1, a2}
    MaxNow = 2
    Faults = TRUE
INVARIANTS
    AttendanceTypeOK
    LogDuplicatesRaced
    LogDuplicatesBounded
PROPERTIES
    LogBookSpec
    LogSettledForever
SYMMETRY Symmetries
CHECK_DEADLOCK FALSE
