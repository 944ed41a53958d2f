--------------------------- MODULE MCEventPlatform ---------------------------
\* Small instances of EventPlatform, with days of one or two slots.
EXTENDS EventPlatform, TLC

CONSTANTS u1, u2

\* Dates in request bodies: none, or the first day, which can be attended late,
\* and the one before.
NoDate == {}
FirstDays == {-1, 0}

\* Time zones: UTC, one a slot ahead of it, and one whose clock goes forward by
\* a slot at instant 1.
NoOffset(x) == 0
SlotAhead(x) == 1
Forward1(t) == IF t < 1 THEN 0 ELSE 1
Forward1Midnight(d) == IF d * SlotsPerDay < 1 THEN 0 ELSE 1

ASSUME ZoneAssumption == Zone(-4 .. 4)

Streak(n) == [type |-> "ATTENDANCE_STREAK", days |-> n]
Age(n) == [type |-> "ACCOUNT_AGE", days |-> n]
Sample == [type |-> "SAMPLE", days |-> 0]

StreakOnly == {Streak(2)}
StreakOrAge == {Streak(2), Age(1)}
EveryType == {Streak(1), Age(0), Age(1), Age(NullMeta), Sample}
StreakOrSample == {Streak(NullMeta), Streak(0), Streak(2), Sample}

\* u1 signed up at the start of day 0, u2 a day earlier.
MCCreatedAt == [u \in User |-> IF u = u1 THEN 0 ELSE -SlotsPerDay]

Symmetries == Permutations(ClaimReq) \cup Permutations(AttendReq)
=============================================================================
