------------------------------ MODULE Calendar ------------------------------
(***************************************************************************)
(* Instants, dates and the two date-dependent reward conditions.  An       *)
(* instant is a number of slots since the UTC midnight of day 0, a date is *)
(* the number of a day.  No file of the repository pins TZ, so the server  *)
(* runs in some time zone, whose clock may go forward or back.             *)
(***************************************************************************)
EXTENDS Integers

CONSTANTS
    SlotsPerDay,
    UtcOffset(_),      \* how many slots the clock is ahead of UTC at an instant
    MidnightOffset(_)  \* and at the midnight that begins a date

ASSUME CalendarAssumption == SlotsPerDay \in Nat \ {0}

\* toISOString().slice(0, 10)
UtcDate(t) == t \div SlotsPerDay

\* The date on the server's own clock: getFullYear(), getMonth(), getDate().
LocalDate(t) == (t + UtcOffset(t)) \div SlotsPerDay

\* new Date(y, m, d): the instant of the server's midnight.
LocalMidnight(d) == d * SlotsPerDay - MidnightOffset(d)

\* The date the streak condition asks for in round i of its loop.
StreakDate(today, i) == UtcDate(LocalMidnight(LocalDate(today) - i))

\* The dates the attendance endpoint recorded by default on the last n days.
LastDates(today, n) == (UtcDate(today) - n + 1) .. UtcDate(today)

\* The account is at least `days` times 24 hours old.  A days of 0 also
\* stands for an absent one: no number is less than undefined.
OldEnough(t, createdAt, days) == t - createdAt >= days * SlotsPerDay

-----------------------------------------------------------------------------
\* What is so in every time zone, at the instants and dates of T: its clock is
\* less than a day from UTC, and a date begins before or at its instants.
Zone(T) ==
    \A t \in T :
        /\ UtcOffset(t) \in Int /\ MidnightOffset(t) \in Int
        /\ -SlotsPerDay < UtcOffset(t) /\ UtcOffset(t) < SlotsPerDay
        /\ -SlotsPerDay < MidnightOffset(t) /\ MidnightOffset(t) < SlotsPerDay
        /\ LocalMidnight(LocalDate(t)) <= t
=============================================================================
