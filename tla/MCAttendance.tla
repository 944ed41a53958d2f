---------------------------- MODULE MCAttendance ----------------------------
\* A small instance of Attendance: the clock passes midnight once, so that a
\* request without a date and one that names it can meet on either day.
EXTENDS Attendance, TLC

MCDate == {1}

\* Attendance is dated in UTC, whatever the server's clock.
NoOffset(x) == 0

Symmetries == Permutations(AttendReq) \cup Permutations(User)
=============================================================================
