----------------------------- MODULE Attendance -----------------------------
(***************************************************************************)
(* The attendance endpoint of the event service: at most one log per user  *)
(* and date is wanted, and it is looked for and inserted by two awaited    *)
(* calls.  The clock lives here because it gives the default date.         *)
(***************************************************************************)
EXTENDS Calendar, InFlight, Sequences, FiniteSets

CONSTANTS
    User,
    Date,       \* the dates clients put into the body of a request
    AttendReq,  \* bounds how many attendance requests are in flight together
    MaxNow      \* bounds the clock

ASSUME AttendanceAssumption ==
    /\ Date \subseteq Int
    /\ MaxNow \in Nat
    /\ IsFiniteSet(AttendReq)

VARIABLES
    now,       \* the instant shown by the clock
    logs,      \* the collection of attendance logs, in insertion order
    attending  \* what each suspended attend() holds

attendanceVars == <<now, logs, attending>>

-----------------------------------------------------------------------------
\* Every date an attendance request can carry.
Dates == Date \cup {UtcDate(t) : t \in 0 .. MaxNow}

LogKey == [user : User, date : Dates]

\* A log, and what attend() holds: `seen` is history, the number of logs
\* there were when the request looked for one.
AttendanceLog == [key : LogKey, seen : Nat]

Attended(u, d) == \E i \in DOMAIN logs : logs[i].key = [user |-> u, date |-> d]

NewLog(u, d) == [key |-> [user |-> u, date |-> d], seen |-> Len(logs)]

-----------------------------------------------------------------------------
(***************************************************************************)
(* Slips this endpoint could have: the lookup forgotten, the date of the   *)
(* day after, a request that inserts again.  No behaviour uses them; each  *)
(* breaks a property below.                                                *)
(***************************************************************************)
AttendLookupForgotten(r, u, d) ==
    /\ r \notin DOMAIN attending
    /\ d \in Date \cup {UtcDate(now)}
    /\ attending' = Put(attending, r, NewLog(u, d))
    /\ UNCHANGED <<now, logs>>

AttendLookupDayAfter(r, u, d) ==
    /\ r \notin DOMAIN attending
    /\ d \in Date \cup {UtcDate(now)}
    /\ ~Attended(u, d + 1)
    /\ attending' = Put(attending, r, NewLog(u, d + 1))
    /\ UNCHANGED <<now, logs>>

AttendInsertAgain(r) ==
    /\ r \in DOMAIN attending
    /\ logs' = Append(logs, attending[r])
    /\ UNCHANGED <<now, attending>>

-----------------------------------------------------------------------------
AttendanceInit ==
    /\ now = 0
    /\ logs = <<>>
    /\ attending = Empty

Tick ==
    /\ now < MaxNow
    /\ now' = now + 1
    /\ UNCHANGED <<logs, attending>>

\* `await exists()`: nothing is left to do when there is a log already.
\* The date is the body's, or today's in UTC.
AttendLookup(r, u, d) ==
    /\ r \notin DOMAIN attending
    /\ d \in Date \cup {UtcDate(now)}
    /\ ~Attended(u, d)
    /\ attending' = Put(attending, r, NewLog(u, d))
    /\ UNCHANGED <<now, logs>>

\* `await create()`
AttendInsert(r) ==
    /\ r \in DOMAIN attending
    /\ logs' = Append(logs, attending[r])
    /\ attending' = Drop(attending, {r})
    /\ UNCHANGED now

\* The database refuses the insertion: the request ends with an error.
AttendFail(r) ==
    /\ Faults
    /\ r \in DOMAIN attending
    /\ attending' = Drop(attending, {r})
    /\ UNCHANGED <<now, logs>>

AttendanceStep ==
    \/ Tick
    \/ \E r \in AttendReq, u \in User, d \in Dates : AttendLookup(r, u, d)
    \/ \E r \in AttendReq : AttendInsert(r) \/ AttendFail(r)

\* The process restarts and forgets its handlers; the collections stay.
AttendanceCrash ==
    /\ Faults
    /\ attending # Empty
    /\ attending' = Empty
    /\ UNCHANGED <<now, logs>>

AttendanceNext == AttendanceStep \/ AttendanceCrash

AttendanceSpec == AttendanceInit /\ [][AttendanceNext]_attendanceVars

-----------------------------------------------------------------------------
\* Every variable keeps its type.
AttendanceTypeOK ==
    /\ now \in 0 .. MaxNow
    /\ logs \in Seq(AttendanceLog)
    /\ DOMAIN attending \subseteq AttendReq
    /\ \A r \in DOMAIN attending : attending[r] \in AttendanceLog

\* The logs are a collection of the check-then-insert kind.
LogBook == INSTANCE CheckThenInsert
    WITH Key <- LogKey, Request <- AttendReq, docs <- logs, open <- attending

\* Every behaviour of the endpoint is one of such a collection.
LogBookSpec == LogBook!Spec

\* A user has two logs of one date only if two requests raced for it: the
\* later log's request looked before the earlier log came.
LogDuplicatesRaced == LogBook!DuplicatesRaced

\* The logs of one user and date, with the requests that can still add to
\* them, never outnumber the requests in flight together: the endpoint
\* does not pile up duplicates over time.
LogDuplicatesBounded == LogBook!DuplicatesBounded

\* Attending again, once the log is there and no request of that user and
\* date is between its two calls, never changes anything again.
LogSettledForever == LogBook!SettledForever
=============================================================================
