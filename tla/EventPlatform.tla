---------------------------- MODULE EventPlatform ----------------------------
(***************************************************************************)
(* The event service: attendance, the event catalog and the claims in one  *)
(* Node.js process over one database.  Claims read what the other two      *)
(* write; a crash hits the handlers of all three.                          *)
(***************************************************************************)
EXTENDS RewardClaims

vars == <<attendanceVars, catalogVars, claimVars>>

Init == AttendanceInit /\ CatalogInit /\ ClaimsInit

AttendanceMoves == AttendanceStep /\ UNCHANGED <<catalogVars, claimVars>>

CatalogMoves == CatalogStep /\ UNCHANGED <<attendanceVars, claimVars>>

ClaimsMove == ClaimStep /\ UNCHANGED <<attendanceVars, catalogVars>>

\* The process stops and starts again: the collections stay, every handler
\* in flight is gone.  An insertion already under way has either happened
\* before or is lost.
Crash ==
    /\ Faults
    /\ attending' = Empty /\ creating' = Empty /\ claiming' = Empty
    /\ UNCHANGED <<now, logs, events, rewards, confirmed, claims>>

Next == AttendanceMoves \/ CatalogMoves \/ ClaimsMove \/ Crash

Spec == Init /\ [][Next]_vars

-----------------------------------------------------------------------------
\* Every variable keeps its type.
TypeOK ==
    /\ AttendanceTypeOK
    /\ CatalogTypeOK
    /\ claims \in Seq(ClaimDoc)
    /\ DOMAIN claiming \subseteq ClaimReq
    /\ \A r \in DOMAIN claiming : claiming[r] \in ClaimTask

-----------------------------------------------------------------------------
\* The claims are a collection of the check-then-insert kind, open between
\* the lookup and the insertion, however long the check takes.
Ledger == INSTANCE CheckThenInsert
    WITH Key <- ClaimKey, Request <- ClaimReq, docs <- claims,
         open <- [r \in DOMAIN claiming |->
                     [key |-> claiming[r].doc.key, seen |-> claiming[r].doc.seen]]

\* Every behaviour of the service is, for its claims, one of such a
\* collection: the check between the two calls adds no way to store a claim.
LedgerSpec == Ledger!Spec

\* A user has two claims of one event only if two requests raced for it: the
\* later claim's request looked before the earlier claim was stored.
ClaimDuplicatesRaced == Ledger!DuplicatesRaced

\* The claims of one user and event, with the requests that can still add
\* one, never outnumber the requests in flight together.
ClaimDuplicatesBounded == Ledger!DuplicatesBounded

\* Once a user's claim of an event is stored and no request for it is in
\* flight, claiming again changes nothing: the verdict, a rejection too, is
\* final, and attending more days does not reopen it.
ClaimSettledForever == Ledger!SettledForever

-----------------------------------------------------------------------------
\* What a claim that is stored, or about to be, says of its condition.
DocSound(doc) ==
    /\ doc.key.event \in DOMAIN events
    /\ ConditionOf(doc.key).type # "SAMPLE"
    /\ doc.status = "PENDING" => Meets(doc.key, doc.asOf)
    /\ ConditionOf(doc.key).type = "ACCOUNT_AGE" /\ doc.status = "REJECTED"
           => ~Meets(doc.key, doc.asOf)

\* A claim that is checking day i of a streak has found the days before.
TaskSound(task) ==
    /\ task.at = "insert" => DocSound(task.doc)
    /\ task.at = "check" =>
           /\ task.doc.key.event \in DOMAIN events
           /\ ConditionOf(task.doc.key).type = "ATTENDANCE_STREAK"
           /\ task.day < ConditionOf(task.doc.key).days
           /\ StreakMet(task.doc.key.user, task.doc.asOf, task.day)

\* A claim is stored only for an event that exists and has a condition the
\* service can check.  It is PENDING only if the condition is met for the
\* instant of the check, although the days of a streak are looked up one by
\* one while attendance goes on and midnight passes.  A claim rejected for
\* the age of its account is of an account too young then.
VerdictSound == \A i \in DOMAIN claims : DocSound(claims[i])

\* VerdictSound, with what it needs of the claims in flight.
VerdictInv ==
    /\ VerdictSound
    /\ \A r \in DOMAIN claiming : TaskSound(claiming[r])

\* A user who met the condition when the check began is rejected only if a
\* database call of that very check failed: not for attendance, midnights,
\* failures of others or restarts that came between its rounds.
EligibleNotRejected ==
    \A i \in DOMAIN claims :
        claims[i].met /\ claims[i].status = "REJECTED" => claims[i].failed

\* What attendance-streak.strategy.ts says of a streak of n days: each of
\* today and the n - 1 days before it has a log.
StreakWindow ==
    \A i \in DOMAIN claims :
        LET c == claims[i] IN
        c.status = "PENDING" /\ ConditionOf(c.key).type = "ATTENDANCE_STREAK" =>
            \A d \in LastDates(c.asOf, ConditionOf(c.key).days) : Attended(c.key.user, d)

\* What a streak of n days is worth in any time zone, whenever its clock goes
\* forward or back: each of the n days that end with the server's own date at
\* the check has a log, or the day before it has.  A change of the clock may
\* make one log count for two of the days.
StreakDays ==
    \A i \in DOMAIN claims :
        LET c == claims[i]
            today == LocalDate(c.asOf)
        IN
        c.status = "PENDING" /\ ConditionOf(c.key).type = "ATTENDANCE_STREAK" =>
            \A d \in today - ConditionOf(c.key).days + 1 .. today :
                Attended(c.key.user, d) \/ Attended(c.key.user, d - 1)

\* Where all midnights are ahead of UTC, or none is, a streak of n days is n
\* days one after the other, each with a log, of which the last is the server's
\* date at the check or the one before it.
StreakRun ==
    \A i \in DOMAIN claims :
        LET c == claims[i]
            n == ConditionOf(c.key).days
            today == LocalDate(c.asOf)
        IN
        c.status = "PENDING" /\ ConditionOf(c.key).type = "ATTENDANCE_STREAK" =>
            \E last \in {today - 1, today} :
                \A d \in last - n + 1 .. last : Attended(c.key.user, d)

\* A claim in flight for an event the service can check leaves a claim of its
\* user and event in the end, its own or that of a request it raced with.
ClaimStored ==
    \A r \in ClaimReq, k \in ClaimKey :
        /\ r \in DOMAIN claiming /\ KeyOf(r) = k
        /\ k.event \in DOMAIN events /\ ConditionOf(k).type # "SAMPLE"
        ~> ClaimsOf(k) # {}
=============================================================================
