---------------------------- MODULE RewardClaims ----------------------------
(***************************************************************************)
(* The claim of an event's rewards.  A claim looks for an earlier one of   *)
(* the same user and event, reads the event, checks its condition and      *)
(* stores the verdict.  Every arrow below is an await, at which any other  *)
(* handler of the service may run:                                         *)
(*                                                                         *)
(*    lookup --> "event" --> ("check" --> ...)  --> "insert" --> answer    *)
(***************************************************************************)
EXTENDS Attendance, EventCatalog

CONSTANTS
    CreatedAt,  \* when each user's account was created, as its JWT says
    ClaimReq    \* bounds how many claims are in flight together

ConditionType == {"SAMPLE", "ACCOUNT_AGE", "ATTENDANCE_STREAK"}

\* The `days` of a conditionMeta of null, in which both checkers fail to look
\* it up.
NullMeta == -1

\* A condition is a type and the `days` of its conditionMeta; 0 also stands
\* for an absent one, as no number is less than undefined.
ASSUME ClaimsAssumption ==
    /\ Condition \subseteq [type : ConditionType, days : Nat \cup {NullMeta}]
    /\ CreatedAt \in [User -> Int]
    /\ IsFiniteSet(ClaimReq)

VARIABLES
    claims,   \* the collection of claims, in insertion order
    claiming  \* what each suspended claim() holds

claimVars == <<claims, claiming>>

-----------------------------------------------------------------------------
ClaimKey == [user : User, event : Event]

\* No code ever stores the schema's third status, APPROVED.
ClaimStatus == {"PENDING", "REJECTED"}

\* A claim.  History: `seen`, the number of claims there were at its lookup,
\* `asOf`, the instant its condition was judged for, `met`, whether the
\* condition was met when the check began, and `failed`, whether a database
\* call of the check failed.
ClaimDoc ==
    [key : ClaimKey, seen : Nat, status : ClaimStatus, asOf : Int,
     met : BOOLEAN, failed : BOOLEAN]

\* What claim() holds: the claim to be, its next step, and the round of the
\* streak condition's loop.
ClaimTask == [doc : ClaimDoc, at : {"event", "check", "insert"}, day : Nat]

ClaimsOf(k) == {i \in DOMAIN claims : claims[i].key = k}

Serving(r, at) == r \in DOMAIN claiming /\ claiming[r].at = at

KeyOf(r) == claiming[r].doc.key

ConditionOf(k) == events[k.event].condition

StreakMet(u, today, n) == \A i \in 0 .. n - 1 : Attended(u, StreakDate(today, i))

\* The condition of the event of k, as it stands now, for the instant t.
Meets(k, t) ==
    /\ ConditionOf(k).days # NullMeta
    /\ \/ /\ ConditionOf(k).type = "ACCOUNT_AGE"
          /\ OldEnough(t, CreatedAt[k.user], ConditionOf(k).days)
       \/ /\ ConditionOf(k).type = "ATTENDANCE_STREAK"
          /\ StreakMet(k.user, t, ConditionOf(k).days)

\* A claim whose lookup found no earlier one.
NewTask(k) ==
    [doc |-> [key |-> k, seen |-> Len(claims), status |-> "PENDING", asOf |-> now,
              met |-> FALSE, failed |-> FALSE],
     at |-> "event", day |-> 0]

\* Its check begins.
Begun(task) == [task EXCEPT !.doc.asOf = now, !.doc.met = Meets(task.doc.key, now)]

\* The check has come to its end: the claim is to be stored with a verdict.
Decided(task, status) == [task EXCEPT !.at = "insert", !.doc.status = status]

\* A database call of the check has failed, which counts as a condition not met.
CheckFailed(task) == [task EXCEPT !.at = "insert", !.doc.status = "REJECTED", !.doc.failed = TRUE]

(***************************************************************************)
(* Slips this handler could have: a loop one round short, only PENDING     *)
(* claims taken for earlier ones, a check not awaited, today read anew in  *)
(* each round, an unmet condition answered without a claim, the handler's  *)
(* own state stored, a claim inserted again.  No behaviour uses them; each *)
(* breaks a property of EventPlatform.                                     *)
(***************************************************************************)
NextRoundShort(task, i, n) ==
    IF i + 1 < n THEN [task EXCEPT !.at = "check", !.day = i] ELSE Decided(task, "PENDING")

ClaimLookupPending(r, k) ==
    /\ r \notin DOMAIN claiming
    /\ \A i \in ClaimsOf(k) : claims[i].status # "PENDING"
    /\ claiming' = Put(claiming, r, NewTask(k))
    /\ UNCHANGED claims

ClaimCheckAgeUnawaited(r) ==
    LET k == KeyOf(r) IN
    /\ Serving(r, "event")
    /\ k.event \in DOMAIN events
    /\ ConditionOf(k).type = "ACCOUNT_AGE"
    /\ claiming' = [claiming EXCEPT ![r] = Decided(Begun(@), "PENDING")]
    /\ UNCHANGED claims

\* The loop goes on with round i, or ends when n rounds are done.
NextRound(task, i, n) ==
    IF i < n THEN [task EXCEPT !.at = "check", !.day = i] ELSE Decided(task, "PENDING")

-----------------------------------------------------------------------------
ClaimsInit ==
    /\ claims = <<>>
    /\ claiming = Empty

\* `await claimModel.findOne()`: an earlier claim, whatever its status, is
\* the answer and nothing changes.
ClaimLookup(r, k) ==
    /\ r \notin DOMAIN claiming
    /\ ClaimsOf(k) = {}
    /\ claiming' = Put(claiming, r, NewTask(k))
    /\ UNCHANGED claims

\* 404 when there is no such event.  SampleCondition is in the factory's map
\* but is no provider of the module, so asking for it throws.
ClaimNotServed(r) ==
    /\ Serving(r, "event")
    /\ KeyOf(r).event \in DOMAIN events => ConditionOf(KeyOf(r)).type = "SAMPLE"
    /\ claiming' = Drop(claiming, {r})
    /\ UNCHANGED claims

\* The event is read and its checker runs up to its first await, or to its
\* end: the account's age needs none.
ClaimCheckAge(r) ==
    LET k == KeyOf(r) IN
    /\ Serving(r, "event")
    /\ k.event \in DOMAIN events
    /\ ConditionOf(k).type = "ACCOUNT_AGE"
    /\ claiming' = [claiming EXCEPT ![r] =
           Decided(Begun(@), IF /\ ConditionOf(k).days # NullMeta
                                /\ OldEnough(now, CreatedAt[k.user], ConditionOf(k).days)
                             THEN "PENDING" ELSE "REJECTED")]
    /\ UNCHANGED claims

ClaimStartStreak(r) ==
    LET k == KeyOf(r) IN
    /\ Serving(r, "event")
    /\ k.event \in DOMAIN events
    /\ ConditionOf(k).type = "ATTENDANCE_STREAK"
    /\ claiming' = [claiming EXCEPT ![r] =
           IF ConditionOf(k).days = NullMeta
           THEN Decided(Begun(@), "REJECTED")
           ELSE NextRound(Begun(@), 0, ConditionOf(k).days)]
    /\ UNCHANGED claims

ClaimCheckDayToday(r) ==
    LET k == KeyOf(r)
        i == claiming[r].day
    IN
    /\ Serving(r, "check")
    /\ claiming' = [claiming EXCEPT ![r] =
           IF Attended(k.user, StreakDate(now, i))
           THEN NextRound(@, i + 1, ConditionOf(k).days)
           ELSE Decided(@, "REJECTED")]
    /\ UNCHANGED claims

ClaimCheckDayThrown(r) ==
    LET k == KeyOf(r)
        i == claiming[r].day
    IN
    /\ Serving(r, "check")
    /\ claiming' = IF Attended(k.user, StreakDate(claiming[r].doc.asOf, i))
                   THEN [claiming EXCEPT ![r] = NextRound(@, i + 1, ConditionOf(k).days)]
                   ELSE Drop(claiming, {r})
    /\ UNCHANGED claims

ClaimInsertTask(r) ==
    /\ Serving(r, "insert")
    /\ claims' = Append(claims, claiming[r])
    /\ claiming' = Drop(claiming, {r})

ClaimInsertAgain(r) ==
    /\ Serving(r, "insert")
    /\ claims' = Append(claims, claiming[r].doc)
    /\ UNCHANGED claiming

\* `await logs.exists()` for one date of the streak.
ClaimCheckDay(r) ==
    LET k == KeyOf(r)
        i == claiming[r].day
    IN
    /\ Serving(r, "check")
    /\ claiming' = [claiming EXCEPT ![r] =
           IF Attended(k.user, StreakDate(claiming[r].doc.asOf, i))
           THEN NextRound(@, i + 1, ConditionOf(k).days)
           ELSE Decided(@, "REJECTED")]
    /\ UNCHANGED claims

\* `claimModel.create()`
ClaimInsert(r) ==
    /\ Serving(r, "insert")
    /\ claims' = Append(claims, claiming[r].doc)
    /\ claiming' = Drop(claiming, {r})

\* A database call fails.  In the check, the error counts as a condition not
\* met; elsewhere it ends the request.
ClaimFail(r) ==
    /\ Faults
    /\ r \in DOMAIN claiming
    /\ claiming' = IF claiming[r].at = "check"
                   THEN [claiming EXCEPT ![r] = CheckFailed(@)]
                   ELSE Drop(claiming, {r})
    /\ UNCHANGED claims

\* What the event loop does for a request once it is there.
ClaimProgress(r) ==
    \/ ClaimNotServed(r)
    \/ ClaimCheckAge(r)
    \/ ClaimStartStreak(r)
    \/ ClaimCheckDay(r)
    \/ ClaimInsert(r)

ClaimStep ==
    \/ \E r \in ClaimReq, k \in ClaimKey : ClaimLookup(r, k)
    \/ \E r \in ClaimReq : ClaimProgress(r) \/ ClaimFail(r)
=============================================================================
