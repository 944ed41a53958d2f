----------------------------- MODULE ClaimCalls -----------------------------
(***************************************************************************)
(* Claims as users make them: through the gateway, which forwards a claim  *)
(* to the event service and waits for the answer, at most three seconds.   *)
(*                                                                         *)
(*    "sent" --> "served" --> "answered" --> passed on to the client       *)
(*       \______________________/                                          *)
(*                   "lost": only the timeout ends the wait                *)
(*                                                                         *)
(* At any stage the client's wait may be cut short, by the timeout, a      *)
(* connection that breaks or a stop of the gateway: the client has an      *)
(* error, and the service goes on with the claim.                          *)
(***************************************************************************)
EXTENDS EventPlatform

CONSTANTS
    Careful,  \* the users whose client waits for an answer before it claims again
    Spared    \* the users whose waits are never cut short: they only end with an
              \* answer, or when the call or its answer is lost

ASSUME CallsAssumption == Careful \subseteq User /\ Spared \subseteq User

VARIABLES
    calls,  \* the claims on their way from the gateway to their answer
    told    \* history: the claims, by position, that each user was answered with

callVars == <<calls, told>>

allVars == <<vars, callVars>>

-----------------------------------------------------------------------------
\* A call: whose claim of what it is, whether the client still waits, and the
\* position of the claim that is its answer, or 0 for an error.
CallDoc ==
    [key : ClaimKey, stage : {"sent", "served", "answered", "lost"},
     waiting : BOOLEAN, claim : Nat]

Stage(r, s) == r \in DOMAIN calls /\ calls[r].stage = s

Waiting(r) == r \in DOMAIN calls /\ calls[r].waiting

Waits(u) == \E r \in DOMAIN calls : Waiting(r) /\ calls[r].key.user = u

\* What the network does to a call, or the service's answer to it: it only
\* matters to a client that waits.
Becomes(r, call) ==
    calls' = IF calls[r].waiting THEN [calls EXCEPT ![r] = call] ELSE Drop(calls, {r})

Answer(r, i) == Becomes(r, [calls[r] EXCEPT !.stage = "answered", !.claim = i])

\* The clients of the calls R have an error, and nobody waits for them any more.
CutShort(R) ==
    LET left == Drop(calls, {r \in R : Stage(r, "answered") \/ Stage(r, "lost")}) IN
    /\ calls' = [r \in DOMAIN left |-> [left[r] EXCEPT !.waiting = @ /\ r \notin R]]
    /\ UNCHANGED <<vars, told>>

\* The claims that pass the filters of f, sets of at most one value.  No claim
\* has a reward to filter.
FindClaims(f) ==
    {i \in DOMAIN claims :
        /\ f.user # {} => claims[i].key.user \in f.user
        /\ f.status # {} => claims[i].status \in f.status
        /\ f.reward = {}}

\* The listing that user u gets with these roles: whoever is no more than a
\* USER gets their own claims, whatever user f asks for.
Listing(u, roles, f) ==
    LET staff == roles \cap {"OPERATOR", "AUDITOR", "ADMIN"} # {} IN
    FindClaims([f EXCEPT !.user = IF staff THEN @ ELSE {u}])

NoFilter == [user |-> {}, status |-> {}, reward |-> {}]

\* The gateway leaves the filters of a request behind.
GatewayListing(u, roles) == Listing(u, roles, NoFilter)

(***************************************************************************)
(* Slips: a service that looks for a claim of the event whoever made it, a *)
(* verdict answered before it is stored, a timeout that spares the calls   *)
(* it has lost sight of, one that fires while the service still works.  No *)
(* behaviour uses them; each breaks a property below.                      *)
(***************************************************************************)
AnswerEarlierOfAnyone(r) ==
    /\ Stage(r, "sent")
    /\ \E i \in DOMAIN claims : claims[i].key.event = calls[r].key.event /\ Answer(r, i)
    /\ UNCHANGED <<vars, told>>

ServeUnawaited(r) ==
    /\ Stage(r, "served")
    /\ ClaimProgress(r) \/ ClaimFail(r)
    /\ IF r \notin DOMAIN claiming' THEN calls' = Drop(calls, {r})
       ELSE IF claiming'[r].at = "insert" THEN Answer(r, Len(claims) + 1)
       ELSE UNCHANGED calls
    /\ UNCHANGED <<attendanceVars, catalogVars, told>>

GiveUpServed(r) ==
    /\ Waiting(r)
    /\ calls[r].key.user \notin Spared /\ ~Stage(r, "lost")
    /\ CutShort({r})

GiveUpEarly(r) == Waiting(r) /\ CutShort({r})

-----------------------------------------------------------------------------
CallsInit ==
    /\ Init
    /\ calls = Empty
    /\ told = [u \in User |-> {}]

\* A user claims, and the gateway forwards it.
Forward(r, k) ==
    /\ r \notin DOMAIN calls
    /\ k.user \in Careful => ~Waits(k.user)
    /\ calls' = Put(calls, r, [key |-> k, stage |-> "sent", waiting |-> TRUE, claim |-> 0])
    /\ UNCHANGED <<vars, told>>

\* The service has the call, and claim() finds no earlier claim.
Arrive(r) ==
    /\ Stage(r, "sent")
    /\ ClaimLookup(r, calls[r].key)
    /\ calls' = [calls EXCEPT ![r].stage = "served"]
    /\ UNCHANGED <<attendanceVars, catalogVars, told>>

\* claim() finds earlier claims, and answers with one of them.
AnswerEarlier(r) ==
    /\ Stage(r, "sent")
    /\ \E i \in ClaimsOf(calls[r].key) : Answer(r, i)
    /\ UNCHANGED <<vars, told>>

\* 401, as the token has run out on the way.
Refuse(r) ==
    /\ Stage(r, "sent")
    /\ Answer(r, 0)
    /\ UNCHANGED <<vars, told>>

\* A step of claim().  The last one answers: with the claim it has stored, or
\* with an error.
Serve(r) ==
    /\ Stage(r, "served")
    /\ ClaimProgress(r) \/ ClaimFail(r)
    /\ IF r \in DOMAIN claiming' THEN UNCHANGED calls
       ELSE Answer(r, IF claims' = claims THEN 0 ELSE Len(claims'))
    /\ UNCHANGED <<attendanceVars, catalogVars, told>>

\* The client has its answer.
PassOn(r) ==
    /\ Stage(r, "answered")
    /\ told' = [told EXCEPT ![calls[r].key.user] = @ \cup ({calls[r].claim} \ {0})]
    /\ calls' = Drop(calls, {r})
    /\ UNCHANGED vars

\* The timeout: the client is told 500.
GiveUp(r) ==
    /\ Waiting(r)
    /\ calls[r].key.user \in Spared => Stage(r, "lost")
    /\ CutShort({r})

\* A connection breaks that the call is waiting on, between the client and the
\* gateway or behind it.
Reset(r) ==
    /\ Waiting(r)
    /\ calls[r].key.user \notin Spared
    /\ CutShort({r})

GatewayStops ==
    LET waiting == {r \in DOMAIN calls : Waiting(r)} IN
    /\ waiting # {}
    /\ \A r \in waiting : calls[r].key.user \notin Spared
    /\ CutShort(waiting)

\* A call or its answer disappears, and no connection shows it.
Lose(r) ==
    /\ Stage(r, "sent") \/ Stage(r, "answered")
    /\ Becomes(r, [calls[r] EXCEPT !.stage = "lost"])
    /\ UNCHANGED <<vars, told>>

\* The event service stops.  The gateway sees the connections of the calls
\* close that it was serving.
ServiceStops ==
    /\ Crash
    /\ LET left == Drop(calls, {r \in DOMAIN claiming : ~calls[r].waiting}) IN
           calls' = [r \in DOMAIN left |->
                        IF Stage(r, "served") THEN [left[r] EXCEPT !.stage = "answered"] ELSE left[r]]
    /\ UNCHANGED told

\* The event service has other things to do.
ElseStep == (AttendanceMoves \/ CatalogMoves) /\ UNCHANGED callVars

CallsNext ==
    \/ \E r \in ClaimReq, k \in ClaimKey : Forward(r, k)
    \/ \E r \in ClaimReq :
           \/ Arrive(r) \/ AnswerEarlier(r) \/ Refuse(r) \/ Serve(r)
           \/ PassOn(r) \/ GiveUp(r) \/ Reset(r) \/ Lose(r)
    \/ GatewayStops
    \/ ServiceStops
    \/ ElseStep

CallsSpec == CallsInit /\ [][CallsNext]_allVars

\* A call that nothing happens to gets on: the network delivers it, or its
\* answer, the event loop serves it.  The gateway's timer fires.  Clients,
\* operators and the clock owe nothing.
CallsFairness ==
    \A r \in ClaimReq :
        /\ WF_allVars(Arrive(r) \/ AnswerEarlier(r) \/ Serve(r) \/ PassOn(r))
        /\ WF_allVars(GiveUp(r))

CallsFairSpec == CallsSpec /\ CallsFairness

-----------------------------------------------------------------------------
\* Every variable keeps its type, and claim() is busy with just the calls that
\* are being served, each with the user and event it came with.
CallsTypeOK ==
    /\ DOMAIN calls \subseteq ClaimReq
    /\ \A r \in DOMAIN calls : calls[r] \in CallDoc
    /\ told \in [User -> SUBSET Nat]
    /\ DOMAIN claiming = {r \in DOMAIN calls : Stage(r, "served")}
    /\ \A r \in DOMAIN claiming : KeyOf(r) = calls[r].key

\* Whatever a user was answered with is a claim of that user for good, which
\* the user finds in the listing, and an auditor who asks the service for the
\* claims of that user and status: no crash, lost answer or timeout makes an
\* answer untrue.
AnswersTrue ==
    /\ \A u \in User : \A i \in told[u] :
           /\ i \in GatewayListing(u, {"USER"})
           /\ i \in Listing(u, {"AUDITOR"},
                    [NoFilter EXCEPT !.user = {u}, !.status = {claims[i].status}])
    /\ \A r \in DOMAIN calls :
           calls[r].claim # 0 => calls[r].claim \in ClaimsOf(calls[r].key)

\* What README says of claiming, "after the duplicate and condition checks,
\* PENDING", as careful users have it: one claim of an event, although nothing
\* in the service keeps two requests of a user apart.  They have it as long as
\* no wait of theirs is cut short; losing calls and answers, failing calls and
\* restarts of the service do no harm.
CarefulUnique ==
    \A i, j \in DOMAIN claims :
        claims[i].key = claims[j].key /\ claims[i].key.user \in Careful => i = j

\* The users who are promised one claim of an event: the careful ones whose
\* waits are never cut short.
PromisedOne == Careful \cap Spared

VerdictOf(i) == [key |-> claims[i].key, claim |-> i, status |-> claims[i].status]

\* Claims and answers, as the book and what users know of it.
Book == INSTANCE ClaimBook
    WITH Once <- PromisedOne,
         book <- {VerdictOf(i) : i \in DOMAIN claims},
         told <- [u \in User |-> {VerdictOf(i) : i \in told[u]}]

\* To its users the whole is such a book, through every loss, failure, restart
\* and timeout: verdicts are entered for good, one at a time, no answer tells
\* of one that is not in the book or on somebody else, and a careful user whose
\* waits nothing cuts short never hears of a second one on an event.
BookSpec == Book!Spec

\* No client waits forever, whatever is lost: neither for a call that is gone,
\* nor for one whose checks go on, nor for an answer that is under way, also if
\* nothing but its answer or its loss can end the wait (Spared).
EveryWaitEnds == \A r \in ClaimReq : Waiting(r) ~> ~Waiting(r)
=============================================================================
