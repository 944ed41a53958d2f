# A TLA+ development of the event platform

The event platform is three NestJS services over one MongoDB: `gateway` is what clients talk
to, `auth` keeps accounts, roles and refresh sessions, and `event-platform` keeps attendance
logs, events, rewards and claims. The gateway forwards each request over HTTP, with a timeout
of three seconds, and the services never call each other: they share only the JWT secret and
the payload of an access token.

This directory holds TLA+ modules of the parts that keep state, the TLC configurations that
check them on small instances, and proofs that TLAPS checks for every instance.

## 1. Inventory

| Component | State it keeps | Operations | What is hard |
|---|---|---|---|
| attendance (`attendance/`) | collection of logs [userId, date], no unique index | POST /attendance | lookup and insertion are two calls |
| event catalog (`event/`, `reward/` create) | events with condition and list of reward ids; rewards with their event | POST /event/create, POST /reward, reads | a reward is three calls on two collections, no transaction |
| claims and conditions (`reward/` claim, `common/condition/`) | collection of claims [userId, eventId, status], no unique index | POST /reward/claim, GET /reward/claim | lookup, event, a loop of lookups in another collection, insertion; midnight, time zone, errors taken for unmet conditions |
| refresh sessions and accounts (`auth/`: facade, session, token and user services) | accounts with a unique email; refresh sessions with an expiry and a TTL index | signup, login, refresh, logout | single use of a refresh token under concurrent refreshes; sign-up races; answers lost after the state changed |
| roles (`auth/`: facade addRole, removeRole) | the array of roles of an account and its Mongoose version | POST /auth/role, POST /auth/remove-role | read, change, save: `$push` and `$set` have different version checks |
| gateway (`gateway/src/auth`, `gateway/src/event`, guards in `libs/common`) | nothing, but access tokens carry roles for 15 minutes | forwards 12 routes | timeouts with the work going on behind, retries by clients, roles gone stale, cookies on their way back |
| libs/common | nothing | DTOs, guards, validators | none of its own |

How they interact. A client reaches every service through the gateway, which checks the JWT
and the roles it names. docker-compose.yml publishes the ports of the other two services as
well, for tests, and README.md:66-68 asks production not to; they check the JWT and no roles. `attend()` and `claim()` trust the `sub` and `createdAt` of the token.
`claim()` reads what `attend()` and the catalog write. Within a service every handler runs in
one Node.js process and gives way at each `await`, so any two handlers interleave at their
database calls; a call may fail, and the process may stop between two calls, leaving what it
did so far.

What makes each correct: attendance and claims have one document per key, up to the races that
nothing prevents, and never change one; a verdict agrees with the condition at the instant of
its check; the list of an event names its rewards; a refresh token is good once; concurrent
changes of roles lose none; a request passes a guard only with a role its user had a quarter
of an hour ago at most; and whatever the gateway loses sight of, an answer is true and a wait
ends.

## 2. Modules

| Module | Models |
|---|---|
| `PartialFunctions`, `InFlight` | collections by id, and what suspended handlers hold; whether calls may fail (`Faults`) |
| `Calendar` | instants, UTC dates, the server's own dates and midnights in a zone whose clock may change, the two conditions that depend on them |
| `CheckThenInsert` | abstract: a collection whose writers look first and insert later, in two calls |
| `Attendance` | POST /attendance, and the clock |
| `EventCatalog` | POST /event/create and POST /reward |
| `RewardClaims` | POST /reward/claim, one action per await |
| `EventPlatform` | the three together: one process, one database, one crash for all; the properties of claims |
| `ClaimCalls` | POST /reward/claim as a client makes it, through the gateway, its timeout, its stops and the network, in front of `EventPlatform`; GET /reward/claim |
| `ClaimBook` | abstract: what users may think of all that, a book of verdicts that answers quote |
| `UserRoles` | POST /auth/role and POST /auth/remove-role |
| `RoleSet` | abstract: roles as a set, changed one at a time |
| `Sessions` | sign-up, login, refresh and logout, with the TTL monitor and the cookies that the gateway keeps back |
| `LoginSessions` | abstract: logins that are open until they are over |
| `Gateway` | access tokens, the guards, forwarding and its timeout, and calls made past it, in front of `UserRoles` |
| `MC*` | instances for TLC |
| `*Proofs` | the theorems |

An action is what a handler does from one await to the next. What the handler holds at an
await is an entry of a partial function from the request (`attending`, `creating`, `claiming`,
`changing`, `serving`), which the request leaves when it is answered or fails. Requests that
change nothing, such as a second attendance of the same date, a 404 or a list, are not steps.
A collection without deletions is a sequence in insertion order, one whose documents are
looked up by id is a partial function.

Correspondence, beyond the line numbers in `PROJECT.json`:

* `logs`, `claims`, `events`, `rewards` are the collections. A field nothing reads (a title,
  an amount, `active`, `startAt`, `endAt`) is left out.
* `seen`, `asOf`, `met`, `failed`, `given` and `confirmed` are history: they record what a
  request saw, the instant it judged for, whether the condition was met when its check began,
  whether a call of the check failed, the list an event came with, and which creations went
  through. No guard reads them, except that the loop of a streak takes its
  `today` from `asOf`, which is that variable of the code.
* `claim()` reads the event twice, to no effect on the first occasion but the 404. Both reads
  are one step, as an event never disappears or changes its condition (`CatalogGrows`).
* `SampleCondition` is in the factory's map and in no `providers` list, so asking for it
  throws outside the `try` of `claim()`: the request ends without a claim.
* An error thrown in the check, whatever it is, is taken for an unmet condition. `ClaimFail`
  does the same for a call that fails there, and ends the request elsewhere.
* `conditionMeta` may lack `days`. A comparison with `undefined` is false, so an absent one
  passes both conditions, as a zero does; `days = 0` stands for both. A `conditionMeta` of
  null makes the lookup of `days` throw within the check, so everybody is rejected: `NullMeta`.
* POST /event/create stores its body as it comes, but for the two dates, and no pipe of the
  gateway or of the event service drops a field: an operator may write a list of rewards into
  it (`Listed`), which no creation vouches for. An id in that list is never drawn for a new
  reward (`Taken`).
* The server's clock is ahead of UTC by `UtcOffset` at an instant and by `MidnightOffset` at
  the midnight of a date, which differ where the clock changes: `new Date(y, m, d - i)` is
  the midnight of that day, with the offset of that day.
* `event.rewards.push(id)` followed by `save()` is a `$push` of Mongoose: it adds to the list
  that is there, not to the one that was read.
* `removeRole()` assigns a filtered array, which Mongoose saves as a `$set` with the version
  read in the filter of the update, and throws a `VersionError` when there is another by now;
  a push is saved whatever the version. Both advance it, and an array that did not change is
  not saved. `RoleChangeFail` and `RemoveRoleConflict` end the request.
* Refresh tokens are random UUIDs, so a new one is one not drawn before, and the hash that is
  stored instead of the token is left out. A client may present any token it was ever given,
  as a repeated or delayed request does, with its latest access token.
* `signUp()` returns `issue()` without awaiting it, so its `catch` sees the errors of
  `create()` only. A 409 and a 500 are the same end of a request here (`SignUpConflict`,
  `RequestFail`), as nothing is kept of either.
* The answer of `refresh()` bypasses the interceptor, so `Delivered` gives the client the
  access token alone.
* `Gateway` EXTENDS `UserRoles`: `TakeUp` and `Work` are the steps of the role endpoints, done
  for a call. The work of other services is a step without effect. A call of theirs is there
  for its authority only.
* `RolesGuard` looks at the roles in the token and at nothing else, and runs in the gateway
  alone: the services ask for a token that has not run out, whatever its roles (`TakeUp`).
  `CallDirectly` is a call made to a service at its own port, where it is `Published`; the
  gateway never waits for such a call.
* The four controllers of the gateway each have a copy of `forward()`, with the same text but
  for a comment. The map spreads them over the actions that model it.
* `lastHeld` is history, as the others. A token that has run out is forgotten.
* `ClaimCalls` EXTENDS `EventPlatform`: `Arrive` and `Serve` are the steps of `claim()`, done
  for a call. A call is sent, served, answered and passed on to the client, or lost on one of
  its two ways. A loss shows on no connection, so the timer of axios ends the wait (`GiveUp`),
  while a service that stops closes its connections and ends the waits at once
  (`ServiceStops`). Three things may cut a wait short at any stage, with the claim going on:
  the timeout, which is not a clock here, a connection that breaks (`Reset`), and a stop of
  the gateway (`GatewayStops`).
* `Careful` and `Spared` users are assumptions about clients and networks, not code: careful
  ones have one call open at a time, and the waits of those who are spared are never cut
  short. All that is promised to a careful user depends on being spared.
* `told` is history: the claims that each user's client was answered with.
* `FindClaims` and `Listing` are `findClaims()` and `listClaims()`; a filter is a set of at
  most one value. `GatewayListing` has no filter, as `getForward()` passes on neither query
  nor body.
* `Proxied` clients come through the gateway. The services behind it see no difference but
  one: `CookieSet` does nothing for them.

The modules of code also hold *slips*: variants of an action as a plausible bug would write
it. No behaviour uses them. Each is there to break a property, and so to show that the
property says something about the code.

## 3. Runs

| Run | Bounds | Shows |
|---|---|---|
| `attendance` | 2 users, 2 requests in flight, 2 slots a day, 3 instants over one midnight, faults | duplicate logs come from races only, stay within the requests in flight, and a settled key never changes; refinement of `CheckThenInsert` |
| `catalog` | 2 events, created with no list or with one of a reward, 3 rewards, 2 creations in flight, faults | lists are sound but for what they came with, confirmed rewards are listed, nothing is taken back |
| `platform_streak` | 1 user, 2 claims and 1 attendance in flight, a streak of 2 days or an account age, 4 instants, late attendance, a reward, faults | verdicts are sound (with their inductive invariant) and streaks whole on a UTC server; who was eligible at the start is rejected only by a failing call; refinement of `CheckThenInsert` |
| `calls` | 2 users, one of them careful and spared, 2 calls in flight, all three condition types and a `conditionMeta` of null, losses, broken connections, gateway stops, 2 instants, faults | settled claims are final; answers are true; refinement of `ClaimBook`, in which the careful user who is spared has one verdict on an event |
| `calls_fair` | 2 users, one of them spared, 1 call in flight, streaks of 0 to 2 days, one with a `conditionMeta` of null, and a SAMPLE event, a server whose clock goes forward over UTC, 2 instants with that change between them, attendance of two dates, losses and waits cut short, no faults | each day of a PENDING streak has a log on it or on the day before, though the loop asks for a date twice here; every claim that can be judged is stored in the end; every wait ends |
| `gateway` | 1 account, 2 roles, 2 calls, 2 tokens good for 2 of 3 instants, 2 changes saved, claims besides, also past the gateway, faults; the port of the auth service is not published | a revoked role passes the guards no longer than a token lives; behind the gateway: refinement of `RoleSet`, the version check misses no save, repetitions are bounded; every change is one that a call asks for, of somebody whose token was begun as an administrator |
| `sessions` | 2 users, 1 client, 2 requests in flight, 4 tokens, 3 instants, faults | a login has one way on, keeps its user and ends with its logout; nothing but its own failure takes a refresh away; refinement of `LoginSessions` |
| `calls_unique`, `platform_east_of_utc`, `catalog_unlisted`, `sessions_cookie`, `sessions_proxied` | smaller instances | the disagreements of section 6 |

Why the bounds are enough. Duplicates need two requests of one key: two in flight at a time
give every order of two lookups and two insertions, and a request that ends frees its place,
so the number of requests over time is not bounded. A streak needs one round that succeeds
before one that may fail, hence two days, with attendance coming between the rounds; two slots
a day separate an instant from its midnight, which is what time zones shift. Two events and
three rewards let two creations meet on one event and on two, with one reward more to follow.
Changes of different accounts have nothing in common, so one account that changes its own
roles is enough, and two calls let one change come between the two steps of another, while two
tokens let an old one and a new one of the account meet. A token signed an instant after its
account was read outlives a revocation by more than its life, which three instants show. One
account is enough for `AdminByAdmin` too: it starts with the role or without, and gets rid of
it within two changes, while two calls and two tokens outlive it. A client that claims again
while its first claim is being served needs two calls; in `calls` nobody attends, as midnight
and streaks are the matter of `platform_streak`, and what is left of a check are its awaits.
In `calls_fair` the clock goes forward at the second instant, so that the midnight of one day
is ahead of UTC and that of the day before is not, and a streak of two days can be met by the
dates there are (`FirstDays`). The port of the event service is published in `gateway`, so
that calls past the gateway happen, and that of the auth service is not, as the properties
about administrators assume; `CallsAuthorised` is then about the role endpoints. Two requests
with one token are all that single use is about; four tokens allow two logins with two
refreshes; two users of one client mix an access token of one with a refresh token of the
other. No property of the `sessions` run is about cookies, so `Proxied` is empty there, while
the proofs leave it open. The clock is bounded by `MaxNow`, attendance and claims by the
dates and keys there are, so the state spaces are finite without a state constraint. The
proofs do not depend on any of these numbers.

Symmetry is used in safety runs only, over requests, users, events and rewards that no
constant tells apart. `CHECK_DEADLOCK FALSE` stands in every run because the service really
may stop: when the clock has reached its bound and every key is stored, all that is left is
requests that change nothing.

Fairness. `CallsFairSpec` assumes that a call to which nothing else happens gets on: it
arrives, `claim()` takes its next step, the answer is passed on, and apart from that the
gateway's timer fires. The network and the timer of axios give the first and the last; the
steps of `claim()` are what the Node.js event loop gives to a handler whose awaited call was
answered, and the driver answers every call, with an error if need be. Loss is not fair, and
nothing assumes that a call is ever sent again, or that a connection breaks or the gateway
stops. The timer is owed to a spared user only for a call that is lost, so `EveryWaitEnds`
rests on the steps of `claim()` as long as it is not. The run has no faults, so that a handler
always has a step; what a failing call does to a wait is in `calls`, where it answers. Clients, operators and the clock owe nothing: whether anybody attends, claims or
creates is never assumed.

## 4. Proofs

TLAPS checks every theorem in the `*Proofs` modules, for all constants that satisfy the named
assumptions (`CalendarAssumption`, `FaultsAssumption`, `AttendanceAssumption`,
`CatalogAssumption`, `ClaimsAssumption`, `CallsAssumption`, `RolesAssumption`,
`SessionsAssumption`, `GatewayAssumption`): any users, events and conditions, any finite
number of requests in flight, any length of a day, any offsets of the server's clock.

* `CheckThenInsertProofs`. `RaceInv` is inductive: every pending writer looked before all
  documents of its key came (`OpenRaced`), hence so did every document with respect to earlier
  ones of its key (`DuplicatesRaced`). `Settled` follows for each step, because a key with a
  document admits no new writer. `Bounded` needs cardinalities: a writer turns into a
  document, so the sum of the two grows only while there is no document.
* `AttendanceProofs` and `EventPlatformProofs` prove by refinement that logs and claims are
  such collections (`LogBookImplemented`, `LedgerImplemented`), and take over the results. The
  refinement of the claims forgets the check, which takes any number of steps between the
  lookup and the insertion. The proofs speak of an instance of the abstract module with its
  proofs and the model of an instance without; `SameLogBook` and `SameLedger` identify the
  two.
* `EventCatalogProofs`. `CatalogInv` adds to the properties that nothing refers to a missing
  event, and that a creation past its second call has created the very reward it is about to
  list; `CatalogTracked` and `CatalogComplete` add `UnlistedInFlight` and assume `~Faults`.
  `UnlistedInFlight` and, above, the bound on claims (`ClaimsBounded`) are proved and have no
  run of their own; the same bound is checked on logs, and `RewardsListed`, which
  `CatalogComplete` proves without faults, is what `catalog_unlisted` refutes with them.
* `EventPlatformProofs`. Every step of the service is a step or a stutter of each component
  (`ComponentsImplemented`), so their theorems hold of it. `VerdictInv` strengthens
  `VerdictSound` with what a claim in flight has established: one that checks day i has found
  the i days before it. Conditions and logs only grow (`Persists`), so what was sound stays
  sound while other handlers run. `EligibleAccepted` shows that a claim whose condition was met at the start leaves the way to
  PENDING only by a failing call of its check. `ClaimsOnCourse` is an
  action property: from the event to the check, in the check from a day to a later one below
  the length of the streak, and on to the insertion; a claim in flight leaves this way only
  stored, for an event that cannot be checked, or by a failure. With fairness, that is
  `ClaimStored`.
* The calendar, in `EventPlatformProofs`. `StreakDates` gives the dates the loop asks for,
  exactly, in any zone with any changes of its clock: in round i the day i days before the
  server's own date, or the day before that one if its midnight is ahead of UTC. `Zone` is the
  only assumption: the clock is less than a day from UTC, and a day begins before its
  instants. So the dates are consecutive where all midnights are ahead of UTC or none is
  (`StreakConsecutive`), which leaves out zones such as London's, whose clock changes make the
  loop leave a date out in October and ask for one twice in March. A PENDING streak is
  `StreakWindow` on a server in UTC (`StreaksWhole`), a run of as many days with a log each
  where midnights keep to one side of UTC (`StreaksRun`), and in any zone at least `StreakDays`
  (`StreaksLogged`): each of its days has a log on it or on the day before. The other way
  round, one day more of attendance than the event asks for is enough where the clock keeps to
  one side of UTC (`StreakEnough`).
* `ClaimCallsProofs`. Every step of the calls is a step or a stutter of the service
  (`GatewayAddsNothing`), so the theorems about claims hold behind the gateway. Answers stay
  true (`AnswersAreTrue`), as a claim stays and an answer names one of the key of its call.
  `CarefulInv` is what keeps a careful user
  who is spared from a second claim: every call is waited for, so there is one call of that
  user and `claim()` has one request, and a request that is still to be stored found no claim
  (`PromisedUsers`). That every call is waited for is where `Spared` is needed, and
  `CarefulUsers` has it for all careful users at once.
* `ClaimBook`, in `ClaimCallsProofs`. Claims and answers implement the book
  (`BookImplemented`). The abstract book is the set of verdicts, each with its position, so
  that two claims of a user who is promised nothing are two entries; `PromisedOne` are the
  careful users who are spared. `BookInv`
  puts the invariants of the calls, of the answers and of careful users together: an insertion
  enters a verdict that is not there yet (`InsertEnters`), passing an answer on tells one that
  is (`PassOnTells`), and all else leaves the book alone (`BookStep`). `BookIsKept` shows what
  the book is worth by itself: `Kept`, by induction on its two actions.
  `ServedThroughGateway` and the three theorems after it carry the refinements and the
  verdicts over to claims made through the gateway, in the form the runs of `ClaimCalls`
  check them.
* `UserRolesProofs`. `RolesInv` adds to `VersionGuards` that no change in flight has read a
  version still to come; so a removal that passes the version check writes the array there is
  without one role, which the abstract set sees as taking that role away
  (`RoleSetImplemented`). `Repeats` counts: a push moves from the requests to the array.
* `SessionsProofs`. Every step is of one of five kinds (`StepKinds`), as far as sessions,
  tokens and requests go. `SessionsInv` adds to `ChainSingle` and `OwnerKept` that chains are
  named by a token of their own (`ChainsRooted`): a refresh turns the one session of a chain
  into a request, an issue turns the one request into a session. A chain with neither gets
  neither, hence `LoginsImplemented`, and one whose session a logout has deleted has nothing
  else (`LogoutsEnd`). `TokensSpent` is single use for
  good: a token without a session never has one again. `RefreshesKept` shows that a refresh in
  flight, all there is of its login, stays until the login has a session again, of the same
  user, or a failure ends both; it needs that a request that is still to create an account
  renews nothing (`AccountsFirst`). `TokensSuffice`
  is about the model: `Token` bounds the requests that begin, and none that has begun ever
  waits for a token.
* `GatewayProofs`. `GatewayInv` adds to the types that whatever was read, signed or sent had
  its roles when it was read (`AuthoritySound`). `lastHeld` never goes back, so that stays
  true while the roles change, and with the guards' look at the clock it bounds how long a
  revoked role passes (`RevocationsBounded`, and `CallsAreAuthorised` for the services that
  clients reach through the gateway alone). `AdminsByAdmins`, and what `ChangesAreAsked` says
  of the caller, assume that of the auth service. `RolesServed` shows that
  each step is one of `UserRoles` or leaves the roles alone, and takes over its theorems.
  `AdminsByAdmins` shows for each step that `AdminsGone` stays: what a read, a signature or a
  call could bring back, its token or account would have to have already. `ChangesAreAsked` is
  about every change of a role: `AskedInv` adds to `GatewayInv` that what a role endpoint has
  in hand is what its call asked for (`TaskAsked`), and the version check makes the saved array
  differ in that one role from the array there was, not from the one that was read
  (`SaveOwnRole`).

Left to TLC: liveness (`ClaimStored`, `EveryWaitEnds`), which is beyond
the prover, and the violations. Every invariant and every action property of the passing runs
is proved. No module uses recursion.

## 5. Not modelled

* Attendance and creations as calls of the gateway, as `ClaimCalls` has it for claims. In
  their own modules any request may come while another of the same client is in flight, which
  is all that a timeout adds.
* The tokens of `Sessions` and of `Gateway` as one. They meet in `issue()` alone: what
  `Gateway` shows holds for tokens issued at any time, what `Sessions` shows for any roles.
* Rights in front of `ClaimCalls`: `CallsAuthorised` is about the token of a call, whatever
  its route, and `Refuse` is the answer of a service that does not take it any more.
* Claims that clients make at the event service's own port, in `ClaimCalls`: they are calls
  whose wait only a broken connection cuts short.
* A bound on how long an expired session stays good: the TTL monitor of MongoDB gives none.
* `apps/auth/src/auth/auth.service.ts`, `apps/gateway/src/auth-proxy.controller.ts` and the
  hello-world controllers: no module registers the first two, and the last keep no state.
* Hashing, signing, the password rules of the DTOs and the logging: pure functions or output.
* The other listing endpoints, which change nothing and read nothing but their collection.
* Deployment files, Docker images and the Postman collection.

## 6. Where code and documents disagree

1. `calls_unique`: README.md:152 promises a duplicate check; two requests at once store two
   claims. It takes no more than one user who waits for every answer: the three seconds of
   event-http.module.ts:15, a connection that breaks or a stop of the gateway end the wait and
   not the claim, and the user claims again. `CarefulUsers` proves that there is no other way
   for such a user.
2. `platform_east_of_utc`: attendance-streak.strategy.ts:16 promises that today counts; on a
   server ahead of UTC the loop never asks for the server's own date (`StreakDates`): a streak
   is a run of days all the same (`StreakRun`), of which today is not one. Where the clock
   crosses UTC, as in London, a streak need not be a run either: `StreakDays` is what is left.
   `StreakWindow` fails west of UTC as well, in the hours in which the server's date is still
   the day before. The images run in
   UTC, but the README's development set-up runs on the host.
3. `sessions_cookie`: auth.controller.ts:19 says that every answer sets the cookie; the one of
   a refresh does not, so the token it used up stays in the cookie and a second refresh fails.
4. `catalog_unlisted`: README.md:203 says that an event keeps the ids of its rewards in a list;
   a failure or a stop between the two writes of a reward's `create()` leaves a reward that no
   event lists. A list in the body of POST /event/create is kept as it comes besides, whether
   its rewards exist or not: README.md's sentence is tried here with such entries left aside
   (`given`).
5. `sessions_proxied`: auth-proxy.controller.ts:46 says that it hands the cookies to the
   interceptor, which looks for them in the body. No client of the gateway is ever sent a
   refresh cookie, and a logout clears none; who wants to refresh has to put the token that is
   in the body of a login into a cookie.

The models show more, without a run of their own:

* auth.facade.ts:36 answers "User already exists" to any error of `create()`, whether the
  account exists or not: `RequestFail` ends such a request as it ends any other.
* The guard for an event without rewards, reward.service.ts:67-68, never fires, as an array is
  never falsy: `ClaimInsert` needs no reward.
* README.md:184 lets only accounts with the role ADMIN change roles. A token keeps the role
  for up to a quarter of an hour after its account has lost it: `RevocationBound` is what
  holds, and no more. Where the port of the auth service is published, as docker-compose.yml:13
  has it, anybody with a token that has not run out changes roles there: neither `AdminByAdmin`
  nor what `ChangesAsked` says of the caller holds then, and both say so.
* README.md:158 has attendance for USER. No `@Roles` stands at attend(), so `Required` of
  `Gateway` has no entry for it, and any token passes.
* README.md:136 lists /auth/refresh as public for whoever has a refresh token. The auth
  service asks for an access token that has not run out (`Renew`), so a refresh comes too late
  exactly when it is needed.
* README.md:153 has the filters of GET /reward/claim, and lines 143 and 150 those of the lists
  of events and rewards. The gateway drops all of them (`GatewayListing`): an auditor who asks
  for one user's claims gets everybody's. The service itself filters by a `rewardId` that no
  claim has.

## 7. Plan

Done: every service, its collections and its races; the authority of calls; claims and cookies
on their way through the gateway.

1. Attendance as a call, as in `ClaimCalls`: what `AnswersTrue` says of claims for logs.
2. Tokens of `Sessions` and of `Gateway` as one: a logout or the end of a login does not end
   its access tokens; how long they go on is a bound like `RevocationBound`.
3. Proofs: a bound for calls at the instant they are saved rather than taken up, and what a
   creation of a reward leaves at each of its steps, as `ClaimsOnCourse` has it for claims.
