------------------------- MODULE EventPlatformProofs -------------------------
(***************************************************************************)
(* Proofs about the event service: what the dates of a streak are, that    *)
(* its components keep what is proved of them alone, that its claims are a *)
(* check-then-insert collection, and that every verdict is sound.          *)
(***************************************************************************)
EXTENDS EventPlatform, AttendanceProofs, EventCatalogProofs

LedgerProofs == INSTANCE CheckThenInsertProofs
    WITH Key <- ClaimKey, Request <- ClaimReq, docs <- claims,
         open <- [r \in DOMAIN claiming |->
                     [key |-> claiming[r].doc.key, seen |-> claiming[r].doc.seen]]

-----------------------------------------------------------------------------
\* Division by the length of a day, as the two bounds that determine it.
LEMMA DivBounds ==
    ASSUME NEW m \in Int
    PROVE  /\ m \div SlotsPerDay \in Int
           /\ (m \div SlotsPerDay) * SlotsPerDay <= m
           /\ m < (m \div SlotsPerDay + 1) * SlotsPerDay
  BY CalendarAssumption, Z3

\* A number between two multiples of the length of a day tells the quotient.
LEMMA DivUnique ==
    ASSUME NEW m \in Int, NEW q \in Int,
           q * SlotsPerDay <= m, m < (q + 1) * SlotsPerDay
    PROVE  m \div SlotsPerDay = q
  BY CalendarAssumption, Z3

-----------------------------------------------------------------------------
\* A midnight less than a day from that of UTC begins on the same date in UTC,
\* or, where it is ahead, on the one before.
LEMMA MidnightDate ==
    ASSUME NEW d \in Int, Zone(Int)
    PROVE  UtcDate(LocalMidnight(d)) = IF MidnightOffset(d) > 0 THEN d - 1 ELSE d
  <1> DEFINE offset == MidnightOffset(d)
  <1>1. offset \in Int /\ -SlotsPerDay < offset /\ offset < SlotsPerDay
    BY DEF Zone
  <1>2. /\ (d - 1) * SlotsPerDay = d * SlotsPerDay - SlotsPerDay
        /\ (d + 1) * SlotsPerDay = d * SlotsPerDay + SlotsPerDay
        /\ d - 1 + 1 = d /\ d * SlotsPerDay \in Int /\ SlotsPerDay \in Int
    BY CalendarAssumption, Z3
  <1> HIDE DEF offset
  <1>3. CASE offset > 0
    <2>1. (d * SlotsPerDay - offset) \div SlotsPerDay = d - 1
      BY <1>1, <1>2, <1>3, DivUnique
    <2>2. QED
      BY <1>3, <2>1 DEF UtcDate, LocalMidnight, offset
  <1>4. CASE ~(offset > 0)
    <2>1. (d * SlotsPerDay - offset) \div SlotsPerDay = d
      BY <1>1, <1>2, <1>4, DivUnique
    <2>2. QED
      BY <1>4, <2>1 DEF UtcDate, LocalMidnight, offset
  <1>5. QED
    BY <1>3, <1>4

\* The server's date is a date.
LEMMA LocalDateInt ==
    ASSUME NEW t \in Int, Zone(Int)
    PROVE  LocalDate(t) \in Int
  <1>1. t + UtcOffset(t) \in Int
    BY DEF Zone
  <1>2. QED
    BY <1>1, DivBounds DEF LocalDate

\* The dates a streak asks for, in any time zone and with any changes of its
\* clock: round i asks for the day i days before the server's date, or, where
\* the midnight of that day is ahead of UTC, for the day before it.  On a server
\* ahead of UTC, `today` never counts.
THEOREM StreakDates ==
    ASSUME Zone(Int), NEW today \in Int, NEW i \in Int
    PROVE  LET d == LocalDate(today) - i IN
           StreakDate(today, i) = IF MidnightOffset(d) > 0 THEN d - 1 ELSE d
  <1>1. LocalDate(today) - i \in Int
    BY LocalDateInt
  <1>2. QED
    BY <1>1, MidnightDate DEF StreakDate

\* All midnights are ahead of UTC, or none is.  London has both kinds.
OneSideOfUtc ==
    \/ \A d \in Int : MidnightOffset(d) > 0
    \/ \A d \in Int : ~(MidnightOffset(d) > 0)

\* The rounds of the streak's loop ask for consecutive dates backwards, none
\* left out and none asked for twice, if all midnights are ahead of UTC or none
\* is; changes of the clock on one side of UTC do no harm.
THEOREM StreakConsecutive ==
    ASSUME Zone(Int), OneSideOfUtc, NEW today \in Int, NEW i \in Int
    PROVE  StreakDate(today, i) = StreakDate(today, 0) - i
  <1> DEFINE day == LocalDate(today)
  <1>1. day \in Int /\ day - i \in Int /\ day - 0 \in Int
    BY LocalDateInt
  <1>2. /\ StreakDate(today, i) = IF MidnightOffset(day - i) > 0 THEN day - i - 1 ELSE day - i
        /\ StreakDate(today, 0) = IF MidnightOffset(day - 0) > 0 THEN day - 0 - 1 ELSE day - 0
    BY <1>1, MidnightDate DEF StreakDate
  <1> HIDE DEF day
  <1>3. QED
    BY <1>1, <1>2 DEF OneSideOfUtc

\* The server runs in UTC.
InUtc == \A x \in Int : UtcOffset(x) = 0 /\ MidnightOffset(x) = 0

\* UTC is a time zone, in which the server's date is that of UTC.
LEMMA UtcZone ==
    ASSUME InUtc
    PROVE  Zone(Int) /\ OneSideOfUtc /\ \A t \in Int : LocalDate(t) = UtcDate(t)
  <1>1. ASSUME NEW t \in Int PROVE LocalDate(t) = UtcDate(t)
    BY DEF InUtc, LocalDate, UtcDate
  <1>2. ASSUME NEW t \in Int PROVE LocalMidnight(LocalDate(t)) <= t
    <2> DEFINE d == t \div SlotsPerDay
    <2>1. d \in Int /\ d * SlotsPerDay <= t
      BY DivBounds
    <2>2. LocalDate(t) = d
      BY <1>1 DEF UtcDate
    <2> HIDE DEF d
    <2>3. LocalMidnight(d) = d * SlotsPerDay
      BY <2>1, CalendarAssumption DEF InUtc, LocalMidnight
    <2>4. QED
      BY <2>1, <2>2, <2>3
  <1>3. QED
    BY <1>1, <1>2, CalendarAssumption DEF InUtc, Zone, OneSideOfUtc

\* On a server that runs in UTC, the first date asked for is today's, as the
\* attendance endpoint records it.
THEOREM StreakStartsToday ==
    ASSUME InUtc, NEW today \in Int
    PROVE  StreakDate(today, 0) = UtcDate(today)
  <1>1. UtcDate(today) \in Int /\ LocalDate(today) = UtcDate(today) /\ Zone(Int)
    BY UtcZone, DivBounds DEF UtcDate
  <1>2. MidnightOffset(LocalDate(today) - 0) = 0
    BY <1>1 DEF InUtc
  <1>3. QED
    BY <1>1, <1>2, StreakDates

\* The server's date is that of UTC or one off, in the direction of its offset.
LEMMA LocalDateNear ==
    ASSUME Zone(Int), NEW t \in Int
    PROVE  /\ UtcOffset(t) >= 0 => LocalDate(t) \in {UtcDate(t), UtcDate(t) + 1}
           /\ UtcOffset(t) <= 0 => LocalDate(t) \in {UtcDate(t) - 1, UtcDate(t)}
  <1> DEFINE u == UtcDate(t)
             offset == UtcOffset(t)
  <1>1. u \in Int /\ u * SlotsPerDay <= t /\ t < (u + 1) * SlotsPerDay
    BY DivBounds DEF UtcDate
  <1>2. offset \in Int /\ -SlotsPerDay < offset /\ offset < SlotsPerDay
    BY DEF Zone
  <1>3. LocalDate(t) = (t + offset) \div SlotsPerDay
    BY DEF LocalDate
  <1> HIDE DEF u, offset
  <1>4. /\ (u - 1) * SlotsPerDay = u * SlotsPerDay - SlotsPerDay
        /\ (u + 1) * SlotsPerDay = u * SlotsPerDay + SlotsPerDay
        /\ (u + 1 + 1) * SlotsPerDay = u * SlotsPerDay + SlotsPerDay + SlotsPerDay
        /\ u * SlotsPerDay \in Int /\ u - 1 + 1 = u /\ SlotsPerDay \in Int
    BY <1>1, CalendarAssumption, Z3
  <1>5. CASE t + offset < u * SlotsPerDay
    <2>1. u - 1 \in Int /\ (u - 1) * SlotsPerDay <= t + offset
      BY <1>1, <1>2, <1>4
    <2>2. LocalDate(t) = u - 1
      BY <1>2, <1>3, <1>4, <1>5, <2>1, DivUnique
    <2>3. QED
      BY <1>1, <1>2, <1>4, <1>5, <2>2 DEF u, offset
  <1>6. CASE u * SlotsPerDay <= t + offset /\ t + offset < (u + 1) * SlotsPerDay
    <2>1. LocalDate(t) = u
      BY <1>1, <1>2, <1>3, <1>6, DivUnique
    <2>2. QED
      BY <2>1 DEF u
  <1>7. CASE (u + 1) * SlotsPerDay <= t + offset
    <2>1. u + 1 \in Int /\ t + offset < (u + 1 + 1) * SlotsPerDay
      BY <1>1, <1>2, <1>4
    <2>2. LocalDate(t) = u + 1
      BY <1>2, <1>3, <1>7, <2>1, DivUnique
    <2>3. QED
      BY <1>1, <1>2, <1>4, <1>7, <2>2 DEF u, offset
  <1>8. QED
    BY <1>1, <1>2, <1>4, <1>5, <1>6, <1>7

\* The clock is never behind UTC, or never ahead of it, whatever its changes.
NeverCrossesUtc ==
    \/ \A x \in Int : UtcOffset(x) >= 0 /\ MidnightOffset(x) >= 0
    \/ \A x \in Int : UtcOffset(x) <= 0 /\ MidnightOffset(x) <= 0

\* Who has attended today and on each of the n days before, as the attendance
\* endpoint dates them, has a streak of n days in any time zone whose clock,
\* changes included, is never behind UTC or never ahead of it.
THEOREM StreakEnough ==
    ASSUME Zone(Int), NeverCrossesUtc, NEW u, NEW today \in Int, NEW n \in Nat,
           \A d \in LastDates(today, n + 1) : Attended(u, d)
    PROVE  StreakMet(u, today, n)
  <1> DEFINE utc == UtcDate(today)
             day == LocalDate(today)
  <1> SUFFICES ASSUME NEW i \in 0 .. n - 1 PROVE StreakDate(today, i) \in LastDates(today, n + 1)
    BY DEF StreakMet
  <1>1. utc \in Int /\ day \in Int /\ i \in Int
    BY DivBounds, LocalDateInt DEF UtcDate
  <1>2. StreakDate(today, i) = IF MidnightOffset(day - i) > 0 THEN day - i - 1 ELSE day - i
    BY <1>1, StreakDates
  <1>3. StreakDate(today, 0) <= utc
    <2>1. LocalMidnight(day) \in Int /\ LocalMidnight(day) <= today
      BY <1>1, CalendarAssumption DEF Zone, LocalMidnight
    <2>2. /\ utc \in Int /\ today < (utc + 1) * SlotsPerDay
          /\ UtcDate(LocalMidnight(day)) \in Int
          /\ UtcDate(LocalMidnight(day)) * SlotsPerDay <= LocalMidnight(day)
      BY <2>1, DivBounds DEF UtcDate
    <2> DEFINE first == UtcDate(LocalMidnight(day))
    <2>3. StreakDate(today, 0) = first
      BY <1>1 DEF StreakDate
    <2> HIDE DEF first, utc, day
    <2>4. first * SlotsPerDay < (utc + 1) * SlotsPerDay
      BY <2>1, <2>2, CalendarAssumption DEF first
    <2>5. first < utc + 1
      BY <2>2, <2>4, CalendarAssumption, Z3 DEF first
    <2>6. QED
      BY <2>2, <2>3, <2>5 DEF first
  <1>4. StreakDate(today, 0) = IF MidnightOffset(day - 0) > 0 THEN day - 0 - 1 ELSE day - 0
    BY StreakDates
  <1>5. /\ day - i \in Int /\ day - 0 \in Int
        /\ MidnightOffset(day - i) \in Int /\ UtcOffset(today) \in Int
    BY <1>1 DEF Zone
  <1>6. CASE \A x \in Int : UtcOffset(x) >= 0 /\ MidnightOffset(x) >= 0
    <2>1. day \in {utc, utc + 1}
      BY <1>6, LocalDateNear
    <2> HIDE DEF day, utc
    <2>2. utc - n <= StreakDate(today, i) /\ StreakDate(today, i) <= utc
      <3>1. CASE i = 0
        BY <1>1, <1>3, <1>4, <2>1, <3>1
      <3>2. CASE i # 0
        BY <1>1, <1>2, <2>1, <3>2
      <3>3. QED
        BY <3>1, <3>2
    <2>3. QED
      BY <1>1, <1>2, <2>2 DEF LastDates, utc
  <1>7. CASE \A x \in Int : UtcOffset(x) <= 0 /\ MidnightOffset(x) <= 0
    <2>1. day \in {utc - 1, utc}
      BY <1>7, LocalDateNear
    <2>2. ~(MidnightOffset(day - i) > 0)
      BY <1>5, <1>7
    <2> HIDE DEF day
    <2>3. QED
      BY <1>1, <1>2, <2>1, <2>2 DEF LastDates
  <1>8. QED
    BY <1>6, <1>7 DEF NeverCrossesUtc

-----------------------------------------------------------------------------
\* To each of two components, a step of the service is one of its own.
LEMMA ComponentSteps ==
    [Next]_vars => [AttendanceNext]_attendanceVars /\ [CatalogNext]_catalogVars
  <1> SUFFICES ASSUME [Next]_vars
               PROVE  [AttendanceNext]_attendanceVars /\ [CatalogNext]_catalogVars
    OBVIOUS
  <1>1. CASE AttendanceMoves
    BY <1>1 DEF AttendanceMoves, AttendanceNext, catalogVars
  <1>2. CASE CatalogMoves
    BY <1>2 DEF CatalogMoves, CatalogNext, attendanceVars
  <1>3. CASE ClaimsMove
    BY <1>3 DEF ClaimsMove, attendanceVars, catalogVars
  <1>4. CASE Crash
    <2>1. AttendanceCrash \/ UNCHANGED attendanceVars
      BY <1>4 DEF Crash, AttendanceCrash, attendanceVars
    <2>2. CatalogCrash \/ UNCHANGED catalogVars
      BY <1>4 DEF Crash, CatalogCrash, catalogVars
    <2>3. QED
      BY <2>1, <2>2 DEF AttendanceNext, CatalogNext
  <1>5. CASE UNCHANGED vars
    BY <1>5 DEF vars, attendanceVars, catalogVars
  <1>6. QED
    BY <1>1, <1>2, <1>3, <1>4, <1>5 DEF Next

\* The service does with attendance and with the catalog only what those
\* components do alone, so their theorems hold of the service too.
THEOREM ComponentsImplemented == Spec => AttendanceSpec /\ CatalogSpec
  <1>1. Init => AttendanceInit /\ CatalogInit
    BY DEF Init
  <1>2. QED
    BY <1>1, ComponentSteps, PTL DEF Spec, AttendanceSpec, CatalogSpec

-----------------------------------------------------------------------------
\* How far a claim has come when its handler gives way, or is to be stored.
LEMMA DecidedTyped ==
    ASSUME NEW task \in ClaimTask, NEW status \in ClaimStatus
    PROVE  Decided(task, status) \in ClaimTask
  BY DEF ClaimTask, ClaimDoc, Decided

\* A check that fails keeps the claim's key and what its lookup saw, and leads
\* to a rejection that is known to come of the failure.
LEMMA FailedTyped ==
    ASSUME NEW task \in ClaimTask
    PROVE  /\ CheckFailed(task) \in ClaimTask
           /\ CheckFailed(task).doc.key = task.doc.key
           /\ CheckFailed(task).doc.seen = task.doc.seen
           /\ CheckFailed(task).at = "insert"
           /\ CheckFailed(task).doc.status = "REJECTED" /\ CheckFailed(task).doc.failed
  BY DEF ClaimTask, ClaimDoc, ClaimStatus, CheckFailed

\* A check that begins keeps the claim's key and what its lookup saw.
LEMMA BegunTyped ==
    ASSUME NEW task \in ClaimTask, TypeOK
    PROVE  /\ Begun(task) \in ClaimTask
           /\ Begun(task).doc.key = task.doc.key
           /\ Begun(task).doc.seen = task.doc.seen
           /\ Begun(task).doc.asOf = now
           /\ Begun(task).doc.met = Meets(task.doc.key, now)
  <1>1. Meets(task.doc.key, now) \in BOOLEAN
    BY DEF Meets, StreakMet, OldEnough
  <1>2. now \in Int
    BY AttendanceAssumption DEF TypeOK, AttendanceTypeOK
  <1>3. QED
    BY <1>1, <1>2 DEF Begun, ClaimTask, ClaimDoc

\* A streak's loop goes on, or ends, with a task.
LEMMA RoundTyped ==
    ASSUME NEW task \in ClaimTask, NEW i \in Nat, NEW n
    PROVE  NextRound(task, i, n) \in ClaimTask
  BY DEF ClaimTask, ClaimDoc, ClaimStatus, Decided, NextRound

\* Every step keeps the types of a service in which they are right.
LEMMA TypeStep == TypeOK /\ [Next]_vars => TypeOK'
  <1> SUFFICES ASSUME TypeOK, [Next]_vars PROVE TypeOK'
    OBVIOUS
  <1>1. AttendanceTypeOK' /\ CatalogTypeOK'
    BY ComponentSteps, AttendanceTypeStep, CatalogTypeStep DEF TypeOK
  <1>2. CASE ClaimsMove
    <2>1. ASSUME NEW r \in ClaimReq, NEW k \in ClaimKey, ClaimLookup(r, k) PROVE TypeOK'
      <3>1. NewTask(k) \in ClaimTask
        BY AttendanceAssumption
           DEF NewTask, ClaimTask, ClaimDoc, ClaimStatus, TypeOK, AttendanceTypeOK
      <3>2. QED
        BY <1>1, <2>1, <3>1 DEF ClaimLookup, Put, TypeOK
    <2>2. ASSUME NEW r \in ClaimReq, ClaimNotServed(r) PROVE TypeOK'
      BY <1>1, <2>2 DEF ClaimNotServed, Drop, Restrict, TypeOK
    <2>3. ASSUME NEW r \in ClaimReq, ClaimCheckAge(r) PROVE TypeOK'
      <3>1. Begun(claiming[r]) \in ClaimTask
        BY <2>3, BegunTyped DEF ClaimCheckAge, Serving, TypeOK
      <3>2. claiming'[r] \in ClaimTask
        BY <2>3, <3>1, DecidedTyped DEF ClaimCheckAge, Serving, ClaimStatus
      <3>3. QED
        BY <1>1, <2>3, <3>2 DEF ClaimCheckAge, TypeOK
    <2>4. ASSUME NEW r \in ClaimReq, ClaimStartStreak(r) PROVE TypeOK'
      <3>1. Begun(claiming[r]) \in ClaimTask
        BY <2>4, BegunTyped DEF ClaimStartStreak, Serving, TypeOK
      <3>2. claiming'[r] \in ClaimTask
        BY <2>4, <3>1, RoundTyped, DecidedTyped DEF ClaimStartStreak, Serving, ClaimStatus
      <3>3. QED
        BY <1>1, <2>4, <3>2 DEF ClaimStartStreak, TypeOK
    <2>5. ASSUME NEW r \in ClaimReq, ClaimCheckDay(r) PROVE TypeOK'
      <3>1. claiming[r] \in ClaimTask /\ claiming[r].day + 1 \in Nat
        BY <2>5 DEF ClaimCheckDay, Serving, TypeOK, ClaimTask
      <3>2. claiming'[r] \in ClaimTask
        BY <2>5, <3>1, RoundTyped, DecidedTyped DEF ClaimCheckDay, Serving, ClaimStatus
      <3>3. QED
        BY <1>1, <2>5, <3>2 DEF ClaimCheckDay, TypeOK
    <2>6. ASSUME NEW r \in ClaimReq, ClaimInsert(r) PROVE TypeOK'
      <3>1. claiming[r].doc \in ClaimDoc
        BY <2>6 DEF ClaimInsert, Serving, TypeOK, ClaimTask
      <3>2. QED
        BY <1>1, <2>6, <3>1 DEF ClaimInsert, Drop, Restrict, TypeOK
    <2>7. ASSUME NEW r \in ClaimReq, ClaimFail(r) PROVE TypeOK'
      <3>1. CheckFailed(claiming[r]) \in ClaimTask
        BY <2>7, FailedTyped DEF ClaimFail, TypeOK
      <3>2. QED
        BY <1>1, <2>7, <3>1 DEF ClaimFail, Drop, Restrict, TypeOK
    <2>8. QED
      BY <1>2, <2>1, <2>2, <2>3, <2>4, <2>5, <2>6, <2>7
         DEF ClaimsMove, ClaimStep, ClaimProgress
  <1>3. CASE Crash
    BY <1>1, <1>3 DEF Crash, Empty, TypeOK
  <1>4. CASE UNCHANGED claimVars
    BY <1>1, <1>4 DEF claimVars, TypeOK
  <1>5. QED
    BY <1>2, <1>3, <1>4 DEF Next, AttendanceMoves, CatalogMoves, vars

\* The service starts with nothing stored and nothing in flight.
LEMMA TypeInit == Init => TypeOK
  BY AttendanceTypeInit, CatalogTypeInit DEF Init, ClaimsInit, TypeOK, Empty

\* Every variable keeps its type, for any users, events and requests.
THEOREM Typed == Spec => []TypeOK
  BY TypeInit, TypeStep, PTL DEF Spec

-----------------------------------------------------------------------------
\* What the ledger sees of the claims in flight.
OpenClaims ==
    [r \in DOMAIN claiming |-> [key |-> claiming[r].doc.key, seen |-> claiming[r].doc.seen]]

\* A step that only moves a claim on changes nothing the ledger sees.
LEMMA MovesOn ==
    ASSUME TypeOK, NEW r \in ClaimReq,
           ClaimCheckAge(r) \/ ClaimStartStreak(r) \/ ClaimCheckDay(r)
    PROVE  claims' = claims /\ OpenClaims' = OpenClaims
  <1>1. /\ r \in DOMAIN claiming /\ claims' = claims
        /\ DOMAIN claiming' = DOMAIN claiming
        /\ \A q \in DOMAIN claiming : q # r => claiming'[q] = claiming[q]
    BY DEF ClaimCheckAge, ClaimStartStreak, ClaimCheckDay, Serving
  <1>2. claiming[r] \in ClaimTask
    BY <1>1 DEF TypeOK
  <1> DEFINE Same(task) == /\ task.doc.key = claiming[r].doc.key
                           /\ task.doc.seen = claiming[r].doc.seen
             begun == Begun(claiming[r])
  <1>3. Same(claiming[r]) /\ Same(begun) /\ begun \in ClaimTask
    BY <1>2, BegunTyped
  <1> HIDE DEF begun
  <1>4. \A status : Same(Decided(claiming[r], status)) /\ Same(Decided(begun, status))
    BY <1>2, <1>3 DEF Decided, ClaimTask, ClaimDoc
  <1>5. \A i, n : Same(NextRound(claiming[r], i, n)) /\ Same(NextRound(begun, i, n))
    BY <1>2, <1>3, <1>4 DEF NextRound, ClaimTask, ClaimDoc
  <1>6. CASE ClaimCheckAge(r)
    <2>1. \E status : claiming'[r] = Decided(begun, status)
      BY <1>1, <1>6 DEF ClaimCheckAge, begun
    <2>2. QED
      BY <1>1, <1>4, <2>1 DEF OpenClaims
  <1>7. CASE ClaimStartStreak(r)
    <2>1. \/ \E status : claiming'[r] = Decided(begun, status)
          \/ \E n : claiming'[r] = NextRound(begun, 0, n)
      BY <1>1, <1>7 DEF ClaimStartStreak, begun
    <2>2. QED
      BY <1>1, <1>4, <1>5, <2>1 DEF OpenClaims
  <1>8. CASE ClaimCheckDay(r)
    <2>1. \/ \E status : claiming'[r] = Decided(claiming[r], status)
          \/ \E i, n : claiming'[r] = NextRound(claiming[r], i, n)
      BY <1>1, <1>8 DEF ClaimCheckDay
    <2>2. QED
      BY <1>1, <1>4, <1>5, <2>1 DEF OpenClaims
  <1>9. QED
    BY <1>6, <1>7, <1>8

\* A step of the service is, for the claims, a step of the ledger, or none.
LEMMA LedgerStep == TypeOK /\ [Next]_vars => [Ledger!Next]_(Ledger!vars)
  <1> SUFFICES ASSUME TypeOK, [Next]_vars
               PROVE  Ledger!Next \/ UNCHANGED <<claims, OpenClaims>>
    BY DEF Ledger!vars, OpenClaims
  <1> USE DEF OpenClaims
  <1>1. ASSUME NEW r \in ClaimReq, NEW k \in ClaimKey, ClaimLookup(r, k) PROVE Ledger!Next
    <2>1. Ledger!Miss(r, k)
      BY <1>1 DEF ClaimLookup, NewTask, ClaimsOf, Put, Ledger!Miss, Ledger!DocsOf, Ledger!Put
    <2>2. QED
      BY <2>1 DEF Ledger!Next
  <1>2. ASSUME NEW r \in ClaimReq, ClaimInsert(r) PROVE Ledger!Next
    <2>1. Ledger!Insert(r)
      BY <1>2 DEF ClaimInsert, Serving, Drop, Restrict, TypeOK, ClaimTask, ClaimDoc,
                  Ledger!Insert, Ledger!Drop, Ledger!Restrict
    <2>2. QED
      BY <2>1 DEF Ledger!Next
  <1>3. ASSUME NEW r \in ClaimReq, ClaimNotServed(r) PROVE Ledger!Next
    <2>1. Ledger!Abandon({r})
      BY <1>3 DEF ClaimNotServed, Drop, Restrict, Ledger!Abandon, Ledger!Drop, Ledger!Restrict
    <2>2. QED
      BY <2>1 DEF Ledger!Next
  <1>4. ASSUME NEW r \in ClaimReq, ClaimFail(r)
        PROVE  Ledger!Next \/ UNCHANGED <<claims, OpenClaims>>
    <2>1. CASE claiming[r].at = "check"
      BY <1>4, <2>1, FailedTyped DEF ClaimFail, TypeOK
    <2>2. CASE claiming[r].at # "check"
      <3>1. Ledger!Abandon({r})
        BY <1>4, <2>2 DEF ClaimFail, Drop, Restrict, Ledger!Abandon, Ledger!Drop, Ledger!Restrict
      <3>2. QED
        BY <3>1 DEF Ledger!Next
    <2>3. QED
      BY <2>1, <2>2
  <1>5. CASE Crash
    <2>1. Ledger!Abandon(ClaimReq)
      BY <1>5 DEF Crash, Empty, TypeOK, Ledger!Abandon, Ledger!Drop, Ledger!Restrict
    <2>2. QED
      BY <2>1 DEF Ledger!Next
  <1>6. CASE UNCHANGED claimVars
    BY <1>6 DEF claimVars
  <1>7. QED
    BY <1>1, <1>2, <1>3, <1>4, <1>5, <1>6, MovesOn
       DEF Next, AttendanceMoves, CatalogMoves, ClaimsMove, ClaimStep, ClaimProgress, vars

\* The claims of the service are a check-then-insert collection with the keys
\* [user, event]: the check between the two calls adds no way to store one.
THEOREM LedgerImplemented == Spec => LedgerSpec
  <1>1. Init => Ledger!Init
    BY DEF Init, ClaimsInit, Empty, Ledger!Init, Ledger!Empty
  <1>2. QED
    BY <1>1, Typed, LedgerStep, PTL DEF Spec, LedgerSpec, Ledger!Spec

\* The two instances of the ledger, with and without its proofs, are one.
LEMMA SameLedger ==
    /\ Ledger!Init => LedgerProofs!Init
    /\ [Ledger!Next]_(Ledger!vars) => [LedgerProofs!Next]_(LedgerProofs!vars)
  <1>1. Ledger!Init => LedgerProofs!Init
    BY DEF Ledger!Init, LedgerProofs!Init, Ledger!Empty, LedgerProofs!Empty
  <1>2. Ledger!Next => LedgerProofs!Next
    BY DEF Ledger!Next, Ledger!Miss, Ledger!Insert, Ledger!Abandon,
           Ledger!DocsOf, Ledger!Put, Ledger!Drop, Ledger!Restrict,
           LedgerProofs!Next, LedgerProofs!Miss, LedgerProofs!Insert, LedgerProofs!Abandon,
           LedgerProofs!DocsOf, LedgerProofs!Put, LedgerProofs!Drop, LedgerProofs!Restrict
  <1>3. QED
    BY <1>1, <1>2 DEF Ledger!vars, LedgerProofs!vars

\* A user has two claims of one event only if two requests raced for it.
THEOREM ClaimsRaced == Spec => []ClaimDuplicatesRaced
  <1>1. LedgerProofs!Spec => []LedgerProofs!RaceInv
    BY LedgerProofs!Races
  <1>2. LedgerProofs!RaceInv => ClaimDuplicatesRaced
    BY DEF LedgerProofs!RaceInv, LedgerProofs!DuplicatesRaced,
           ClaimDuplicatesRaced, Ledger!DuplicatesRaced
  <1>3. QED
    BY <1>1, <1>2, LedgerImplemented, SameLedger,
       PTL DEF LedgerSpec, Ledger!Spec, LedgerProofs!Spec

\* The claims of one user and event, with the requests that can still add
\* one, never outnumber the requests in flight together.
THEOREM ClaimsBounded == Spec => []ClaimDuplicatesBounded
  <1>1. LedgerProofs!Spec => []LedgerProofs!DuplicatesBounded
    <2>1. LedgerProofs!IsFiniteSet(ClaimReq)
      BY ClaimsAssumption DEF LedgerProofs!IsFiniteSet, IsFiniteSet
    <2>2. QED
      BY <2>1, LedgerProofs!Bounded
  <1>2. LedgerProofs!DuplicatesBounded => ClaimDuplicatesBounded
    BY DEF LedgerProofs!DuplicatesBounded, LedgerProofs!DocsOf, LedgerProofs!OpenFor,
           ClaimDuplicatesBounded, Ledger!DuplicatesBounded, Ledger!DocsOf, Ledger!OpenFor,
           LedgerProofs!Cardinality, Ledger!Cardinality
  <1>3. QED
    BY <1>1, <1>2, LedgerImplemented, SameLedger,
       PTL DEF LedgerSpec, Ledger!Spec, LedgerProofs!Spec

\* A user and event with a claim and without a request in flight are settled:
\* claiming again changes nothing, and a rejection stays one.
THEOREM ClaimsSettled == Spec => ClaimSettledForever
  <1>1. LedgerProofs!Spec => LedgerProofs!SettledForever
    BY LedgerProofs!Settled
  <1>2. [\A k \in ClaimKey : LedgerProofs!SettledStep(k)]_(LedgerProofs!vars)
            => [\A k \in ClaimKey : Ledger!SettledStep(k)]_(Ledger!vars)
    BY DEF LedgerProofs!SettledStep, LedgerProofs!DocsOf, LedgerProofs!OpenFor,
           LedgerProofs!vars, Ledger!SettledStep, Ledger!DocsOf, Ledger!OpenFor, Ledger!vars
  <1>3. QED
    BY <1>1, <1>2, LedgerImplemented, SameLedger,
       PTL DEF LedgerSpec, Ledger!Spec, LedgerProofs!Spec,
               ClaimSettledForever, Ledger!SettledForever, LedgerProofs!SettledForever

-----------------------------------------------------------------------------
\* What claims are judged by stays: logs, events and their conditions.
LEMMA Persists ==
    ASSUME TypeOK, [Next]_vars
    PROVE  /\ \A u, d : Attended(u, d) => Attended(u, d)'
           /\ \A e \in DOMAIN events :
                  e \in DOMAIN events' /\ events'[e].condition = events[e].condition
  <1>1. \A u, d : Attended(u, d) => Attended(u, d)'
    <2>1. DOMAIN logs \subseteq DOMAIN logs' /\ \A i \in DOMAIN logs : logs'[i] = logs[i]
      <3>1. CASE UNCHANGED logs
        BY <3>1
      <3>2. ASSUME NEW r \in AttendReq, AttendInsert(r)
            PROVE  DOMAIN logs \subseteq DOMAIN logs' /\ \A i \in DOMAIN logs : logs'[i] = logs[i]
        BY <3>2 DEF AttendInsert, TypeOK, AttendanceTypeOK
      <3>3. QED
        BY <3>1, <3>2
           DEF Next, vars, attendanceVars, AttendanceMoves, AttendanceStep, CatalogMoves,
               ClaimsMove, Crash, Tick, AttendLookup, AttendFail
    <2>2. QED
      BY <2>1 DEF Attended
  <1>2. \A e \in DOMAIN events :
            e \in DOMAIN events' /\ events'[e].condition = events[e].condition
    <2>1. CASE UNCHANGED events
      BY <2>1
    <2>2. ASSUME NEW e \in Event, NEW c \in Condition, NEW list \in Listed, CreateEvent(e, c, list)
          PROVE  \A f \in DOMAIN events :
                     f \in DOMAIN events' /\ events'[f].condition = events[f].condition
      BY <2>2 DEF CreateEvent, Put
    <2>3. ASSUME NEW r \in RewardReq, RewardSave(r)
          PROVE  \A f \in DOMAIN events :
                     f \in DOMAIN events' /\ events'[f].condition = events[f].condition
      BY <2>3 DEF RewardSave, TypeOK, CatalogTypeOK, EventDoc
    <2>4. QED
      BY <2>1, <2>2, <2>3
         DEF Next, vars, catalogVars, AttendanceMoves, CatalogMoves, CatalogStep,
             ClaimsMove, Crash, RewardFindEvent, RewardCreate, RewardFail
  <1>3. QED
    BY <1>1, <1>2

\* So a condition once met stays met, and what is sound stays sound.
LEMMA SoundPersists ==
    ASSUME TypeOK, [Next]_vars
    PROVE  /\ \A k, t : k.event \in DOMAIN events /\ Meets(k, t) => Meets(k, t)'
           /\ \A doc : DocSound(doc) => DocSound(doc)'
           /\ \A task : TaskSound(task) => TaskSound(task)'
  <1>1. ASSUME NEW u, NEW t, NEW n, StreakMet(u, t, n) PROVE StreakMet(u, t, n)'
    BY <1>1, Persists DEF StreakMet
  <1>2. ASSUME NEW k, NEW t, k.event \in DOMAIN events
        PROVE  /\ k.event \in DOMAIN events' /\ ConditionOf(k)' = ConditionOf(k)
               /\ Meets(k, t) => Meets(k, t)'
               /\ ConditionOf(k).type = "ACCOUNT_AGE" => Meets(k, t)' = Meets(k, t)
    <2>1. k.event \in DOMAIN events' /\ ConditionOf(k)' = ConditionOf(k)
      BY <1>2, Persists DEF ConditionOf
    <2>2. QED
      BY <1>1, <2>1 DEF Meets
  <1>3. ASSUME NEW doc, DocSound(doc) PROVE DocSound(doc)'
    BY <1>2, <1>3 DEF DocSound
  <1>4. ASSUME NEW task, TaskSound(task) PROVE TaskSound(task)'
    BY <1>1, <1>2, <1>3, <1>4 DEF TaskSound
  <1>5. QED
    BY <1>2, <1>3, <1>4

-----------------------------------------------------------------------------
\* A check begins for an event that is there, and every way it ends, or goes
\* on, keeps the task sound.
LEMMA CheckSound ==
    ASSUME TypeOK, NEW r \in ClaimReq, TaskSound(claiming[r]),
           ClaimCheckAge(r) \/ ClaimStartStreak(r) \/ ClaimCheckDay(r)
    PROVE  TaskSound(claiming'[r])
  <1> DEFINE task == claiming[r]
             k == KeyOf(r)
             begun == Begun(task)
             days == ConditionOf(k).days
  <1>1. task \in ClaimTask /\ r \in DOMAIN claiming
    BY DEF ClaimCheckAge, ClaimStartStreak, ClaimCheckDay, Serving, TypeOK
  <1>2. /\ begun \in ClaimTask
        /\ begun.doc.key = k /\ begun.doc.asOf = now /\ task.doc.key = k
    BY <1>1, BegunTyped DEF KeyOf
  <1>3. k.event \in DOMAIN events => days \in Nat \cup {NullMeta}
    BY ClaimsAssumption DEF ConditionOf, TypeOK, CatalogTypeOK, EventDoc
  <1>4. CASE ClaimCheckAge(r)
    <2> DEFINE verdict == IF days # NullMeta /\ OldEnough(now, CreatedAt[k.user], days)
                          THEN "PENDING" ELSE "REJECTED"
    <2>1. /\ claiming'[r] = Decided(begun, verdict)
          /\ k.event \in DOMAIN events /\ ConditionOf(k).type = "ACCOUNT_AGE"
      BY <1>1, <1>4 DEF ClaimCheckAge
    <2>2. Meets(k, now) <=> verdict = "PENDING"
      BY <2>1 DEF Meets
    <2> HIDE DEF verdict, begun
    <2>3. LET done == Decided(begun, verdict) IN
          /\ done.at = "insert" /\ done.doc.key = k
          /\ done.doc.asOf = now /\ done.doc.status = verdict
      BY <1>1, <1>2 DEF Decided, ClaimTask, ClaimDoc
    <2>4. QED
      BY <2>1, <2>2, <2>3 DEF TaskSound, DocSound
  <1>5. CASE ClaimStartStreak(r)
    <2>1. /\ claiming'[r] = IF days = NullMeta THEN Decided(begun, "REJECTED")
                                               ELSE NextRound(begun, 0, days)
          /\ k.event \in DOMAIN events /\ ConditionOf(k).type = "ATTENDANCE_STREAK"
      BY <1>1, <1>5 DEF ClaimStartStreak
    <2>2. /\ StreakMet(k.user, now, 0)
          /\ days # NullMeta /\ ~(0 < days) => Meets(k, now)
      BY <1>3, <2>1 DEF StreakMet, Meets
    <2> HIDE DEF begun
    <2>3. LET next == NextRound(begun, 0, days) IN
          /\ next.doc.key = k /\ next.doc.asOf = now
          /\ 0 < days => next.at = "check" /\ next.day = 0
          /\ ~(0 < days) => next.at = "insert" /\ next.doc.status = "PENDING"
      BY <1>1, <1>2 DEF NextRound, Decided, ClaimTask, ClaimDoc
    <2>4. LET done == Decided(begun, "REJECTED") IN
          done.at = "insert" /\ done.doc.key = k /\ done.doc.status = "REJECTED"
      BY <1>1, <1>2 DEF Decided, ClaimTask, ClaimDoc
    <2> HIDE DEF days
    <2>5. CASE days = NullMeta
      BY <2>1, <2>4, <2>5 DEF TaskSound, DocSound
    <2>6. CASE days # NullMeta
      BY <2>1, <2>2, <2>3, <2>6 DEF TaskSound, DocSound, days
    <2>7. QED
      BY <2>5, <2>6
  <1>6. CASE ClaimCheckDay(r)
    <2> DEFINE i == task.day
               t == task.doc.asOf
               found == Attended(k.user, StreakDate(t, i))
    <2>1. /\ task.at = "check"
          /\ claiming'[r] = IF found THEN NextRound(task, i + 1, days) ELSE Decided(task, "REJECTED")
      BY <1>1, <1>6 DEF ClaimCheckDay, Serving
    <2>2. /\ k.event \in DOMAIN events /\ ConditionOf(k).type = "ATTENDANCE_STREAK"
          /\ i < days /\ StreakMet(k.user, t, i)
          /\ i \in Nat /\ days \in Nat /\ days # NullMeta
      BY <1>1, <1>2, <1>3, <2>1 DEF TaskSound, ClaimTask, NullMeta
    <2>3. found => StreakMet(k.user, t, i + 1)
      BY <2>2 DEF StreakMet
    <2>4. found /\ ~(i + 1 < days) => Meets(k, t)
      <3>1. ~(i + 1 < days) => days = i + 1
        BY <2>2
      <3>2. QED
        BY <2>2, <2>3, <3>1 DEF Meets
    <2>5. LET next == NextRound(task, i + 1, days) IN
          /\ next.doc.key = k /\ next.doc.asOf = t
          /\ i + 1 < days => next.at = "check" /\ next.day = i + 1
          /\ ~(i + 1 < days) => next.at = "insert" /\ next.doc.status = "PENDING"
      BY <1>1, <1>2 DEF NextRound, Decided, ClaimTask, ClaimDoc
    <2>6. LET done == Decided(task, "REJECTED") IN
          done.at = "insert" /\ done.doc.key = k /\ done.doc.status = "REJECTED"
      BY <1>1, <1>2 DEF Decided, ClaimTask, ClaimDoc
    <2> HIDE DEF task, days, k
    <2>7. CASE found
      BY <2>1, <2>2, <2>3, <2>4, <2>5, <2>7 DEF TaskSound, DocSound, days
    <2>8. CASE ~found
      BY <2>1, <2>2, <2>6, <2>8 DEF TaskSound, DocSound
    <2>9. QED
      BY <2>7, <2>8
  <1>7. QED
    BY <1>4, <1>5, <1>6

\* The steps of one claim keep every claim, stored or in flight, sound.
LEMMA ClaimStepSound ==
    ASSUME TypeOK, VerdictInv, ClaimsMove
    PROVE  /\ \A i \in DOMAIN claims' : DocSound(claims'[i])
           /\ \A r \in DOMAIN claiming' : TaskSound(claiming'[r])
  <1> DEFINE Sound == /\ \A i \in DOMAIN claims' : DocSound(claims'[i])
                      /\ \A r \in DOMAIN claiming' : TaskSound(claiming'[r])
  <1> USE DEF VerdictInv, VerdictSound
  <1>1. ASSUME NEW r \in ClaimReq, NEW k \in ClaimKey, ClaimLookup(r, k) PROVE Sound
    <2>1. claiming'[r].at = "event"
      BY <1>1 DEF ClaimLookup, NewTask, Put
    <2>2. TaskSound(claiming'[r])
      BY <2>1 DEF TaskSound
    <2>3. QED
      BY <1>1, <2>2 DEF ClaimLookup, Put
  <1>2. ASSUME NEW r \in ClaimReq, ClaimNotServed(r) PROVE Sound
    BY <1>2 DEF ClaimNotServed, Drop, Restrict
  <1>3. ASSUME NEW r \in ClaimReq, ClaimCheckAge(r) \/ ClaimStartStreak(r) \/ ClaimCheckDay(r)
        PROVE  Sound
    <2>1. /\ r \in DOMAIN claiming /\ claims' = claims
          /\ DOMAIN claiming' = DOMAIN claiming
          /\ \A q \in DOMAIN claiming : q # r => claiming'[q] = claiming[q]
      BY <1>3 DEF ClaimCheckAge, ClaimStartStreak, ClaimCheckDay, Serving
    <2>2. TaskSound(claiming'[r])
      BY <1>3, <2>1, CheckSound
    <2>3. QED
      BY <2>1, <2>2
  <1>4. ASSUME NEW r \in ClaimReq, ClaimInsert(r) PROVE Sound
    <2>1. DocSound(claiming[r].doc)
      BY <1>4 DEF ClaimInsert, Serving, TaskSound
    <2>2. claims \in Seq(ClaimDoc) /\ claiming[r].doc \in ClaimDoc
      BY <1>4 DEF ClaimInsert, Serving, TypeOK, ClaimTask
    <2>3. QED
      BY <1>4, <2>1, <2>2 DEF ClaimInsert, Drop, Restrict
  <1>5. ASSUME NEW r \in ClaimReq, ClaimFail(r) PROVE Sound
    <2>1. CASE claiming[r].at = "check"
      <3>1. /\ r \in DOMAIN claiming /\ claiming[r] \in ClaimTask /\ TaskSound(claiming[r])
            /\ claiming' = [claiming EXCEPT ![r] = CheckFailed(claiming[r])]
            /\ claims' = claims
        BY <1>5, <2>1 DEF ClaimFail, TypeOK
      <3>2. /\ claiming'[r].at = "insert" /\ claiming'[r].doc.status = "REJECTED"
            /\ claiming'[r].doc.key = claiming[r].doc.key
        BY <3>1, FailedTyped
      <3>3. TaskSound(claiming'[r])
        BY <2>1, <3>1, <3>2 DEF TaskSound, DocSound
      <3>4. QED
        BY <3>1, <3>3
    <2>2. CASE claiming[r].at # "check"
      BY <1>5, <2>2 DEF ClaimFail, Drop, Restrict
    <2>3. QED
      BY <2>1, <2>2
  <1>6. QED
    BY <1>1, <1>2, <1>3, <1>4, <1>5 DEF ClaimsMove, ClaimStep, ClaimProgress

\* Every step of the service keeps every claim, stored or in flight, sound.
LEMMA VerdictStep == TypeOK /\ VerdictInv /\ [Next]_vars => VerdictInv'
  <1> SUFFICES ASSUME TypeOK, VerdictInv, [Next]_vars PROVE VerdictInv'
    OBVIOUS
  <1>1. /\ \A i \in DOMAIN claims' : DocSound(claims'[i])
        /\ \A r \in DOMAIN claiming' : TaskSound(claiming'[r])
    <2>1. CASE ClaimsMove
      BY <2>1, ClaimStepSound
    <2>2. CASE Crash
      BY <2>2 DEF Crash, Empty, VerdictInv, VerdictSound
    <2>3. CASE UNCHANGED claimVars
      BY <2>3 DEF claimVars, VerdictInv, VerdictSound
    <2>4. QED
      BY <2>1, <2>2, <2>3 DEF Next, AttendanceMoves, CatalogMoves, vars
  <1>2. ASSUME NEW i \in DOMAIN claims' PROVE DocSound(claims[i])'
    BY <1>1, <1>2, SoundPersists
  <1>3. ASSUME NEW r \in DOMAIN claiming' PROVE TaskSound(claiming[r])'
    BY <1>1, <1>3, SoundPersists
  <1>4. QED
    BY <1>2, <1>3 DEF VerdictInv, VerdictSound

\* Every verdict is sound, for any conditions, any interleaving of attendance
\* and claims, any failures and restarts, and in any time zone.
THEOREM VerdictsSound == Spec => [](VerdictInv /\ VerdictSound)
  <1>1. Init => VerdictInv
    BY DEF Init, ClaimsInit, Empty, VerdictInv, VerdictSound
  <1>2. VerdictInv => VerdictSound
    BY DEF VerdictInv
  <1>3. QED
    BY <1>1, <1>2, Typed, VerdictStep, PTL DEF Spec

\* What a sound PENDING claim of a streak event says.
LEMMA PendingStreak ==
    ASSUME TypeOK, NEW c \in ClaimDoc, DocSound(c),
           c.status = "PENDING", ConditionOf(c.key).type = "ATTENDANCE_STREAK"
    PROVE  /\ c.asOf \in Int /\ ConditionOf(c.key).days \in Nat
           /\ StreakMet(c.key.user, c.asOf, ConditionOf(c.key).days)
  <1>1. c.asOf \in Int /\ ConditionOf(c.key).days \in Nat \cup {NullMeta}
    BY ClaimsAssumption
       DEF ClaimDoc, DocSound, ConditionOf, TypeOK, CatalogTypeOK, EventDoc
  <1>2. QED
    BY <1>1 DEF DocSound, Meets

\* On a server that runs in UTC, a PENDING claim of a streak event has a log
\* for today and for each of the days before it that the streak covers.
THEOREM StreaksWhole ==
    ASSUME InUtc
    PROVE  Spec => []StreakWindow
  <1>1. TypeOK /\ VerdictSound => StreakWindow
    <2> SUFFICES ASSUME TypeOK, VerdictSound, NEW i \in DOMAIN claims,
                        claims[i].status = "PENDING",
                        ConditionOf(claims[i].key).type = "ATTENDANCE_STREAK",
                        NEW d \in LastDates(claims[i].asOf, ConditionOf(claims[i].key).days)
                 PROVE  Attended(claims[i].key.user, d)
      BY DEF StreakWindow
    <2> DEFINE t == claims[i].asOf
               n == ConditionOf(claims[i].key).days
               today == UtcDate(t)
    <2>1. claims[i] \in ClaimDoc /\ DocSound(claims[i])
      BY DEF TypeOK, VerdictSound
    <2>2. t \in Int /\ n \in Nat /\ StreakMet(claims[i].key.user, t, n)
      BY <2>1, PendingStreak
    <2>4. today \in Int /\ d \in Int /\ today - d \in 0 .. n - 1
      BY <2>2, DivBounds DEF LastDates, UtcDate
    <2>5. StreakDate(t, today - d) = d
      <3>1. StreakDate(t, today - d) = StreakDate(t, 0) - (today - d)
        BY <2>2, <2>4, UtcZone, StreakConsecutive
      <3>2. StreakDate(t, 0) = today
        BY <2>2, StreakStartsToday
      <3> HIDE DEF today
      <3>3. QED
        BY <2>4, <3>1, <3>2
    <2>6. QED
      BY <2>2, <2>4, <2>5 DEF StreakMet
  <1>2. QED
    BY <1>1, Typed, VerdictsSound, PTL

\* On a server in any time zone, with any changes of its clock, every day of a
\* PENDING streak has a log on it or on the day before.
THEOREM StreaksLogged ==
    ASSUME Zone(Int)
    PROVE  Spec => []StreakDays
  <1>1. TypeOK /\ VerdictSound => StreakDays
    <2> SUFFICES ASSUME TypeOK, VerdictSound, NEW i \in DOMAIN claims,
                        claims[i].status = "PENDING",
                        ConditionOf(claims[i].key).type = "ATTENDANCE_STREAK",
                        NEW d \in LocalDate(claims[i].asOf) - ConditionOf(claims[i].key).days + 1
                                      .. LocalDate(claims[i].asOf)
                 PROVE  \/ Attended(claims[i].key.user, d)
                        \/ Attended(claims[i].key.user, d - 1)
      BY DEF StreakDays
    <2> DEFINE t == claims[i].asOf
               n == ConditionOf(claims[i].key).days
               today == LocalDate(t)
    <2>1. claims[i] \in ClaimDoc /\ DocSound(claims[i])
      BY DEF TypeOK, VerdictSound
    <2>2. t \in Int /\ n \in Nat /\ StreakMet(claims[i].key.user, t, n)
      BY <2>1, PendingStreak
    <2>3. today \in Int
      BY <2>2, LocalDateInt
    <2>4. today - d \in 0 .. n - 1 /\ d \in Int /\ today - (today - d) = d
      BY <2>2, <2>3
    <2>5. StreakDate(t, today - d) \in {d, d - 1}
      <3>1. LET e == LocalDate(t) - (today - d) IN
            StreakDate(t, today - d) = IF MidnightOffset(e) > 0 THEN e - 1 ELSE e
        BY <2>2, <2>4, StreakDates
      <3> HIDE DEF today, t
      <3>2. QED
        BY <2>4, <3>1 DEF today
    <2>6. Attended(claims[i].key.user, StreakDate(t, today - d))
      BY <2>2, <2>4 DEF StreakMet
    <2>7. QED
      BY <2>5, <2>6
  <1>2. QED
    BY <1>1, Typed, VerdictsSound, PTL

\* Where all midnights are ahead of UTC, or none is, a PENDING claim of a streak
\* event has a log for each of as many days, one after the other, up to the
\* server's date at the check or the one before it.
THEOREM StreaksRun ==
    ASSUME Zone(Int), OneSideOfUtc
    PROVE  Spec => []StreakRun
  <1>1. TypeOK /\ VerdictSound => StreakRun
    <2> SUFFICES ASSUME TypeOK, VerdictSound, NEW i \in DOMAIN claims,
                        claims[i].status = "PENDING",
                        ConditionOf(claims[i].key).type = "ATTENDANCE_STREAK"
                 PROVE  LET c == claims[i]
                            n == ConditionOf(c.key).days
                            today == LocalDate(c.asOf)
                        IN  \E last \in {today - 1, today} :
                                \A d \in last - n + 1 .. last : Attended(c.key.user, d)
      BY DEF StreakRun
    <2> DEFINE t == claims[i].asOf
               n == ConditionOf(claims[i].key).days
               last == StreakDate(t, 0)
    <2>1. claims[i] \in ClaimDoc /\ DocSound(claims[i])
      BY DEF TypeOK, VerdictSound
    <2>2. t \in Int /\ n \in Nat /\ StreakMet(claims[i].key.user, t, n)
      BY <2>1, PendingStreak
    <2>3. last \in {LocalDate(t) - 1, LocalDate(t)} /\ last \in Int
      <3>1. LocalDate(t) \in Int
        BY <2>2, LocalDateInt
      <3>2. LET d == LocalDate(t) - 0 IN
            StreakDate(t, 0) = IF MidnightOffset(d) > 0 THEN d - 1 ELSE d
        BY <2>2, StreakDates
      <3>3. QED
        BY <3>1, <3>2
    <2>4. ASSUME NEW d \in last - n + 1 .. last PROVE Attended(claims[i].key.user, d)
      <3>1. last - d \in 0 .. n - 1 /\ d \in Int
        BY <2>2, <2>3
      <3>2. StreakDate(t, last - d) = d
        <4>1. StreakDate(t, last - d) = StreakDate(t, 0) - (last - d)
          BY <2>2, <3>1, StreakConsecutive
        <4> HIDE DEF t
        <4>2. QED
          BY <2>3, <3>1, <4>1
      <3>3. QED
        BY <2>2, <3>1, <3>2 DEF StreakMet
    <2>5. QED
      BY <2>3, <2>4
  <1>2. QED
    BY <1>1, Typed, VerdictsSound, PTL

-----------------------------------------------------------------------------
\* A user who met the condition at the start is on the way to PENDING, unless a
\* database call of the check has failed.
EligibleTask(task) ==
    task.doc.met =>
        /\ task.at = "check" => Meets(task.doc.key, task.doc.asOf)
        /\ task.at = "insert" /\ task.doc.status = "REJECTED" => task.doc.failed
        /\ task.at # "event"

EligibleInv == EligibleNotRejected /\ \A r \in DOMAIN claiming : EligibleTask(claiming[r])

\* A check that began with its condition met goes on to PENDING.
LEMMA EligibleCheck ==
    ASSUME TypeOK, NEW r \in ClaimReq, TaskSound(claiming[r]), EligibleTask(claiming[r]),
           ClaimCheckAge(r) \/ ClaimStartStreak(r) \/ ClaimCheckDay(r)
    PROVE  EligibleTask(claiming'[r])
  <1> DEFINE task == claiming[r]
             k == KeyOf(r)
             begun == Begun(task)
             days == ConditionOf(k).days
  <1>1. task \in ClaimTask /\ r \in DOMAIN claiming
    BY DEF ClaimCheckAge, ClaimStartStreak, ClaimCheckDay, Serving, TypeOK
  <1>2. /\ begun \in ClaimTask /\ task.doc.key = k
        /\ begun.doc.key = k /\ begun.doc.asOf = now /\ begun.doc.met = Meets(k, now)
    BY <1>1, BegunTyped DEF KeyOf
  <1>3. CASE ClaimCheckAge(r)
    <2> DEFINE verdict == IF days # NullMeta /\ OldEnough(now, CreatedAt[k.user], days)
                          THEN "PENDING" ELSE "REJECTED"
    <2>1. claiming'[r] = Decided(begun, verdict) /\ ConditionOf(k).type = "ACCOUNT_AGE"
      BY <1>1, <1>3 DEF ClaimCheckAge
    <2>2. Meets(k, now) => verdict = "PENDING"
      BY <2>1 DEF Meets
    <2> HIDE DEF verdict, begun
    <2>3. LET done == Decided(begun, verdict) IN
          done.at = "insert" /\ done.doc.met = Meets(k, now) /\ done.doc.status = verdict
      BY <1>1, <1>2 DEF Decided, ClaimTask, ClaimDoc
    <2>4. QED
      BY <2>1, <2>2, <2>3 DEF EligibleTask
  <1>4. CASE ClaimStartStreak(r)
    <2>1. claiming'[r] = IF days = NullMeta THEN Decided(begun, "REJECTED")
                                            ELSE NextRound(begun, 0, days)
      BY <1>1, <1>4 DEF ClaimStartStreak
    <2>2. days = NullMeta => ~Meets(k, now)
      BY DEF Meets
    <2> HIDE DEF begun
    <2>3. LET done == Decided(begun, "REJECTED") IN
          done.at = "insert" /\ done.doc.met = Meets(k, now)
      BY <1>1, <1>2 DEF Decided, ClaimTask, ClaimDoc
    <2>4. LET next == NextRound(begun, 0, days) IN
          /\ next.doc.key = k /\ next.doc.asOf = now /\ next.doc.met = Meets(k, now)
          /\ next.at # "event" /\ (next.at = "insert" => next.doc.status = "PENDING")
      BY <1>1, <1>2 DEF NextRound, Decided, ClaimTask, ClaimDoc
    <2> HIDE DEF days
    <2>5. CASE days = NullMeta
      BY <2>1, <2>2, <2>3, <2>5 DEF EligibleTask
    <2>6. CASE days # NullMeta
      BY <2>1, <2>4, <2>6 DEF EligibleTask
    <2>7. QED
      BY <2>5, <2>6
  <1>5. CASE ClaimCheckDay(r)
    <2> DEFINE found == Attended(k.user, StreakDate(task.doc.asOf, task.day))
    <2>1. /\ task.at = "check"
          /\ claiming'[r] = IF found THEN NextRound(task, task.day + 1, days)
                                     ELSE Decided(task, "REJECTED")
      BY <1>1, <1>5 DEF ClaimCheckDay, Serving
    <2>2. task.doc.met => found
      <3>1. /\ ConditionOf(k).type = "ATTENDANCE_STREAK" /\ task.day \in 0 .. days - 1
        <4>1. k.event \in DOMAIN events /\ ConditionOf(k).type = "ATTENDANCE_STREAK"
              /\ task.day < days /\ task.day \in Nat
          BY <1>1, <1>2, <2>1 DEF TaskSound, ClaimTask
        <4>2. days \in Nat \cup {NullMeta}
          BY <4>1, ClaimsAssumption DEF ConditionOf, TypeOK, CatalogTypeOK, EventDoc
        <4>3. QED
          BY <4>1, <4>2 DEF NullMeta
      <3>2. task.doc.met => Meets(k, task.doc.asOf)
        BY <1>2, <2>1 DEF EligibleTask
      <3>3. QED
        BY <3>1, <3>2 DEF Meets, StreakMet
    <2>3. LET next == NextRound(task, task.day + 1, days) IN
          /\ next.doc.key = k /\ next.doc.asOf = task.doc.asOf /\ next.doc.met = task.doc.met
          /\ next.at # "event" /\ (next.at = "insert" => next.doc.status = "PENDING")
      BY <1>1, <1>2 DEF NextRound, Decided, ClaimTask, ClaimDoc
    <2>4. Decided(task, "REJECTED").doc.met = task.doc.met
      BY <1>1 DEF Decided, ClaimTask, ClaimDoc
    <2>5. task.doc.met => Meets(k, task.doc.asOf)
      BY <1>2, <2>1 DEF EligibleTask
    <2> HIDE DEF task, k, days, found
    <2>6. QED
      BY <2>1, <2>2, <2>3, <2>4, <2>5 DEF EligibleTask
  <1>6. QED
    BY <1>3, <1>4, <1>5

\* No step rejects a user who met the condition, but the failure of a call.
LEMMA EligibleStep ==
    ASSUME TypeOK, VerdictInv, EligibleInv, [Next]_vars
    PROVE  EligibleInv'
  <1> DEFINE Kept == /\ \A i \in DOMAIN claims' :
                            claims'[i].met /\ claims'[i].status = "REJECTED" => claims'[i].failed
                     /\ \A r \in DOMAIN claiming' : EligibleTask(claiming'[r])
  <1> USE DEF EligibleInv, EligibleNotRejected
  <1>1. ASSUME NEW r \in ClaimReq, NEW k \in ClaimKey, ClaimLookup(r, k) PROVE Kept
    <2>1. claiming'[r].doc.met = FALSE
      BY <1>1 DEF ClaimLookup, NewTask, Put
    <2>2. EligibleTask(claiming'[r])
      BY <2>1 DEF EligibleTask
    <2>3. QED
      BY <1>1, <2>2 DEF ClaimLookup, Put
  <1>2. ASSUME NEW r \in ClaimReq, ClaimNotServed(r) PROVE Kept
    BY <1>2 DEF ClaimNotServed, Drop, Restrict
  <1>3. ASSUME NEW r \in ClaimReq, ClaimCheckAge(r) \/ ClaimStartStreak(r) \/ ClaimCheckDay(r)
        PROVE  Kept
    <2>1. /\ r \in DOMAIN claiming /\ claims' = claims
          /\ DOMAIN claiming' = DOMAIN claiming
          /\ \A q \in DOMAIN claiming : q # r => claiming'[q] = claiming[q]
      BY <1>3 DEF ClaimCheckAge, ClaimStartStreak, ClaimCheckDay, Serving
    <2>2. EligibleTask(claiming'[r])
      BY <1>3, <2>1, EligibleCheck DEF VerdictInv
    <2>3. QED
      BY <2>1, <2>2
  <1>4. ASSUME NEW r \in ClaimReq, ClaimInsert(r) PROVE Kept
    <2>1. claiming[r].doc.met /\ claiming[r].doc.status = "REJECTED" => claiming[r].doc.failed
      BY <1>4 DEF ClaimInsert, Serving, EligibleTask
    <2>2. claims \in Seq(ClaimDoc) /\ claiming[r].doc \in ClaimDoc
      BY <1>4 DEF ClaimInsert, Serving, TypeOK, ClaimTask
    <2>3. QED
      BY <1>4, <2>1, <2>2 DEF ClaimInsert, Drop, Restrict
  <1>5. ASSUME NEW r \in ClaimReq, ClaimFail(r) PROVE Kept
    <2>1. CASE claiming[r].at = "check"
      <3>1. /\ r \in DOMAIN claiming /\ claiming[r] \in ClaimTask
            /\ claiming' = [claiming EXCEPT ![r] = CheckFailed(claiming[r])]
            /\ claims' = claims
        BY <1>5, <2>1 DEF ClaimFail, TypeOK
      <3>2. EligibleTask(claiming'[r])
        BY <3>1, FailedTyped DEF EligibleTask
      <3>3. QED
        BY <3>1, <3>2
    <2>2. CASE claiming[r].at # "check"
      BY <1>5, <2>2 DEF ClaimFail, Drop, Restrict
    <2>3. QED
      BY <2>1, <2>2
  <1>6. ASSUME Crash PROVE Kept
    BY <1>6 DEF Crash, Empty
  <1>7. ASSUME UNCHANGED claimVars PROVE Kept
    BY <1>7 DEF claimVars
  <1>8. Kept
    BY <1>1, <1>2, <1>3, <1>4, <1>5, <1>6, <1>7
       DEF Next, AttendanceMoves, CatalogMoves, ClaimsMove, ClaimStep, ClaimProgress, vars
  <1>9. ASSUME NEW r \in DOMAIN claiming' PROVE EligibleTask(claiming[r])'
    <2>1. EligibleTask(claiming'[r])
      BY <1>8, <1>9
    <2>2. VerdictInv'
      BY VerdictStep
    <2>3. claiming'[r].at = "check" => claiming'[r].doc.key.event \in DOMAIN events
      <3>1. CASE claiming' = claiming
        BY <1>9, <3>1 DEF VerdictInv, TaskSound
      <3>2. CASE ClaimsMove
        <4>1. events' = events
          BY <3>2 DEF ClaimsMove, catalogVars
        <4>2. TaskSound(claiming'[r])
          BY <3>2, <1>9, ClaimStepSound
        <4>3. QED
          BY <4>2 DEF TaskSound
      <3>3. CASE Crash
        BY <1>9, <3>3 DEF Crash, Empty
      <3>4. QED
        BY <1>9, <3>1, <3>2, <3>3
           DEF Next, AttendanceMoves, CatalogMoves, vars, claimVars
    <2>4. QED
      BY <2>1, <2>3, SoundPersists DEF EligibleTask
  <1>10. QED
    BY <1>8, <1>9

\* A user who met the condition when the check began is rejected only if a
\* database call of that check failed, in any time zone and whatever else fails.
THEOREM EligibleAccepted == Spec => []EligibleNotRejected
  <1>1. Init => EligibleInv
    BY DEF Init, ClaimsInit, Empty, EligibleInv, EligibleNotRejected
  <1>2. TypeOK /\ VerdictInv /\ EligibleInv /\ [Next]_vars => EligibleInv'
    BY EligibleStep
  <1>3. EligibleInv => EligibleNotRejected
    BY DEF EligibleInv
  <1>4. QED
    BY <1>1, <1>2, <1>3, Typed, VerdictsSound, PTL DEF Spec

-----------------------------------------------------------------------------
\* A claim in flight keeps what it claims, and goes on towards its end: from
\* the reading of the event to the check or past it, in the check from a day to
\* a later one short of the streak's length, and to the insertion.  It leaves
\* by being stored, or by an event that is not there or cannot be checked, or
\* by a failure.
OnCourse(r) ==
    LET task == claiming[r]
        next == claiming'[r]
        k == task.doc.key
    IN
    \/ r \in DOMAIN claiming' /\ next = task
    \/ /\ r \in DOMAIN claiming' /\ next.doc.key = k
       /\ \/ task.at = "event" /\ next.at \in {"check", "insert"}
          \/ task.at = "check" /\ next.at = "insert"
          \/ /\ task.at = "check" /\ next.at = "check"
             /\ task.day < next.day /\ next.day < ConditionOf(k).days
    \/ r \notin DOMAIN claiming' /\ task.at = "insert" /\ claims' = Append(claims, task.doc)
    \/ /\ r \notin DOMAIN claiming' /\ task.at = "event"
       /\ k.event \in DOMAIN events => ConditionOf(k).type = "SAMPLE"
    \/ Faults /\ r \notin DOMAIN claiming'

\* The steps of a check stay on course.
LEMMA CheckOnCourse ==
    ASSUME TypeOK, NEW r \in ClaimReq,
           ClaimCheckAge(r) \/ ClaimStartStreak(r) \/ ClaimCheckDay(r)
    PROVE  OnCourse(r)
  <1> DEFINE task == claiming[r]
             begun == Begun(task)
             days == ConditionOf(KeyOf(r)).days
  <1>1. /\ r \in DOMAIN claiming /\ DOMAIN claiming' = DOMAIN claiming
        /\ task \in ClaimTask /\ task.doc.key = KeyOf(r)
    BY DEF ClaimCheckAge, ClaimStartStreak, ClaimCheckDay, Serving, TypeOK, KeyOf
  <1>2. begun \in ClaimTask /\ begun.doc.key = KeyOf(r)
    BY <1>1, BegunTyped DEF KeyOf
  <1>3. CASE ClaimCheckAge(r)
    <2>1. /\ task.at = "event"
          /\ \E s \in ClaimStatus : claiming'[r] = Decided(begun, s)
      BY <1>1, <1>3 DEF ClaimCheckAge, Serving, ClaimStatus
    <2> HIDE DEF begun
    <2>2. claiming'[r].doc.key = KeyOf(r) /\ claiming'[r].at = "insert"
      BY <1>2, <2>1 DEF Decided, ClaimTask, ClaimDoc
    <2>3. QED
      BY <1>1, <2>1, <2>2 DEF OnCourse
  <1>4. CASE ClaimStartStreak(r)
    <2>1. /\ task.at = "event"
          /\ \/ claiming'[r] = Decided(begun, "REJECTED")
             \/ claiming'[r] = NextRound(begun, 0, days)
      BY <1>1, <1>4 DEF ClaimStartStreak, Serving
    <2> HIDE DEF begun, days
    <2>2. LET done == Decided(begun, "REJECTED") IN
          done.doc.key = KeyOf(r) /\ done.at = "insert"
      BY <1>2 DEF Decided, ClaimTask, ClaimDoc
    <2>3. LET next == NextRound(begun, 0, days) IN
          next.doc.key = KeyOf(r) /\ next.at \in {"check", "insert"}
      BY <1>2 DEF NextRound, Decided, ClaimTask, ClaimDoc
    <2>4. claiming'[r].doc.key = KeyOf(r) /\ claiming'[r].at \in {"check", "insert"}
      BY <2>1, <2>2, <2>3
    <2>5. QED
      BY <1>1, <2>1, <2>4 DEF OnCourse
  <1>5. CASE ClaimCheckDay(r)
    <2>1. /\ task.at = "check"
          /\ \/ claiming'[r] = NextRound(task, task.day + 1, days)
             \/ claiming'[r] = Decided(task, "REJECTED")
      BY <1>1, <1>5 DEF ClaimCheckDay, Serving
    <2>2. task.day < task.day + 1
      BY <1>1 DEF ClaimTask
    <2> HIDE DEF days, task
    <2>3. LET next == NextRound(task, task.day + 1, days) IN
          /\ next.doc.key = KeyOf(r)
          /\ task.day + 1 < days => next.at = "check" /\ next.day = task.day + 1
          /\ ~(task.day + 1 < days) => next.at = "insert"
      BY <1>1 DEF NextRound, Decided, ClaimTask, ClaimDoc
    <2>4. LET next == Decided(task, "REJECTED") IN
          next.doc.key = KeyOf(r) /\ next.at = "insert"
      BY <1>1 DEF Decided, ClaimTask, ClaimDoc
    <2>5. /\ claiming'[r].doc.key = KeyOf(r)
          /\ \/ claiming'[r].at = "insert"
             \/ /\ claiming'[r].at = "check"
                /\ claiming'[r].day = task.day + 1 /\ task.day + 1 < days
      BY <2>1, <2>3, <2>4
    <2>6. QED
      BY <1>1, <2>1, <2>2, <2>5 DEF OnCourse, task, days
  <1>6. QED
    BY <1>3, <1>4, <1>5

\* A claim in flight is never set back and never lost on a service whose
\* database does not fail: each of its steps brings it closer to its end, and
\* its end is a stored claim wherever the event can be checked.  What is left
\* to TLC of ClaimStored is that the steps happen.
THEOREM ClaimsOnCourse == Spec => [][\A r \in DOMAIN claiming : OnCourse(r)]_vars
  <1>1. ASSUME TypeOK, [Next]_vars, NEW r \in DOMAIN claiming PROVE OnCourse(r)
    <2>1. CASE claiming' = claiming
      BY <2>1 DEF OnCourse
    <2>2. CASE Crash
      BY <2>2 DEF Crash, OnCourse, Empty
    <2>3. ASSUME NEW q \in ClaimReq, NEW k \in ClaimKey, ClaimLookup(q, k) PROVE OnCourse(r)
      BY <2>3 DEF ClaimLookup, Put, OnCourse
    <2>4. ASSUME NEW q \in ClaimReq, ClaimProgress(q) \/ ClaimFail(q) PROVE OnCourse(r)
      <3>1. CASE q # r
        BY <2>4, <3>1
           DEF ClaimProgress, ClaimNotServed, ClaimCheckAge, ClaimStartStreak, ClaimCheckDay,
               ClaimInsert, ClaimFail, Serving, Drop, Restrict, OnCourse
      <3>2. CASE q = r /\ ClaimNotServed(r)
        BY <3>2 DEF ClaimNotServed, Serving, KeyOf, Drop, Restrict, OnCourse
      <3>3. CASE q = r /\ (ClaimCheckAge(r) \/ ClaimStartStreak(r) \/ ClaimCheckDay(r))
        BY <1>1, <2>4, <3>3, CheckOnCourse
      <3>4. CASE q = r /\ ClaimInsert(r)
        BY <3>4 DEF ClaimInsert, Serving, Drop, Restrict, OnCourse
      <3>5. CASE q = r /\ ClaimFail(r)
        <4>1. claiming[r] \in ClaimTask
          BY <1>1 DEF TypeOK
        <4>2. CASE claiming[r].at = "check"
          <5>1. /\ r \in DOMAIN claiming' /\ claiming'[r].at = "insert"
                /\ claiming'[r].doc.key = claiming[r].doc.key
            BY <3>5, <4>1, <4>2, FailedTyped DEF ClaimFail
          <5>2. QED
            BY <4>2, <5>1 DEF OnCourse
        <4>3. CASE claiming[r].at # "check"
          BY <3>5, <4>3 DEF ClaimFail, Drop, Restrict, OnCourse
        <4>4. QED
          BY <4>2, <4>3
      <3>6. QED
        BY <2>4, <3>1, <3>2, <3>3, <3>4, <3>5 DEF ClaimProgress
    <2>5. QED
      BY <1>1, <2>1, <2>2, <2>3, <2>4
         DEF Next, AttendanceMoves, CatalogMoves, ClaimsMove, ClaimStep, claimVars, vars
  <1>2. TypeOK /\ [Next]_vars => [\A r \in DOMAIN claiming : OnCourse(r)]_vars
    BY <1>1
  <1>3. QED
    BY <1>2, Typed, PTL DEF Spec
=============================================================================
