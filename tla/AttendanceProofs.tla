-------------------------- MODULE AttendanceProofs --------------------------
(***************************************************************************)
(* The attendance endpoint implements a check-then-insert collection, and  *)
(* so its logs have the properties proved of every such collection.        *)
(***************************************************************************)
EXTENDS Attendance, TLAPS

LogBookProofs == INSTANCE CheckThenInsertProofs
    WITH Key <- LogKey, Request <- AttendReq, docs <- logs, open <- attending

-----------------------------------------------------------------------------
\* The endpoint starts with values of the right types.
LEMMA AttendanceTypeInit == AttendanceInit => AttendanceTypeOK
  BY AttendanceAssumption DEF AttendanceInit, AttendanceTypeOK, Empty

\* Every step of the endpoint keeps them.
LEMMA AttendanceTypeStep ==
    AttendanceTypeOK /\ [AttendanceNext]_attendanceVars => AttendanceTypeOK'
  <1> SUFFICES ASSUME AttendanceTypeOK, [AttendanceNext]_attendanceVars
               PROVE  AttendanceTypeOK'
    OBVIOUS
  <1> USE DEF AttendanceTypeOK
  <1>1. CASE Tick
    BY <1>1, AttendanceAssumption DEF Tick
  <1>2. ASSUME NEW r \in AttendReq, NEW u \in User, NEW d \in Dates, AttendLookup(r, u, d)
        PROVE  AttendanceTypeOK'
    <2>1. NewLog(u, d) \in AttendanceLog
      BY DEF NewLog, AttendanceLog, LogKey
    <2>2. QED
      BY <1>2, <2>1 DEF AttendLookup, Put
  <1>3. ASSUME NEW r \in AttendReq, AttendInsert(r) PROVE AttendanceTypeOK'
    BY <1>3 DEF AttendInsert, Drop, Restrict
  <1>4. ASSUME NEW r \in AttendReq, AttendFail(r) PROVE AttendanceTypeOK'
    BY <1>4 DEF AttendFail, Drop, Restrict
  <1>5. CASE AttendanceCrash
    BY <1>5 DEF AttendanceCrash, Empty
  <1>6. CASE UNCHANGED attendanceVars
    BY <1>6 DEF attendanceVars
  <1>7. QED
    BY <1>1, <1>2, <1>3, <1>4, <1>5, <1>6 DEF AttendanceNext, AttendanceStep

\* Every variable keeps its type, for any users, dates and requests.
THEOREM AttendanceTyped == AttendanceSpec => []AttendanceTypeOK
  BY AttendanceTypeInit, AttendanceTypeStep, PTL DEF AttendanceSpec

-----------------------------------------------------------------------------
\* A step of the endpoint is a step of the collection, or none.
LEMMA LogBookStep ==
    AttendanceTypeOK /\ [AttendanceNext]_attendanceVars => [LogBook!Next]_(LogBook!vars)
  <1> SUFFICES ASSUME AttendanceTypeOK, [AttendanceNext]_attendanceVars
               PROVE  LogBook!Next \/ UNCHANGED <<logs, attending>>
    BY DEF LogBook!vars
  <1>1. CASE Tick
    BY <1>1 DEF Tick
  <1>2. ASSUME NEW r \in AttendReq, NEW u \in User, NEW d \in Dates, AttendLookup(r, u, d)
        PROVE  LogBook!Next
    <2> DEFINE k == [user |-> u, date |-> d]
    <2>1. k \in LogKey
      BY DEF LogKey
    <2>2. LogBook!Miss(r, k)
      BY <1>2 DEF AttendLookup, Attended, NewLog, Put, LogBook!Miss, LogBook!DocsOf, LogBook!Put
    <2>3. QED
      BY <2>1, <2>2 DEF LogBook!Next
  <1>3. ASSUME NEW r \in AttendReq, AttendInsert(r) PROVE LogBook!Next
    <2>1. LogBook!Insert(r)
      BY <1>3 DEF AttendInsert, Drop, Restrict, AttendanceTypeOK, AttendanceLog,
         LogBook!Insert, LogBook!Drop, LogBook!Restrict
    <2>2. QED
      BY <2>1 DEF LogBook!Next
  <1>4. ASSUME NEW r \in AttendReq, AttendFail(r) PROVE LogBook!Next
    <2>1. LogBook!Abandon({r})
      BY <1>4 DEF AttendFail, Drop, Restrict, LogBook!Abandon, LogBook!Drop, LogBook!Restrict
    <2>2. QED
      BY <2>1 DEF LogBook!Next
  <1>5. CASE AttendanceCrash
    <2>1. LogBook!Abandon(AttendReq)
      BY <1>5 DEF AttendanceCrash, AttendanceTypeOK, Empty,
         LogBook!Abandon, LogBook!Drop, LogBook!Restrict
    <2>2. QED
      BY <2>1 DEF LogBook!Next
  <1>6. CASE UNCHANGED attendanceVars
    BY <1>6 DEF attendanceVars
  <1>7. QED
    BY <1>1, <1>2, <1>3, <1>4, <1>5, <1>6 DEF AttendanceNext, AttendanceStep

\* The endpoint implements the collection: every behaviour of it is one of a
\* check-then-insert collection with the keys [user, date].
THEOREM LogBookImplemented == AttendanceSpec => LogBookSpec
  <1>1. AttendanceInit => LogBook!Init
    BY DEF AttendanceInit, Empty, LogBook!Init, LogBook!Empty
  <1>2. QED
    BY <1>1, AttendanceTyped, LogBookStep, PTL DEF AttendanceSpec, LogBookSpec, LogBook!Spec

\* The two instances of the collection, with and without its proofs, are one.
LEMMA SameLogBook ==
    /\ LogBook!Init => LogBookProofs!Init
    /\ [LogBook!Next]_(LogBook!vars) => [LogBookProofs!Next]_(LogBookProofs!vars)
  <1>1. LogBook!Init => LogBookProofs!Init
    BY DEF LogBook!Init, LogBookProofs!Init, LogBook!Empty, LogBookProofs!Empty
  <1>2. LogBook!Next => LogBookProofs!Next
    BY DEF LogBook!Next, LogBook!Miss, LogBook!Insert, LogBook!Abandon,
           LogBook!DocsOf, LogBook!Put, LogBook!Drop, LogBook!Restrict,
           LogBookProofs!Next, LogBookProofs!Miss, LogBookProofs!Insert, LogBookProofs!Abandon,
           LogBookProofs!DocsOf, LogBookProofs!Put, LogBookProofs!Drop, LogBookProofs!Restrict
  <1>3. QED
    BY <1>1, <1>2 DEF LogBook!vars, LogBookProofs!vars

\* Two logs of one user and date come from racing requests only.
THEOREM LogsRaced == AttendanceSpec => []LogDuplicatesRaced
  <1>1. LogBookProofs!Spec => []LogBookProofs!RaceInv
    BY LogBookProofs!Races
  <1>2. LogBookProofs!RaceInv => LogDuplicatesRaced
    BY DEF LogBookProofs!RaceInv, LogBookProofs!DuplicatesRaced,
           LogDuplicatesRaced, LogBook!DuplicatesRaced
  <1>3. QED
    BY <1>1, <1>2, LogBookImplemented, SameLogBook,
       PTL DEF LogBookSpec, LogBook!Spec, LogBookProofs!Spec

\* The logs of one user and date, with the requests that can still add to
\* them, never outnumber the requests in flight together.
THEOREM LogsBounded == AttendanceSpec => []LogDuplicatesBounded
  <1>1. LogBookProofs!Spec => []LogBookProofs!DuplicatesBounded
    <2>1. LogBookProofs!IsFiniteSet(AttendReq)
      BY AttendanceAssumption DEF LogBookProofs!IsFiniteSet, IsFiniteSet
    <2>2. QED
      BY <2>1, LogBookProofs!Bounded
  <1>2. LogBookProofs!DuplicatesBounded => LogDuplicatesBounded
    BY DEF LogBookProofs!DuplicatesBounded, LogBookProofs!DocsOf, LogBookProofs!OpenFor,
           LogDuplicatesBounded, LogBook!DuplicatesBounded, LogBook!DocsOf, LogBook!OpenFor,
           LogBookProofs!Cardinality, LogBook!Cardinality
  <1>3. QED
    BY <1>1, <1>2, LogBookImplemented, SameLogBook,
       PTL DEF LogBookSpec, LogBook!Spec, LogBookProofs!Spec

\* A user and date with a log and without a request between its two calls are
\* settled: attending again changes nothing.
THEOREM LogsSettled == AttendanceSpec => LogSettledForever
  <1>1. LogBookProofs!Spec => LogBookProofs!SettledForever
    BY LogBookProofs!Settled
  <1>2. [\A k \in LogKey : LogBookProofs!SettledStep(k)]_(LogBookProofs!vars)
            => [\A k \in LogKey : LogBook!SettledStep(k)]_(LogBook!vars)
    BY DEF LogBookProofs!SettledStep, LogBookProofs!DocsOf, LogBookProofs!OpenFor,
           LogBookProofs!vars, LogBook!SettledStep, LogBook!DocsOf, LogBook!OpenFor, LogBook!vars
  <1>3. QED
    BY <1>1, <1>2, LogBookImplemented, SameLogBook,
       PTL DEF LogBookSpec, LogBook!Spec, LogBookProofs!Spec,
               LogSettledForever, LogBook!SettledForever, LogBookProofs!SettledForever
=============================================================================
