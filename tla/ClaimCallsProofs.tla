-------------------------- MODULE ClaimCallsProofs --------------------------
(***************************************************************************)
(* Proofs about claims made through the gateway: the gateway adds nothing  *)
(* to what the service does, its answers are true, and careful users have  *)
(* one claim of an event if no wait of theirs is cut short.                *)
(***************************************************************************)
EXTENDS ClaimCalls, EventPlatformProofs

\* What one step of claim() does, as its caller sees it: it moves on, ends
\* without a claim, or stores its claim.
LEMMA ServedStep ==
    ASSUME TypeOK, NEW r \in ClaimReq, r \in DOMAIN claiming,
           ClaimProgress(r) \/ ClaimFail(r)
    PROVE  \/ /\ claims' = claims
              /\ DOMAIN claiming' = DOMAIN claiming
              /\ \A q \in DOMAIN claiming : KeyOf(q)' = KeyOf(q)
           \/ claims' = claims /\ claiming' = Drop(claiming, {r})
           \/ claims' = Append(claims, claiming[r].doc) /\ claiming' = Drop(claiming, {r})
  <1>1. CASE ClaimCheckAge(r) \/ ClaimStartStreak(r) \/ ClaimCheckDay(r)
    <2>1. claims' = claims /\ OpenClaims' = OpenClaims
      BY <1>1, MovesOn
    <2>2. DOMAIN claiming' = DOMAIN claiming
      BY <1>1 DEF ClaimCheckAge, ClaimStartStreak, ClaimCheckDay
    <2>3. \A q \in DOMAIN claiming : OpenClaims'[q].key = OpenClaims[q].key
      BY <2>1
    <2>4. QED
      BY <2>1, <2>2, <2>3 DEF OpenClaims, KeyOf
  <1>2. CASE ClaimFail(r)
    <2>1. CASE claiming[r].at = "check"
      <3>1. claiming' = [claiming EXCEPT ![r] = CheckFailed(@)] /\ claims' = claims
        BY <1>2, <2>1 DEF ClaimFail
      <3>2. CheckFailed(claiming[r]).doc.key = claiming[r].doc.key
        BY FailedTyped DEF TypeOK
      <3>3. QED
        BY <3>1, <3>2 DEF KeyOf
    <2>2. QED
      BY <1>2, <2>1 DEF ClaimFail
  <1>3. CASE ClaimNotServed(r) \/ ClaimInsert(r)
    BY <1>3 DEF ClaimNotServed, ClaimInsert
  <1>4. QED
    BY <1>1, <1>2, <1>3 DEF ClaimProgress

\* What becomes of the calls when the network or the service is done with one.
LEMMA BecomesOnly ==
    ASSUME NEW r \in DOMAIN calls, NEW call, Becomes(r, call)
    PROVE  /\ calls[r].waiting => DOMAIN calls' = DOMAIN calls /\ calls'[r] = call
           /\ ~calls[r].waiting => DOMAIN calls' = DOMAIN calls \ {r}
           /\ \A q \in DOMAIN calls : q # r => calls'[q] = calls[q]
  BY DEF Becomes, Drop, Restrict

\* A step that cuts waits short.
SomeCut == (\E r \in ClaimReq : GiveUp(r) \/ Reset(r)) \/ GatewayStops

\* Such a step takes away calls that have been answered or are lost, and is no
\* more to the others than that their clients may wait no longer; of a user who
\* is spared, it only ends the wait for a call that is lost.
LEMMA CutOnly ==
    ASSUME SomeCut
    PROVE  /\ UNCHANGED <<vars, told>>
           /\ DOMAIN calls' \subseteq DOMAIN calls
           /\ \A q \in DOMAIN calls :
                 ~Stage(q, "answered") /\ ~Stage(q, "lost") => q \in DOMAIN calls'
           /\ \A q \in DOMAIN calls' :
                 \E w \in BOOLEAN : /\ calls'[q] = [calls[q] EXCEPT !.waiting = @ /\ w]
                                    /\ calls[q].key.user \in Spared => w
  <1>1. ASSUME NEW R, CutShort(R),
               \A q \in R : Waiting(q) /\ (calls[q].key.user \in Spared => Stage(q, "lost"))
        PROVE  /\ UNCHANGED <<vars, told>>
               /\ DOMAIN calls' \subseteq DOMAIN calls
               /\ \A q \in DOMAIN calls :
                     ~Stage(q, "answered") /\ ~Stage(q, "lost") => q \in DOMAIN calls'
               /\ \A q \in DOMAIN calls' :
                     \E w \in BOOLEAN : /\ calls'[q] = [calls[q] EXCEPT !.waiting = @ /\ w]
                                        /\ calls[q].key.user \in Spared => w
    <2>1. /\ UNCHANGED <<vars, told>>
          /\ DOMAIN calls' = DOMAIN calls \ {q \in R : Stage(q, "answered") \/ Stage(q, "lost")}
          /\ \A q \in DOMAIN calls' : calls'[q] = [calls[q] EXCEPT !.waiting = @ /\ q \notin R]
      BY <1>1 DEF CutShort, Drop, Restrict
    <2>2. ASSUME NEW q \in DOMAIN calls'
          PROVE  \E w \in BOOLEAN : /\ calls'[q] = [calls[q] EXCEPT !.waiting = @ /\ w]
                                    /\ calls[q].key.user \in Spared => w
      <3>1. calls[q].key.user \in Spared => q \notin R
        BY <1>1, <2>1
      <3>2. WITNESS (q \notin R) \in BOOLEAN
      <3>3. QED
        BY <2>1, <3>1
    <2>3. QED
      BY <2>1, <2>2
  <1>2. ASSUME NEW r \in ClaimReq, GiveUp(r) \/ Reset(r)
        PROVE  /\ CutShort({r})
               /\ \A q \in {r} : Waiting(q) /\ (calls[q].key.user \in Spared => Stage(q, "lost"))
    BY <1>2 DEF GiveUp, Reset
  <1>3. ASSUME GatewayStops
        PROVE  \E R : /\ CutShort(R)
                      /\ \A q \in R : Waiting(q) /\ (calls[q].key.user \in Spared => Stage(q, "lost"))
    BY <1>3 DEF GatewayStops
  <1>4. QED
    BY <1>1, <1>2, <1>3 DEF SomeCut

-----------------------------------------------------------------------------
\* To the service, a step of the whole is a step of its own, or none.
LEMMA PlatformStep == CallsTypeOK /\ [CallsNext]_allVars => [Next]_vars
  <1> SUFFICES ASSUME CallsTypeOK, [CallsNext]_allVars PROVE [Next]_vars
    OBVIOUS
  <1>1. ASSUME NEW r \in ClaimReq, Arrive(r) PROVE Next
    <2>1. calls[r].key \in ClaimKey
      BY <1>1 DEF Arrive, Stage, CallsTypeOK, CallDoc
    <2>2. QED
      BY <1>1, <2>1 DEF Arrive, Next, ClaimsMove, ClaimStep
  <1>2. ASSUME NEW r \in ClaimReq, Serve(r) PROVE Next
    BY <1>2 DEF Serve, Next, ClaimsMove, ClaimStep
  <1>3. ASSUME NEW r \in ClaimReq,
               AnswerEarlier(r) \/ Refuse(r) \/ PassOn(r) \/ Lose(r)
        PROVE  UNCHANGED vars
    BY <1>3 DEF AnswerEarlier, Refuse, PassOn, Lose
  <1>4. ASSUME NEW r \in ClaimReq, NEW k \in ClaimKey, Forward(r, k) PROVE UNCHANGED vars
    BY <1>4 DEF Forward
  <1>5. CASE ServiceStops \/ ElseStep
    BY <1>5 DEF ServiceStops, ElseStep, Next
  <1>6. CASE SomeCut \/ UNCHANGED allVars
    BY <1>6, CutOnly DEF allVars
  <1>7. QED
    BY <1>1, <1>2, <1>3, <1>4, <1>5, <1>6 DEF CallsNext, SomeCut

\* An answer, or the loss of one, leaves every other call alone.
LEMMA BecomesTyped ==
    ASSUME CallsTypeOK, NEW r \in DOMAIN calls, NEW call \in CallDoc,
           call.key = calls[r].key, call.stage # "served", Becomes(r, call), UNCHANGED told,
           DOMAIN claiming' = DOMAIN claiming \ {r},
           \A q \in DOMAIN claiming' : KeyOf(q)' = KeyOf(q)
    PROVE  CallsTypeOK'
  <1>1. /\ DOMAIN calls' \subseteq DOMAIN calls
        /\ r \in DOMAIN calls' => calls'[r] = call
        /\ \A q \in DOMAIN calls : q # r => q \in DOMAIN calls' /\ calls'[q] = calls[q]
    BY DEF Becomes, Drop, Restrict
  <1>2. DOMAIN claiming' = {q \in DOMAIN calls' : Stage(q, "served")'}
    BY <1>1 DEF CallsTypeOK, Stage
  <1>3. \A q \in DOMAIN claiming' : KeyOf(q)' = calls'[q].key
    BY <1>1, <1>2 DEF CallsTypeOK
  <1>4. QED
    BY <1>1, <1>2, <1>3 DEF CallsTypeOK

\* Every step keeps the types.
LEMMA CallsTypeStep == TypeOK /\ CallsTypeOK /\ [CallsNext]_allVars => CallsTypeOK'
  <1> SUFFICES ASSUME TypeOK, CallsTypeOK, [CallsNext]_allVars PROVE CallsTypeOK'
    OBVIOUS
  <1>0. TypeOK'
    BY PlatformStep, TypeStep
  <1>1. ASSUME NEW r \in ClaimReq, NEW k \in ClaimKey, Forward(r, k) PROVE CallsTypeOK'
    <2>1. /\ DOMAIN calls' = DOMAIN calls \cup {r} /\ calls'[r] \in CallDoc
          /\ calls'[r].stage = "sent"
          /\ \A q \in DOMAIN calls : calls'[q] = calls[q]
      BY <1>1 DEF Forward, Put, CallDoc
    <2>2. claiming' = claiming /\ told' = told /\ r \notin DOMAIN calls
      BY <1>1 DEF Forward, vars, claimVars
    <2>3. QED
      BY <2>1, <2>2 DEF CallsTypeOK, Stage, KeyOf
  <1>2. ASSUME NEW r \in ClaimReq, Arrive(r) PROVE CallsTypeOK'
    <2>1. /\ r \in DOMAIN calls /\ DOMAIN calls' = DOMAIN calls
          /\ calls'[r] = [calls[r] EXCEPT !.stage = "served"]
          /\ \A q \in DOMAIN calls : q # r => calls'[q] = calls[q]
      BY <1>2 DEF Arrive, Stage
    <2>2. calls'[r] \in CallDoc /\ calls'[r].stage = "served" /\ calls'[r].key = calls[r].key
      BY <2>1 DEF CallsTypeOK, CallDoc
    <2>3. /\ DOMAIN claiming' = DOMAIN claiming \cup {r} /\ told' = told
          /\ claiming'[r].doc.key = calls[r].key
          /\ \A q \in DOMAIN claiming : q # r => claiming'[q] = claiming[q]
      BY <1>2 DEF Arrive, ClaimLookup, Put, NewTask
    <2>4. DOMAIN claiming' = {q \in DOMAIN calls' : Stage(q, "served")'}
      BY <2>1, <2>2, <2>3 DEF CallsTypeOK, Stage
    <2>5. \A q \in DOMAIN claiming' : KeyOf(q)' = calls'[q].key
      BY <2>1, <2>2, <2>3, <2>4 DEF CallsTypeOK, KeyOf
    <2>6. \A q \in DOMAIN calls' : calls'[q] \in CallDoc
      BY <2>1, <2>2 DEF CallsTypeOK
    <2>7. QED
      BY <2>1, <2>3, <2>4, <2>5, <2>6 DEF CallsTypeOK
  <1>3. ASSUME NEW r \in ClaimReq, AnswerEarlier(r) \/ Refuse(r) \/ Lose(r) PROVE CallsTypeOK'
    <2>1. /\ r \in DOMAIN calls /\ r \notin DOMAIN claiming
          /\ claiming' = claiming /\ told' = told
      BY <1>3 DEF AnswerEarlier, Refuse, Lose, Stage, CallsTypeOK, vars, claimVars
    <2>2. DOMAIN claiming' = DOMAIN claiming \ {r} /\ \A q \in DOMAIN claiming' : KeyOf(q)' = KeyOf(q)
      BY <2>1 DEF KeyOf
    <2>3. calls[r] \in CallDoc
      BY <2>1 DEF CallsTypeOK
    <2>4. ASSUME NEW i \in Nat, Answer(r, i) PROVE CallsTypeOK'
      <3> DEFINE call == [calls[r] EXCEPT !.stage = "answered", !.claim = i]
      <3>1. call \in CallDoc /\ call.key = calls[r].key /\ call.stage # "served"
        BY <2>3 DEF CallDoc
      <3>2. Becomes(r, call)
        BY <2>4 DEF Answer
      <3> HIDE DEF call
      <3>3. QED
        BY <2>1, <2>2, <3>1, <3>2, BecomesTyped
    <2>5. CASE Lose(r)
      <3> DEFINE call == [calls[r] EXCEPT !.stage = "lost"]
      <3>1. call \in CallDoc /\ call.key = calls[r].key /\ call.stage # "served"
        BY <2>3 DEF CallDoc
      <3>2. Becomes(r, call)
        BY <2>5 DEF Lose
      <3> HIDE DEF call
      <3>3. QED
        BY <2>1, <2>2, <3>1, <3>2, BecomesTyped
    <2>6. CASE AnswerEarlier(r) \/ Refuse(r)
      <3>1. \E i \in Nat : Answer(r, i)
        <4>1. ClaimsOf(calls[r].key) \subseteq Nat
          BY DEF ClaimsOf, TypeOK
        <4>2. QED
          BY <2>6, <4>1 DEF AnswerEarlier, Refuse
      <3>2. QED
        BY <3>1, <2>4
    <2>7. QED
      BY <1>3, <2>5, <2>6
  <1>4. ASSUME NEW r \in ClaimReq, Serve(r) PROVE CallsTypeOK'
    <2>1. r \in DOMAIN calls /\ r \in DOMAIN claiming /\ told' = told
      BY <1>4 DEF Serve, Stage, CallsTypeOK
    <2>2. CASE r \in DOMAIN claiming'
      <3>1. /\ calls' = calls /\ DOMAIN claiming' = DOMAIN claiming
            /\ \A q \in DOMAIN claiming : KeyOf(q)' = KeyOf(q)
        BY <1>4, <2>1, <2>2, ServedStep DEF Serve, Drop, Restrict
      <3>2. QED
        BY <2>1, <3>1 DEF CallsTypeOK, Stage
    <2>3. CASE r \notin DOMAIN claiming'
      <3>1. /\ DOMAIN claiming' = DOMAIN claiming \ {r}
            /\ \A q \in DOMAIN claiming' : KeyOf(q)' = KeyOf(q)
        BY <1>4, <2>1, <2>3, ServedStep DEF Serve, Drop, Restrict, KeyOf
      <3>2. PICK i \in Nat : Answer(r, i)
        BY <1>0, <1>4, <2>3 DEF Serve, TypeOK
      <3>3. QED
        BY <2>1, <3>1, <3>2, BecomesTyped DEF Answer, CallsTypeOK, CallDoc
    <2>4. QED
      BY <2>2, <2>3
  <1>5. ASSUME NEW r \in ClaimReq, PassOn(r) PROVE CallsTypeOK'
    <2>1. /\ r \in DOMAIN calls /\ r \notin DOMAIN claiming /\ claiming' = claiming
          /\ DOMAIN calls' = DOMAIN calls \ {r}
          /\ \A q \in DOMAIN calls' : calls'[q] = calls[q]
      BY <1>5 DEF PassOn, Stage, CallsTypeOK, vars, claimVars, Drop, Restrict
    <2>2. told' \in [User -> SUBSET Nat]
      <3>1. calls[r].claim \in Nat /\ calls[r].key.user \in User
        BY <2>1 DEF CallsTypeOK, CallDoc, ClaimKey
      <3>2. QED
        BY <1>5, <3>1 DEF PassOn, CallsTypeOK
    <2>3. QED
      BY <2>1, <2>2 DEF CallsTypeOK, Stage, KeyOf
  <1>6. CASE SomeCut
    <2>1. claiming' = claiming /\ told' = told /\ DOMAIN calls' \subseteq DOMAIN calls
      BY <1>6, CutOnly DEF vars, claimVars
    <2>2. \A q \in DOMAIN calls' : /\ calls'[q] \in CallDoc /\ calls'[q].key = calls[q].key
                                   /\ calls'[q].stage = calls[q].stage
      <3> SUFFICES ASSUME NEW q \in DOMAIN calls'
                   PROVE  /\ calls'[q] \in CallDoc /\ calls'[q].key = calls[q].key
                          /\ calls'[q].stage = calls[q].stage
        OBVIOUS
      <3>1. calls[q] \in CallDoc
        BY <2>1 DEF CallsTypeOK
      <3>2. PICK w \in BOOLEAN : calls'[q] = [calls[q] EXCEPT !.waiting = @ /\ w]
        BY <1>6, CutOnly
      <3>3. (calls[q].waiting /\ w) \in BOOLEAN
        OBVIOUS
      <3>4. QED
        BY <3>1, <3>2, <3>3 DEF CallDoc
    <2>3. \A q \in DOMAIN claiming : q \in DOMAIN calls'
      BY <1>6, CutOnly DEF CallsTypeOK, Stage
    <2>4. DOMAIN claiming' = {q \in DOMAIN calls' : Stage(q, "served")'}
      BY <2>1, <2>2, <2>3 DEF CallsTypeOK, Stage
    <2>5. QED
      BY <2>1, <2>2, <2>4 DEF CallsTypeOK, KeyOf
  <1>7. CASE ServiceStops
    <2>1. /\ claiming' = Empty /\ told' = told
          /\ DOMAIN calls' \subseteq DOMAIN calls
          /\ \A q \in DOMAIN calls' :
                calls'[q] = IF Stage(q, "served") THEN [calls[q] EXCEPT !.stage = "answered"]
                                                   ELSE calls[q]
      BY <1>7 DEF ServiceStops, Crash, Drop, Restrict
    <2>2. \A q \in DOMAIN calls' : calls'[q] \in CallDoc /\ calls'[q].stage # "served"
      BY <2>1 DEF CallsTypeOK, CallDoc, Stage
    <2>3. QED
      BY <2>1, <2>2 DEF CallsTypeOK, Stage, Empty
  <1>8. CASE ElseStep \/ UNCHANGED allVars
    <2>1. claiming' = claiming /\ calls' = calls /\ told' = told
      BY <1>8 DEF ElseStep, AttendanceMoves, CatalogMoves, claimVars, callVars, allVars, vars
    <2>2. QED
      BY <2>1 DEF CallsTypeOK, Stage, KeyOf
  <1>9. QED
    BY <1>1, <1>2, <1>3, <1>4, <1>5, <1>6, <1>7, <1>8 DEF CallsNext, SomeCut

CallsInv == TypeOK /\ CallsTypeOK

\* No call is on its way at the start.
LEMMA CallsInvInit == CallsInit => CallsInv
  <1> SUFFICES ASSUME CallsInit PROVE CallsInv
    OBVIOUS
  <1>1. TypeOK
    BY TypeInit DEF CallsInit
  <1>2. CallsTypeOK
    BY DEF CallsInit, Init, ClaimsInit, CallsTypeOK, Empty
  <1>3. QED
    BY <1>1, <1>2 DEF CallsInv

\* The calls and the service behind them keep their types together.
LEMMA CallsInvStep == CallsInv /\ [CallsNext]_allVars => CallsInv'
  BY CallsTypeStep, PlatformStep, TypeStep DEF CallsInv

\* The gateway's calls keep their types, and claim() is busy with just those
\* that are being served.
THEOREM CallsTyped == CallsSpec => []CallsTypeOK
  <1>1. CallsInv => CallsTypeOK
    BY DEF CallsInv
  <1>2. QED
    BY <1>1, CallsInvInit, CallsInvStep, PTL DEF CallsSpec

\* The gateway, its clients and the network make the service do nothing that
\* it does not do without them: what is proved of EventPlatform holds here.
THEOREM GatewayAddsNothing == CallsSpec => Spec
  <1>1. CallsInit => Init
    BY DEF CallsInit
  <1>2. CallsInv /\ [CallsNext]_allVars => [Next]_vars
    BY PlatformStep DEF CallsInv
  <1>3. QED
    BY <1>1, <1>2, CallsInvInit, CallsInvStep, PTL DEF CallsSpec, Spec

-----------------------------------------------------------------------------
\* The claims stay, or the handler of a call being served stores one more.
LEMMA ClaimsGrow ==
    ASSUME CallsInv, [CallsNext]_allVars
    PROVE  \/ claims' = claims
           \/ \E r \in DOMAIN claiming :
                 claims' = Append(claims, claiming[r].doc) /\ claiming' = Drop(claiming, {r})
  <1>1. ASSUME NEW r \in ClaimReq, Serve(r)
        PROVE  \/ claims' = claims
               \/ r \in DOMAIN claiming /\ claims' = Append(claims, claiming[r].doc)
                     /\ claiming' = Drop(claiming, {r})
    <2>1. r \in DOMAIN claiming
      BY <1>1 DEF Serve, Stage, CallsInv, CallsTypeOK
    <2>2. QED
      BY <1>1, <2>1, ServedStep DEF Serve, CallsInv
  <1>2. ASSUME NEW r \in ClaimReq,
               Arrive(r) \/ AnswerEarlier(r) \/ Refuse(r) \/ PassOn(r) \/ Lose(r)
        PROVE  claims' = claims
    BY <1>2 DEF Arrive, ClaimLookup, AnswerEarlier, Refuse, PassOn, Lose, vars, claimVars
  <1>3. ASSUME NEW r \in ClaimReq, NEW k \in ClaimKey, Forward(r, k) PROVE claims' = claims
    BY <1>3 DEF Forward, vars, claimVars
  <1>4. CASE ServiceStops \/ ElseStep \/ UNCHANGED allVars
    BY <1>4 DEF ServiceStops, Crash, ElseStep, AttendanceMoves, CatalogMoves, allVars, vars, claimVars
  <1>5. CASE SomeCut
    BY <1>5, CutOnly DEF vars, claimVars
  <1>6. QED
    BY <1>1, <1>2, <1>3, <1>4, <1>5 DEF CallsNext, SomeCut

\* No step takes a claim away or changes it.
LEMMA ClaimsStay ==
    ASSUME CallsInv, [CallsNext]_allVars, NEW i \in DOMAIN claims
    PROVE  i \in DOMAIN claims' /\ claims'[i] = claims[i]
  <1>1. claims \in Seq(ClaimDoc)
    BY DEF CallsInv, TypeOK
  <1>2. ASSUME NEW r \in DOMAIN claiming, claims' = Append(claims, claiming[r].doc)
        PROVE  i \in DOMAIN claims' /\ claims'[i] = claims[i]
    <2>1. claiming[r].doc \in ClaimDoc
      BY DEF CallsInv, TypeOK, ClaimTask
    <2>2. QED
      BY <1>1, <1>2, <2>1
  <1>3. QED
    BY <1>2, ClaimsGrow

\* A call keeps its user and event, its client waits on if it is spared, and
\* the answer it gets is an error or a claim of its own.
Continues(q) ==
    /\ q \in DOMAIN calls /\ calls'[q].key = calls[q].key
    /\ calls[q].waiting /\ calls[q].key.user \in Spared => calls'[q].waiting
    /\ \/ calls'[q].claim \in {0, calls[q].claim}
       \/ /\ calls'[q].claim \in DOMAIN claims'
          /\ claims'[calls'[q].claim].key = calls[q].key

\* Unless a call is forwarded, the calls after a step are calls from before,
\* each with the answer it had, none, or one that is true.
LEMMA CallsContinue ==
    ASSUME CallsInv, [CallsNext]_allVars,
           \A r \in ClaimReq, k \in ClaimKey : ~Forward(r, k)
    PROVE  \A q \in DOMAIN calls' : Continues(q)
  <1>1. \A q \in DOMAIN calls : calls[q] \in CallDoc
    BY DEF CallsInv, CallsTypeOK
  <1>2. ASSUME NEW r \in DOMAIN calls, NEW i, Answer(r, i),
               i = 0 \/ (i \in DOMAIN claims' /\ claims'[i].key = calls[r].key)
        PROVE  \A q \in DOMAIN calls' : Continues(q)
    <2> DEFINE call == [calls[r] EXCEPT !.stage = "answered", !.claim = i]
    <2>1. call.key = calls[r].key /\ call.waiting = calls[r].waiting /\ call.claim = i
      BY <1>1 DEF CallDoc
    <2>2. Becomes(r, call)
      BY <1>2 DEF Answer
    <2> HIDE DEF call
    <2>3. /\ DOMAIN calls' \subseteq DOMAIN calls
          /\ r \in DOMAIN calls' => calls'[r] = call
          /\ \A q \in DOMAIN calls : q # r => calls'[q] = calls[q]
      BY <2>2, BecomesOnly
    <2>4. QED
      BY <1>2, <2>1, <2>3 DEF Continues
  <1>3. ASSUME NEW r \in ClaimReq, AnswerEarlier(r) PROVE \A q \in DOMAIN calls' : Continues(q)
    <2>1. r \in DOMAIN calls /\ claims' = claims
      BY <1>3 DEF AnswerEarlier, Stage, vars, claimVars
    <2>2. PICK i \in DOMAIN claims : claims[i].key = calls[r].key /\ Answer(r, i)
      BY <1>3 DEF AnswerEarlier, ClaimsOf
    <2>3. QED
      BY <1>2, <2>1, <2>2
  <1>4. ASSUME NEW r \in ClaimReq, Refuse(r) PROVE \A q \in DOMAIN calls' : Continues(q)
    BY <1>2, <1>4 DEF Refuse, Stage
  <1>5. ASSUME NEW r \in ClaimReq, Serve(r) PROVE \A q \in DOMAIN calls' : Continues(q)
    <2>1. r \in DOMAIN calls /\ r \in DOMAIN claiming /\ KeyOf(r) = calls[r].key
      BY <1>5 DEF Serve, Stage, CallsInv, CallsTypeOK
    <2>2. CASE calls' = calls
      BY <2>2 DEF Continues
    <2>3. CASE Answer(r, IF claims' = claims THEN 0 ELSE Len(claims'))
      <3>1. CASE claims' = claims
        BY <1>2, <2>1, <2>3, <3>1
      <3>2. CASE claims' # claims
        <4>1. claims' = Append(claims, claiming[r].doc) /\ claiming[r].doc \in ClaimDoc
          BY <1>5, <2>1, <3>2, ServedStep DEF Serve, CallsInv, TypeOK, ClaimTask
        <4>2. Len(claims') \in DOMAIN claims' /\ claims'[Len(claims')].key = calls[r].key
          <5>1. claims \in Seq(ClaimDoc)
            BY DEF CallsInv, TypeOK
          <5>2. Len(claims') \in DOMAIN claims' /\ claims'[Len(claims')] = claiming[r].doc
            BY <4>1, <5>1
          <5>3. QED
            BY <2>1, <5>2 DEF KeyOf
        <4>3. QED
          BY <1>2, <2>1, <2>3, <3>2, <4>2
      <3>3. QED
        BY <3>1, <3>2
    <2>4. QED
      BY <1>5, <2>2, <2>3 DEF Serve
  <1>6. ASSUME NEW r \in ClaimReq, Arrive(r) PROVE \A q \in DOMAIN calls' : Continues(q)
    BY <1>1, <1>6 DEF Arrive, Stage, CallDoc, Continues
  <1>7. ASSUME NEW r \in ClaimReq, PassOn(r) PROVE \A q \in DOMAIN calls' : Continues(q)
    BY <1>7 DEF PassOn, Drop, Restrict, Continues
  <1>8. CASE SomeCut
    <2> SUFFICES ASSUME NEW q \in DOMAIN calls' PROVE Continues(q)
      OBVIOUS
    <2>1. q \in DOMAIN calls /\ calls[q] \in CallDoc
      BY <1>1, <1>8, CutOnly
    <2>2. PICK w \in BOOLEAN : /\ calls'[q] = [calls[q] EXCEPT !.waiting = @ /\ w]
                               /\ calls[q].key.user \in Spared => w
      BY <1>8, CutOnly
    <2>3. QED
      BY <2>1, <2>2 DEF CallDoc, Continues
  <1>9. ASSUME NEW r \in ClaimReq, Lose(r) PROVE \A q \in DOMAIN calls' : Continues(q)
    <2> DEFINE call == [calls[r] EXCEPT !.stage = "lost"]
    <2>1. r \in DOMAIN calls /\ Becomes(r, call)
      BY <1>9 DEF Lose, Stage
    <2>2. call.key = calls[r].key /\ call.waiting = calls[r].waiting /\ call.claim = calls[r].claim
      BY <1>1, <2>1 DEF CallDoc
    <2> HIDE DEF call
    <2>3. /\ DOMAIN calls' \subseteq DOMAIN calls
          /\ r \in DOMAIN calls' => calls'[r] = call
          /\ \A q \in DOMAIN calls : q # r => calls'[q] = calls[q]
      BY <2>1, BecomesOnly
    <2>4. QED
      BY <2>2, <2>3 DEF Continues
  <1>10. CASE ServiceStops
    BY <1>1, <1>10 DEF ServiceStops, Drop, Restrict, CallDoc, Continues
  <1>11. CASE ElseStep \/ UNCHANGED allVars
    BY <1>11 DEF ElseStep, allVars, callVars, Continues
  <1>12. QED
    BY <1>3, <1>4, <1>5, <1>6, <1>7, <1>8, <1>9, <1>10, <1>11 DEF CallsNext, SomeCut

\* The users' answers grow by the claims that their calls were answered with.
LEMMA ToldGrows ==
    ASSUME CallsInv, [CallsNext]_allVars, NEW u \in User, NEW i \in told'[u]
    PROVE  \/ i \in told[u]
           \/ \E r \in DOMAIN calls : calls[r].key.user = u /\ calls[r].claim = i /\ i # 0
  <1>1. ASSUME NEW r \in ClaimReq, PassOn(r)
        PROVE  \/ i \in told[u]
               \/ \E q \in DOMAIN calls : calls[q].key.user = u /\ calls[q].claim = i /\ i # 0
    <2>1. told \in [User -> SUBSET Nat] /\ r \in DOMAIN calls
      BY <1>1 DEF PassOn, Stage, CallsInv, CallsTypeOK
    <2>2. told'[u] = IF u = calls[r].key.user THEN told[u] \cup ({calls[r].claim} \ {0}) ELSE told[u]
      BY <1>1, <2>1 DEF PassOn
    <2>3. QED
      BY <2>1, <2>2
  <1>2. ASSUME NEW r \in ClaimReq,
               Arrive(r) \/ AnswerEarlier(r) \/ Refuse(r) \/ Serve(r) \/ Lose(r)
        PROVE  told' = told
    BY <1>2 DEF Arrive, AnswerEarlier, Refuse, Serve, Lose
  <1>3. ASSUME NEW r \in ClaimReq, NEW k \in ClaimKey, Forward(r, k) PROVE told' = told
    BY <1>3 DEF Forward
  <1>4. CASE SomeCut \/ ServiceStops \/ ElseStep \/ UNCHANGED allVars
    BY <1>4, CutOnly DEF ServiceStops, ElseStep, callVars, allVars
  <1>5. QED
    BY <1>1, <1>2, <1>3, <1>4 DEF CallsNext, SomeCut

\* What is behind AnswersTrue: an answer is a claim that is stored, of the user
\* who is told of it.
AnswersStored ==
    /\ \A u \in User : \A i \in told[u] : i \in DOMAIN claims /\ claims[i].key.user = u
    /\ \A r \in DOMAIN calls :
           calls[r].claim # 0 => /\ calls[r].claim \in DOMAIN claims
                                 /\ claims[calls[r].claim].key = calls[r].key

\* Claims stay, so what a user was answered with, or is about to be, stays true.
LEMMA AnswersStep == CallsInv /\ AnswersStored /\ [CallsNext]_allVars => AnswersStored'
  <1> SUFFICES ASSUME CallsInv, AnswersStored, [CallsNext]_allVars PROVE AnswersStored'
    OBVIOUS
  <1>1. ASSUME NEW u \in User, NEW i \in told'[u]
        PROVE  i \in DOMAIN claims' /\ claims'[i].key.user = u
    <2>1. i \in DOMAIN claims /\ claims[i].key.user = u
      BY <1>1, ToldGrows DEF AnswersStored
    <2>2. QED
      BY <2>1, ClaimsStay
  <1>2. ASSUME NEW q \in DOMAIN calls', calls'[q].claim # 0
        PROVE  /\ calls'[q].claim \in DOMAIN claims'
               /\ claims'[calls'[q].claim].key = calls'[q].key
    <2>1. CASE \E r \in ClaimReq, k \in ClaimKey : Forward(r, k)
      <3>1. q \in DOMAIN calls /\ calls'[q] = calls[q]
        BY <1>2, <2>1 DEF Forward, Put
      <3>2. QED
        BY <1>2, <3>1, ClaimsStay DEF AnswersStored
    <2>2. CASE ~\E r \in ClaimReq, k \in ClaimKey : Forward(r, k)
      <3>1. Continues(q)
        BY <2>2, CallsContinue
      <3>2. calls[q].claim # 0 => calls[q].claim \in DOMAIN claims
                                  /\ claims[calls[q].claim].key = calls[q].key
        BY <3>1 DEF Continues, AnswersStored
      <3>3. QED
        BY <1>2, <3>1, <3>2, ClaimsStay DEF Continues
    <2>3. QED
      BY <2>1, <2>2
  <1>3. QED
    BY <1>1, <1>2 DEF AnswersStored

\* Whatever a user is answered with is there for good, in the user's listing
\* and in the staff's, for any users, crashes, losses and timeouts.
THEOREM AnswersAreTrue == CallsSpec => []AnswersTrue
  <1>1. CallsInit => AnswersStored
    BY DEF CallsInit, Empty, AnswersStored
  <1>2. CallsInv /\ AnswersStored => AnswersTrue
    <2> SUFFICES ASSUME CallsInv, AnswersStored, NEW u \in User, NEW i \in told[u]
                 PROVE  /\ i \in GatewayListing(u, {"USER"})
                        /\ i \in Listing(u, {"AUDITOR"},
                                 [NoFilter EXCEPT !.user = {u}, !.status = {claims[i].status}])
      BY DEF AnswersTrue, AnswersStored, ClaimsOf
    <2>1. i \in DOMAIN claims /\ claims[i].key.user = u
      BY DEF AnswersStored
    <2>2. QED
      BY <2>1 DEF GatewayListing, Listing, FindClaims, NoFilter
  <1>3. QED
    BY <1>1, <1>2, AnswersStep, CallsInvInit, CallsInvStep, PTL DEF CallsSpec

-----------------------------------------------------------------------------
\* A handler that begins has found no claim with its key.
LEMMA HandlersBegin ==
    ASSUME CallsInv, [CallsNext]_allVars, NEW q \in DOMAIN claiming', q \notin DOMAIN claiming
    PROVE  claims' = claims /\ \A i \in DOMAIN claims : claims[i].key # claiming'[q].doc.key
  <1>1. ASSUME NEW r \in ClaimReq, Serve(r) PROVE FALSE
    <2>1. r \in DOMAIN claiming
      BY <1>1 DEF Serve, Stage, CallsInv, CallsTypeOK
    <2>2. QED
      BY <1>1, <2>1, ServedStep DEF Serve, CallsInv, Drop, Restrict
  <1>2. ASSUME NEW r \in ClaimReq,
               AnswerEarlier(r) \/ Refuse(r) \/ PassOn(r) \/ Lose(r)
        PROVE  FALSE
    BY <1>2 DEF AnswerEarlier, Refuse, PassOn, Lose, vars, claimVars
  <1>3. ASSUME NEW r \in ClaimReq, NEW k \in ClaimKey, Forward(r, k) PROVE FALSE
    BY <1>3 DEF Forward, vars, claimVars
  <1>4. ~(SomeCut \/ ServiceStops \/ ElseStep \/ UNCHANGED allVars)
    BY CutOnly DEF ServiceStops, Crash, Empty, ElseStep, AttendanceMoves, CatalogMoves, allVars, vars, claimVars
  <1>5. PICK r \in ClaimReq : Arrive(r)
    BY <1>1, <1>2, <1>3, <1>4 DEF CallsNext, SomeCut
  <1>6. q = r /\ claiming'[q].doc.key = calls[r].key /\ ClaimsOf(calls[r].key) = {}
    BY <1>5 DEF Arrive, ClaimLookup, Put, NewTask
  <1>7. QED
    BY <1>5, <1>6 DEF Arrive, ClaimLookup, ClaimsOf

\* Whoever waits for answers, and whose waits are not cut short, has one claim
\* of an event.
PromisedUnique ==
    \A i, j \in DOMAIN claims :
        claims[i].key = claims[j].key /\ claims[i].key.user \in PromisedOne => i = j

\* What keeps these claims unique: such a user has one call in flight, for whose
\* key, if it is being served, there is no claim yet.
CarefulInv ==
    /\ \A r \in DOMAIN calls : calls[r].key.user \in PromisedOne => calls[r].waiting
    /\ \A r, q \in DOMAIN calls :
           calls[r].key.user = calls[q].key.user /\ calls[r].key.user \in PromisedOne => r = q
    /\ \A r \in DOMAIN claiming, i \in DOMAIN claims :
           claims[i].key = KeyOf(r) => claims[i].key.user \notin PromisedOne
    /\ PromisedUnique

\* Such a user comes by no second call, request or claim in a step.
LEMMA CarefulStep ==
    ASSUME CallsInv, CallsInv', CarefulInv, [CallsNext]_allVars
    PROVE  CarefulInv'
  <1>1. /\ \A r \in DOMAIN calls' : calls'[r].key.user \in PromisedOne => calls'[r].waiting
        /\ \A r, q \in DOMAIN calls' :
              calls'[r].key.user = calls'[q].key.user /\ calls'[r].key.user \in PromisedOne => r = q
    <2>1. CASE \E r \in ClaimReq, k \in ClaimKey : Forward(r, k)
      BY <2>1 DEF Forward, Put, Waits, Waiting, CarefulInv, PromisedOne
    <2>2. CASE ~\E r \in ClaimReq, k \in ClaimKey : Forward(r, k)
      BY <2>2, CallsContinue DEF Continues, CarefulInv, PromisedOne
    <2>3. QED
      BY <2>1, <2>2
  <1>2. ASSUME NEW r \in DOMAIN claiming', r \in DOMAIN claiming
        PROVE  KeyOf(r)' = KeyOf(r) /\ r \in DOMAIN calls /\ KeyOf(r) = calls[r].key
    <2>1. /\ r \in DOMAIN calls /\ r \in DOMAIN calls'
          /\ KeyOf(r) = calls[r].key /\ KeyOf(r)' = calls'[r].key
      BY <1>2 DEF CallsInv, CallsTypeOK
    <2>2. calls'[r].key = calls[r].key
      <3>1. CASE \E q \in ClaimReq, k \in ClaimKey : Forward(q, k)
        BY <2>1, <3>1 DEF Forward, Put
      <3>2. CASE ~\E q \in ClaimReq, k \in ClaimKey : Forward(q, k)
        BY <2>1, <3>2, CallsContinue DEF Continues
      <3>3. QED
        BY <3>1, <3>2
    <2>3. QED
      BY <2>1, <2>2
  <1>3. CASE claims' = claims
    <2>1. \A r \in DOMAIN claiming', i \in DOMAIN claims' :
              claims'[i].key = KeyOf(r)' => claims'[i].key.user \notin PromisedOne
      BY <1>2, <1>3, HandlersBegin DEF CarefulInv, KeyOf
    <2>2. QED
      BY <1>1, <1>3, <2>1 DEF CarefulInv, PromisedUnique
  <1>4. ASSUME NEW r \in DOMAIN claiming, claims' = Append(claims, claiming[r].doc),
               claiming' = Drop(claiming, {r})
        PROVE  CarefulInv'
    <2>1. claims \in Seq(ClaimDoc) /\ claiming[r].doc \in ClaimDoc
      BY DEF CallsInv, TypeOK, ClaimTask
    <2>2. /\ DOMAIN claims' = 1 .. Len(claims) + 1
          /\ claims'[Len(claims) + 1].key = KeyOf(r)
          /\ \A i \in DOMAIN claims : claims'[i] = claims[i]
          /\ DOMAIN claims = 1 .. Len(claims) /\ Len(claims) \in Nat
      BY <1>4, <2>1 DEF KeyOf
    <2>3. r \in DOMAIN calls /\ KeyOf(r) = calls[r].key
      BY DEF CallsInv, CallsTypeOK
    <2>4. ASSUME NEW q \in DOMAIN claiming', NEW i \in DOMAIN claims', claims'[i].key = KeyOf(q)'
          PROVE  claims'[i].key.user \notin PromisedOne
      <3>1. q \in DOMAIN claiming /\ q # r
        BY <1>4 DEF Drop, Restrict
      <3>2. KeyOf(q)' = KeyOf(q) /\ q \in DOMAIN calls /\ KeyOf(q) = calls[q].key
        BY <1>2, <3>1
      <3>3. CASE i \in DOMAIN claims
        BY <2>2, <2>4, <3>1, <3>2, <3>3 DEF CarefulInv
      <3>4. CASE i \notin DOMAIN claims
        BY <2>2, <2>3, <2>4, <3>1, <3>2, <3>4 DEF CarefulInv
      <3>5. QED
        BY <3>3, <3>4
    <2>5. PromisedUnique'
      <3>1. ASSUME NEW i \in DOMAIN claims, claims[i].key = KeyOf(r) PROVE KeyOf(r).user \notin PromisedOne
        BY <3>1 DEF CarefulInv
      <3>2. QED
        BY <2>2, <3>1 DEF CarefulInv, PromisedUnique
    <2>6. QED
      BY <1>1, <2>4, <2>5 DEF CarefulInv
  <1>5. QED
    BY <1>3, <1>4, ClaimsGrow

\* Users who wait for answers and whose waits nothing cuts short have one claim
\* of an event, whatever is lost, fails or restarts in the service, and whatever
\* becomes of the waits of others.
THEOREM PromisedUsers == CallsSpec => []PromisedUnique
  <1>1. CallsInit => CarefulInv
    BY DEF CallsInit, Init, ClaimsInit, Empty, CarefulInv, PromisedUnique
  <1>2. CallsInv /\ CallsInv' /\ CarefulInv /\ [CallsNext]_allVars => CarefulInv'
    BY CarefulStep
  <1>3. CarefulInv => PromisedUnique
    BY DEF CarefulInv
  <1>4. QED
    BY <1>1, <1>2, <1>3, CallsInvInit, CallsInvStep, PTL DEF CallsSpec

\* If nothing cuts the wait of any careful user short, neither the timeout nor a
\* broken connection nor a stop of the gateway, README's sentence holds of all
\* of them.
THEOREM CarefulUsers ==
    ASSUME Careful \subseteq Spared
    PROVE  CallsSpec => []CarefulUnique
  <1>1. PromisedUnique => CarefulUnique
    BY DEF PromisedUnique, CarefulUnique, PromisedOne
  <1>2. QED
    BY <1>1, PromisedUsers, PTL

-----------------------------------------------------------------------------
\* The book, and what users know of it, as BookSpec has them.
Verdicts == {VerdictOf(i) : i \in DOMAIN claims}

ToldVerdicts == [u \in User |-> {VerdictOf(i) : i \in told[u]}]

\* What there is to know of the whole.
BookInv == CallsInv /\ AnswersStored /\ CarefulInv

\* Every step keeps what there is to know.
LEMMA BookInvStep == BookInv /\ [CallsNext]_allVars => BookInv'
  BY CallsInvStep, AnswersStep, CarefulStep DEF BookInv

\* A verdict that is passed on is in the book, and on the user who is told.
LEMMA PassOnTells ==
    ASSUME BookInv, NEW r \in ClaimReq, PassOn(r)
    PROVE  Book!Next \/ UNCHANGED <<Verdicts, ToldVerdicts>>
  <1> DEFINE i == calls[r].claim
             u == calls[r].key.user
  <1>1. claims' = claims /\ r \in DOMAIN calls
    BY DEF PassOn, Stage, vars, claimVars
  <1>2. Verdicts' = Verdicts /\ \A j \in DOMAIN claims : VerdictOf(j)' = VerdictOf(j)
    BY <1>1 DEF Verdicts, VerdictOf
  <1>3. /\ told' = [told EXCEPT ![u] = @ \cup ({i} \ {0})]
        /\ told \in [User -> SUBSET Nat] /\ u \in User
    BY <1>1 DEF PassOn, BookInv, CallsInv, CallsTypeOK, CallDoc, ClaimKey
  <1> HIDE DEF u
  <1>4. CASE i = 0
    <2>1. told' = told
      BY <1>3, <1>4
    <2>2. QED
      BY <1>1, <1>2, <2>1 DEF ToldVerdicts, VerdictOf
  <1>5. CASE i # 0
    <2>1. i \in DOMAIN claims /\ claims[i].key.user = u
      BY <1>1, <1>5 DEF BookInv, AnswersStored, u
    <2>2. VerdictOf(i) \in Verdicts /\ VerdictOf(i).key.user = u
      BY <2>1 DEF Verdicts, VerdictOf
    <2>3. ToldVerdicts' = [ToldVerdicts EXCEPT ![u] = @ \cup {VerdictOf(i)}]
      <3> SUFFICES ASSUME NEW w \in User
                   PROVE  {VerdictOf(j) : j \in told[w]}' =
                             IF w = u THEN {VerdictOf(j) : j \in told[w]} \cup {VerdictOf(i)}
                                      ELSE {VerdictOf(j) : j \in told[w]}
        BY <1>3 DEF ToldVerdicts
      <3>1. told'[w] = IF w = u THEN told[w] \cup {i} ELSE told[w]
        BY <1>3, <1>5
      <3> HIDE DEF i
      <3>2. QED
        BY <1>1, <3>1 DEF VerdictOf
    <2> HIDE DEF i
    <2>4. PICK v \in Verdicts : v = VerdictOf(i)
      BY <2>2
    <2>5. Book!Tell(v)
      BY <1>2, <2>2, <2>3, <2>4 DEF Book!Tell, Verdicts, ToldVerdicts
    <2>6. QED
      BY <2>5 DEF Book!Next, Verdicts
  <1>6. QED
    BY <1>4, <1>5

\* A claim that is stored is a new verdict, and the first one on its event of a
\* user who is promised one.
LEMMA InsertEnters ==
    ASSUME BookInv, NEW r \in DOMAIN claiming, claims' = Append(claims, claiming[r].doc),
           told' = told
    PROVE  Book!Next
  <1>1. claims \in Seq(ClaimDoc) /\ claiming[r].doc \in ClaimDoc
    BY DEF BookInv, CallsInv, TypeOK, ClaimTask
  <1>2. PICK n \in Nat :
            /\ DOMAIN claims' = DOMAIN claims \cup {n} /\ n \notin DOMAIN claims
            /\ claims'[n] = claiming[r].doc
            /\ \A i \in DOMAIN claims : claims'[i] = claims[i]
    <2>1. /\ DOMAIN claims = 1 .. Len(claims) /\ Len(claims) \in Nat
          /\ DOMAIN claims' = 1 .. Len(claims) + 1
          /\ claims'[Len(claims) + 1] = claiming[r].doc
          /\ \A i \in DOMAIN claims : claims'[i] = claims[i]
      BY <1>1
    <2>2. QED
      BY <2>1
  <1> DEFINE v == [key |-> claiming[r].doc.key, claim |-> n, status |-> claiming[r].doc.status]
  <1>3. /\ \A i \in DOMAIN claims : VerdictOf(i)' = VerdictOf(i)
        /\ VerdictOf(n)' = v
    BY <1>2 DEF VerdictOf
  <1>4. Verdicts' = Verdicts \cup {v}
    BY <1>2, <1>3 DEF Verdicts
  <1>5. ToldVerdicts' = ToldVerdicts
    <2>1. \A u \in User : told[u] \subseteq DOMAIN claims
      BY DEF BookInv, AnswersStored
    <2>2. ASSUME NEW u \in User
          PROVE  {VerdictOf(i) : i \in told[u]}' = {VerdictOf(i) : i \in told[u]}
      BY <1>3, <2>1
    <2>3. QED
      BY <2>2 DEF ToldVerdicts
  <1>6. \A w \in Verdicts : w.claim # v.claim
    BY <1>2 DEF Verdicts, VerdictOf
  <1>7. v.key.user \in PromisedOne => \A w \in Verdicts : w.key # v.key
    BY DEF BookInv, CarefulInv, KeyOf, Verdicts, VerdictOf
  <1> HIDE DEF v
  <1>8. Book!Enter(v)
    BY <1>4, <1>5, <1>6, <1>7 DEF Book!Enter, Verdicts, ToldVerdicts
  <1>9. QED
    BY <1>4, <1>8 DEF Book!Next, Verdicts

\* Every step of the whole enters a verdict, tells of one, or is none to users.
LEMMA BookStep ==
    BookInv /\ [CallsNext]_allVars => Book!Next \/ UNCHANGED <<Verdicts, ToldVerdicts>>
  <1> SUFFICES ASSUME BookInv, [CallsNext]_allVars,
                      \A r \in ClaimReq : ~PassOn(r)
               PROVE  Book!Next \/ UNCHANGED <<Verdicts, ToldVerdicts>>
    BY PassOnTells
  <1>1. told' = told
    BY CutOnly DEF CallsNext, SomeCut, Forward, Arrive, AnswerEarlier, Refuse, Serve, Lose,
                   ServiceStops, ElseStep, callVars, allVars
  <1>2. CASE claims' = claims
    BY <1>1, <1>2 DEF Verdicts, ToldVerdicts, VerdictOf
  <1>3. CASE \E r \in DOMAIN claiming : claims' = Append(claims, claiming[r].doc)
    BY <1>1, <1>3, InsertEnters
  <1>4. QED
    BY <1>2, <1>3, ClaimsGrow DEF BookInv

\* To its users the whole is a book of verdicts, for any users and events, and
\* any number of calls, lost or not; careful users whose waits nothing cuts short
\* are promised one verdict on an event.
THEOREM BookImplemented == CallsSpec => BookSpec
  <1>1. CallsInit => BookInv /\ Book!Init
    <2> SUFFICES ASSUME CallsInit PROVE BookInv /\ Book!Init
      OBVIOUS
    <2>1. claims = <<>> /\ claiming = Empty /\ calls = Empty /\ told = [u \in User |-> {}]
      BY DEF CallsInit, Init, ClaimsInit
    <2>2. AnswersStored /\ CarefulInv
      BY <2>1 DEF Empty, AnswersStored, CarefulInv, PromisedUnique
    <2>3. QED
      BY <2>1, <2>2, CallsInvInit DEF BookInv, Book!Init
  <1>2. BookInv /\ [CallsNext]_allVars => [Book!Next]_<<Verdicts, ToldVerdicts>>
    BY BookStep
  <1>3. QED
    BY <1>1, <1>2, BookInvStep, PTL DEF CallsSpec, BookSpec, Book!Spec, Verdicts, ToldVerdicts

-----------------------------------------------------------------------------
\* What users may rely on, of a book of verdicts and what is told of it.
KeptIn(book, known) ==
    /\ \A u \in User : \A v \in known[u] : v \in book /\ v.key.user = u
    /\ \A v, w \in book : v.claim = w.claim => v = w
    /\ \A v, w \in book : v.key = w.key /\ v.key.user \in PromisedOne => v = w

\* An entry that the book does not have yet, and for a user who is promised one
\* verdict not on the same key, harms nothing.
LEMMA EntryKeeps ==
    ASSUME NEW book, NEW known, NEW v, KeptIn(book, known),
           \A w \in book : w.claim # v.claim,
           v.key.user \in PromisedOne => \A w \in book : w.key # v.key
    PROVE  KeptIn(book \cup {v}, known)
  <1>1. \A w, x \in book \cup {v} : w.claim = x.claim => w = x
    BY DEF KeptIn
  <1>2. \A w, x \in book \cup {v} : w.key = x.key /\ w.key.user \in PromisedOne => w = x
    BY DEF KeptIn
  <1>3. QED
    BY <1>1, <1>2 DEF KeptIn

\* The book keeps what users may rely on.
THEOREM BookIsKept == BookSpec => []Book!Kept
  <1>1. /\ Book!Kept <=> KeptIn(Verdicts, ToldVerdicts)
        /\ Book!Kept' <=> KeptIn(Verdicts', ToldVerdicts')
    BY DEF Book!Kept, KeptIn, Verdicts, ToldVerdicts
  <1>2. Book!Init => Book!Kept
    BY DEF Book!Init, Book!Kept
  <1>3. ASSUME Book!Kept, NEW v \in Verdicts', Book!Enter(v) PROVE Book!Kept'
    <2>1. /\ Verdicts' = Verdicts \cup {v} /\ ToldVerdicts' = ToldVerdicts
          /\ \A w \in Verdicts : w.claim # v.claim
          /\ v.key.user \in PromisedOne => \A w \in Verdicts : w.key # v.key
      BY <1>3 DEF Book!Enter, Verdicts, ToldVerdicts
    <2> HIDE DEF Verdicts, ToldVerdicts
    <2>2. QED
      BY <1>1, <1>3, <2>1, EntryKeeps
  <1>4. ASSUME Book!Kept, NEW v \in Verdicts, Book!Tell(v) PROVE Book!Kept'
    <2>1. /\ Verdicts' = Verdicts
          /\ ToldVerdicts' = [ToldVerdicts EXCEPT ![v.key.user] = @ \cup {v}]
      BY <1>4 DEF Book!Tell, Verdicts, ToldVerdicts
    <2>2. DOMAIN ToldVerdicts = User
      BY DEF ToldVerdicts
    <2>3. KeptIn(Verdicts, ToldVerdicts)
      BY <1>1, <1>4
    <2>4. \A u \in User : \A w \in ToldVerdicts'[u] : w \in Verdicts /\ w.key.user = u
      BY <1>4, <2>1, <2>2, <2>3 DEF KeptIn
    <2>5. KeptIn(Verdicts', ToldVerdicts')
      BY <2>1, <2>3, <2>4 DEF KeptIn
    <2>6. QED
      BY <1>1, <2>5
  <1>5. Book!Kept /\ [Book!Next]_<<Verdicts, ToldVerdicts>> => Book!Kept'
    <2>1. CASE UNCHANGED <<Verdicts, ToldVerdicts>>
      BY <1>1, <2>1
    <2>2. CASE Book!Next
      BY <1>3, <1>4, <2>2 DEF Book!Next, Verdicts
    <2>3. QED
      BY <2>1, <2>2
  <1>6. QED
    BY <1>2, <1>5, PTL DEF BookSpec, Book!Spec, Verdicts, ToldVerdicts

-----------------------------------------------------------------------------
\* Through the gateway, attendance, the catalog and the collection of claims
\* still do only what they do alone.
THEOREM ServedThroughGateway == CallsSpec => AttendanceSpec /\ CatalogSpec /\ LedgerSpec
  BY GatewayAddsNothing, ComponentsImplemented, LedgerImplemented

\* Whatever gets lost between user and service, claimed twice or given up: every
\* verdict is sound, two claims of an event have raced, and a claim without a
\* request in flight is final.
THEOREM ClaimsThroughGateway ==
    CallsSpec => [](VerdictSound /\ ClaimDuplicatesRaced) /\ ClaimSettledForever
  BY GatewayAddsNothing, VerdictsSound, ClaimsRaced, ClaimsSettled, PTL

\* No claim that is made through the gateway is rejected of a user who met the
\* condition when the check began, unless a call of the check has failed.
THEOREM EligibleThroughGateway == CallsSpec => []EligibleNotRejected
  BY GatewayAddsNothing, EligibleAccepted

\* In any time zone, whenever its clock changes, a PENDING claim of a streak that
\* is made through the gateway has for each of its days a log of that day or of
\* the day before.
THEOREM StreaksThroughGateway ==
    ASSUME Zone(Int)
    PROVE  CallsSpec => []StreakDays
  BY GatewayAddsNothing, StreaksLogged
=============================================================================
