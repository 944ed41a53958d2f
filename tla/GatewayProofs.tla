---------------------------- MODULE GatewayProofs ----------------------------
(***************************************************************************)
(* The authority of calls, proved for any accounts and roles, any number   *)
(* of calls and tokens, and any delay between reading an account, signing  *)
(* its token, sending a call and taking it up.                             *)
(***************************************************************************)
EXTENDS Gateway, UserRolesProofs

\* An account read, and a token signed, had its roles at that instant or later.
HeldSince(doc) ==
    /\ doc.readAt <= now
    /\ \A x \in doc.roles : doc.readAt <= lastHeld[doc.account][x]

TokenSound(token) ==
    /\ HeldSince(token)
    /\ token.readAt <= token.signedAt /\ token.signedAt <= now

\* A call has passed the RolesGuard of the gateway, or its service has a port
\* of its own that clients reach.
Passed(token, route) == MayCall(token, route) \/ ServiceOf(route) \in Published

AuthoritySound ==
    /\ \A p \in signing : HeldSince(p)
    /\ \A token \in tokens : TokenSound(token)
    /\ \A q \in DOMAIN calls :
           TokenSound(calls[q].token) /\ Passed(calls[q].token, calls[q].route)

GatewayInv == GatewayTypeOK /\ AuthoritySound

-----------------------------------------------------------------------------
\* Time stands still or moves by one.
LEMMA TimeStep ==
    ASSUME GatewayTypeOK, GatewayStep
    PROVE  now' \in 0 .. MaxNow /\ now <= now'
  <1>1. Tick \/ now' = now
    BY DEF GatewayStep, ReadAccount, Sign, Forward, CallDirectly, TakeUp, AnswerAtOnce, Work, PassOn, GiveUp,
           Lose, AuthStops, GatewayStops
  <1>2. CASE Tick
    BY <1>2, GatewayAssumption DEF Tick, GatewayTypeOK
  <1>3. CASE now' = now
    BY <1>3, GatewayAssumption DEF GatewayTypeOK
  <1>4. QED
    BY <1>1, <1>2, <1>3

\* The history goes on, and forgets nothing.
LEMMA HistoryStep ==
    ASSUME GatewayTypeOK, GatewayStep, Remember
    PROVE  /\ lastHeld' \in [Account -> [Role -> -1 .. MaxNow]]
           /\ \A a \in Account, x \in Role : lastHeld'[a][x] \in {lastHeld[a][x], now'}
  BY TimeStep DEF Remember, GatewayTypeOK

\* What was sound stays sound.
LEMMA HeldStep ==
    ASSUME GatewayTypeOK, GatewayStep, Remember, NEW doc,
           doc.account \in Account, doc.roles \subseteq Role, doc.readAt \in 0 .. MaxNow,
           HeldSince(doc)
    PROVE  HeldSince(doc)'
  <1>1. now \in Int /\ now' \in Int /\ now <= now' /\ doc.readAt \in Int
    BY TimeStep, GatewayAssumption DEF GatewayTypeOK
  <1>2. ASSUME NEW x \in doc.roles PROVE doc.readAt <= lastHeld'[doc.account][x]
    BY <1>1, <1>2, HistoryStep DEF HeldSince
  <1>3. QED
    BY <1>1, <1>2 DEF HeldSince

-----------------------------------------------------------------------------
\* The calls a step leaves: those there were, with their tokens and routes, and
\* at most one more that has passed the guards.
LEMMA CallsStep ==
    ASSUME GatewayTypeOK, GatewayStep
    PROVE  \A q \in DOMAIN calls' :
               \/ /\ q \in DOMAIN calls
                  /\ calls'[q].token = calls[q].token /\ calls'[q].route = calls[q].route
               \/ calls'[q].token \in tokens /\ Passed(calls'[q].token, calls'[q].route)
  <1> SUFFICES ASSUME NEW q \in DOMAIN calls'
               PROVE  \/ /\ q \in DOMAIN calls
                         /\ calls'[q].token = calls[q].token /\ calls'[q].route = calls[q].route
                      \/ calls'[q].token \in tokens /\ Passed(calls'[q].token, calls'[q].route)
    OBVIOUS
  <1> USE DEF GatewayTypeOK, CallDoc, Drop, Restrict
  <1>1. ASSUME NEW r \in ChangeReq, NEW token \in tokens, NEW route \in Route, NEW a \in Account,
               NEW x \in RolesIn(route),
               Forward(r, token, route, a, x) \/ CallDirectly(r, token, route, a, x)
        PROVE  \/ q \in DOMAIN calls /\ calls'[q] = calls[q]
               \/ calls'[q].token = token /\ calls'[q].route = route /\ Passed(token, route)
    BY <1>1 DEF Forward, CallDirectly, Put, Passed
  <1>2. ASSUME NEW r \in ChangeReq,
               TakeUp(r) \/ AnswerAtOnce(r) \/ Work(r) \/ PassOn(r) \/ GiveUp(r) \/ Lose(r)
        PROVE  /\ q \in DOMAIN calls
               /\ calls'[q].token = calls[q].token /\ calls'[q].route = calls[q].route
    BY <1>2 DEF TakeUp, AnswerAtOnce, Work, PassOn, GiveUp, Lose, Answered
  <1>3. CASE AuthStops \/ GatewayStops
    BY <1>3 DEF AuthStops, GatewayStops
  <1>4. CASE calls' = calls
    BY <1>4
  <1>5. QED
    BY <1>1, <1>2, <1>3, <1>4 DEF GatewayStep, Tick, ReadAccount, Sign

\* Nobody has a token at the start.
LEMMA AuthorityInit == GatewayInit => AuthoritySound
  BY DEF GatewayInit, AuthoritySound, Empty

\* Whoever has authority had the roles for it when the account was read.
LEMMA AuthorityStep ==
    ASSUME GatewayInv, GatewayTypeOK', GatewayStep, Remember
    PROVE  AuthoritySound'
  <1> USE DEF GatewayInv
  <1>1. now \in Int /\ now' \in Int /\ now <= now'
    BY TimeStep, GatewayAssumption DEF GatewayTypeOK
  <1>2. ASSUME NEW token \in AccessToken, TokenSound(token) PROVE TokenSound(token)'
    BY <1>1, <1>2, HeldStep, GatewayAssumption DEF TokenSound, AccessToken
  <1>3. ASSUME NEW p \in signing' PROVE HeldSince(p)'
    <2>1. CASE p \in signing
      BY <2>1, HeldStep DEF AuthoritySound, GatewayTypeOK, Payload
    <2>2. CASE p \notin signing
      <3>0. (\E a \in Account : ReadAccount(a)) \/ signing' \subseteq signing
        BY DEF GatewayStep, Tick, Sign, Forward, CallDirectly, TakeUp, AnswerAtOnce, Work, PassOn, GiveUp, Lose,
               AuthStops, GatewayStops
      <3>1. PICK a \in Account :
                ReadAccount(a) /\ p = [account |-> a, roles |-> {x \in Role : Has(a, x)}, readAt |-> now]
        BY <1>3, <2>2, <3>0 DEF ReadAccount
      <3>2. now' = now /\ roles' = roles
        BY <3>1 DEF ReadAccount, roleVars
      <3>3. \A x \in p.roles : lastHeld'[a][x] = now
        BY <3>1, <3>2 DEF Remember, Has
      <3>4. QED
        BY <1>1, <3>1, <3>2, <3>3 DEF HeldSince
    <2>3. QED
      BY <2>1, <2>2
  <1>4. ASSUME NEW token \in tokens' PROVE TokenSound(token)'
    <2>1. CASE token \in tokens
      BY <1>2, <2>1 DEF AuthoritySound, GatewayTypeOK
    <2>2. CASE token \notin tokens
      <3>1. PICK p \in signing : token = Signed(p, now) /\ now' = now
        BY <1>4, <2>2
           DEF GatewayStep, Tick, ReadAccount, Sign, Forward, CallDirectly, TakeUp, AnswerAtOnce, Work, PassOn,
               GiveUp, Lose, AuthStops, GatewayStops
      <3>2. p \in Payload /\ HeldSince(p)
        BY DEF AuthoritySound, GatewayTypeOK
      <3>3. HeldSince(p)'
        BY <3>2, HeldStep DEF Payload
      <3>4. QED
        BY <1>1, <3>1, <3>2, <3>3 DEF TokenSound, HeldSince, Signed
    <2>3. QED
      BY <2>1, <2>2
  <1>5. ASSUME NEW q \in DOMAIN calls'
        PROVE  (TokenSound(calls[q].token) /\ Passed(calls[q].token, calls[q].route))'
    <2> DEFINE token == calls'[q].token
    <2>1. TokenSound(token) /\ Passed(token, calls'[q].route)
      BY <1>5, CallsStep DEF AuthoritySound
    <2>2. token \in AccessToken
      BY <1>5 DEF GatewayTypeOK, CallDoc
    <2>3. /\ token.readAt <= now' /\ token.readAt <= token.signedAt /\ token.signedAt <= now'
          /\ \A x \in token.roles : token.readAt <= lastHeld'[token.account][x]
      <3> HIDE DEF token
      <3>1. QED
        BY <1>2, <2>1, <2>2 DEF TokenSound, HeldSince
    <2>4. QED
      BY <2>1, <2>3 DEF TokenSound, HeldSince, Passed, MayCall, ServiceOf
  <1>6. QED
    BY <1>3, <1>4, <1>5 DEF AuthoritySound

-----------------------------------------------------------------------------
\* The gateway starts with nothing to do.
LEMMA TypeInit == GatewayInit => GatewayTypeOK
  <1> SUFFICES ASSUME GatewayInit PROVE GatewayTypeOK
    OBVIOUS
  <1>1. lastHeld \in [Account -> [Role -> -1 .. MaxNow]] /\ now \in 0 .. MaxNow
    BY GatewayAssumption DEF GatewayInit
  <1>2. DOMAIN calls = {} /\ DOMAIN changing = {}
    BY DEF GatewayInit, RolesInit, Empty
  <1>3. QED
    BY <1>1, <1>2 DEF GatewayInit, GatewayTypeOK

\* A token and an account read keep their types.
LEMMA TokensTypeStep ==
    ASSUME GatewayTypeOK, GatewayStep
    PROVE  signing' \subseteq Payload /\ tokens' \subseteq AccessToken
  <1>1. ASSUME NEW a \in Account, ReadAccount(a)
        PROVE  signing' \subseteq Payload /\ tokens' = tokens
    BY <1>1 DEF ReadAccount, GatewayTypeOK, Payload
  <1>2. ASSUME NEW p \in signing, Sign(p)
        PROVE  signing' \subseteq signing /\ tokens' \subseteq AccessToken
    <2>1. p \in Payload /\ now \in 0 .. MaxNow
      BY DEF GatewayTypeOK
    <2>2. Signed(p, now) \in AccessToken
      BY <2>1 DEF Signed, Payload, AccessToken
    <2>3. QED
      BY <1>2, <2>2 DEF Sign, GatewayTypeOK
  <1>3. \/ \E a \in Account : ReadAccount(a)
        \/ \E p \in signing : Sign(p)
        \/ signing' \subseteq signing /\ tokens' \subseteq tokens
    BY DEF GatewayStep, Tick, Forward, CallDirectly, TakeUp, AnswerAtOnce, Work, PassOn, GiveUp, Lose,
           AuthStops, GatewayStops
  <1>4. QED
    BY <1>1, <1>2, <1>3 DEF GatewayTypeOK

\* A call keeps its type, and its service is changing roles just when it is
\* working on a change of roles.
CallsTypeOK ==
    /\ DOMAIN calls \subseteq ChangeReq
    /\ \A q \in DOMAIN calls : calls[q] \in CallDoc /\ calls[q].role \in RolesIn(calls[q].route)
    /\ DOMAIN changing =
           {q \in DOMAIN calls : Stage(q, "working") /\ calls[q].route \in RoleRoutes}

\* Calls keep their types, and role changes are those of calls being worked on.
LEMMA CallsTypeStep ==
    ASSUME GatewayTypeOK, GatewayStep
    PROVE  CallsTypeOK'
  <1> USE DEF GatewayTypeOK, CallsTypeOK
  <1>1. ASSUME NEW q \in ChangeReq, NEW token \in tokens, NEW route \in Route, NEW a \in Account,
               NEW x \in RolesIn(route),
               Forward(q, token, route, a, x) \/ CallDirectly(q, token, route, a, x)
        PROVE  CallsTypeOK'
    <2> DEFINE doc(w) == [token |-> token, route |-> route, account |-> a, role |-> x,
                          stage |-> "sent", waiting |-> w]
    <2>0. PICK w \in BOOLEAN : changing' = changing /\ q \notin DOMAIN calls
                               /\ calls' = Put(calls, q, doc(w))
      BY <1>1 DEF Forward, CallDirectly, roleVars
    <2> DEFINE call == doc(w)
    <2>1. call \in CallDoc
      BY DEF CallDoc, RolesIn
    <2>2. /\ changing' = changing
          /\ q \notin DOMAIN calls /\ DOMAIN calls' = DOMAIN calls \cup {q}
          /\ calls'[q] = call /\ \A r \in DOMAIN calls : calls'[r] = calls[r]
      BY <2>0 DEF Put
    <2>3. call.role \in RolesIn(call.route) /\ call.stage = "sent"
      OBVIOUS
    <2> HIDE DEF call
    <2>4. QED
      BY <2>1, <2>2, <2>3 DEF Stage
  <1>2. ASSUME NEW q \in ChangeReq, TakeUp(q) PROVE CallsTypeOK'
    <2>1. /\ q \in DOMAIN calls /\ calls[q].stage = "sent"
          /\ calls' = [calls EXCEPT ![q].stage = "working"]
      BY <1>2 DEF TakeUp, Stage
    <2>2. DOMAIN changing' =
              IF calls[q].route \in RoleRoutes THEN DOMAIN changing \cup {q} ELSE DOMAIN changing
      BY <1>2 DEF TakeUp, AddRoleFind, RemoveRoleFind, Put, RoleRoutes, roleVars
    <2>3. calls'[q] \in CallDoc
      BY <2>1 DEF CallDoc
    <2>4. QED
      BY <2>1, <2>2, <2>3 DEF Stage, CallDoc
  <1>3. ASSUME NEW q \in ChangeReq, Answered(q), q \in DOMAIN calls,
               DOMAIN changing' = DOMAIN changing \ {q}
        PROVE  CallsTypeOK'
    <2>1. CASE calls[q].waiting
      <3>1. calls' = [calls EXCEPT ![q].stage = "answered"]
        BY <1>3, <2>1 DEF Answered
      <3>2. calls'[q] \in CallDoc
        BY <1>3, <3>1 DEF CallDoc
      <3>3. QED
        BY <1>3, <3>1, <3>2 DEF Stage, CallDoc
    <2>2. CASE ~calls[q].waiting
      BY <1>3, <2>2 DEF Answered, Drop, Restrict, Stage
    <2>3. QED
      BY <2>1, <2>2
  <1>4. ASSUME NEW q \in ChangeReq, AnswerAtOnce(q) PROVE CallsTypeOK'
    BY <1>3, <1>4 DEF AnswerAtOnce, Stage, roleVars
  <1>5. ASSUME NEW q \in ChangeReq, Work(q) PROVE CallsTypeOK'
    <2>1. DOMAIN changing' = DOMAIN changing \ {q}
      BY <1>5 DEF Work, AddRoleSave, RemoveRoleSave, RemoveRoleConflict, RoleChangeFail, Drop,
                  Restrict, roleVars
    <2>2. QED
      BY <1>3, <1>5, <2>1 DEF Work, Stage
  <1>6. ASSUME NEW q \in ChangeReq, PassOn(q) \/ Lose(q) \/ (GiveUp(q) /\ Stage(q, "answered"))
        PROVE  CallsTypeOK'
    <2>1. /\ changing' = changing /\ calls' = Drop(calls, {q})
          /\ q \in DOMAIN calls /\ calls[q].stage # "working"
      BY <1>6 DEF PassOn, Lose, GiveUp, Stage, roleVars
    <2>2. QED
      BY <2>1 DEF Drop, Restrict, Stage
  <1>7. ASSUME NEW q \in ChangeReq, GiveUp(q), ~Stage(q, "answered") PROVE CallsTypeOK'
    <2>1. /\ q \in DOMAIN calls /\ changing' = changing
          /\ calls' = [calls EXCEPT ![q].waiting = FALSE]
      BY <1>7 DEF GiveUp, roleVars
    <2>2. calls'[q] \in CallDoc
      BY <2>1 DEF CallDoc
    <2>3. QED
      BY <2>1, <2>2 DEF Stage, CallDoc
  <1>8. CASE AuthStops
    <2>1. DOMAIN changing' = {} /\ calls' = Drop(calls, DOMAIN changing)
      BY <1>8 DEF AuthStops, RolesCrash, Empty, roleVars
    <2>2. QED
      BY <2>1 DEF Drop, Restrict, Stage
  <1>9. CASE GatewayStops
    <2>1. /\ changing' = changing
          /\ DOMAIN calls' = DOMAIN calls \ {q \in DOMAIN calls : Stage(q, "answered")}
          /\ \A q \in DOMAIN calls' : calls'[q] = [calls[q] EXCEPT !.waiting = FALSE]
      BY <1>9 DEF GatewayStops, Drop, Restrict, roleVars
    <2>2. \A q \in DOMAIN calls' :
              /\ calls'[q] \in CallDoc
              /\ calls'[q].route = calls[q].route /\ calls'[q].role = calls[q].role
              /\ calls'[q].stage = calls[q].stage
      <3> SUFFICES ASSUME NEW q \in DOMAIN calls', NEW call, call = calls[q]
                   PROVE  /\ calls'[q] \in CallDoc
                          /\ calls'[q].route = call.route /\ calls'[q].role = call.role
                          /\ calls'[q].stage = call.stage
        OBVIOUS
      <3>1. call \in CallDoc /\ calls'[q] = [call EXCEPT !.waiting = FALSE]
        BY <2>1
      <3>2. QED
        BY <3>1 DEF CallDoc
    <2>3. QED
      BY <2>1, <2>2 DEF Stage
  <1>10. CASE UNCHANGED <<calls, changing>>
    BY <1>10 DEF Stage
  <1>11. QED
    BY <1>1, <1>2, <1>4, <1>5, <1>6, <1>7, <1>8, <1>9, <1>10
       DEF GatewayStep, Tick, ReadAccount, Sign, roleVars

-----------------------------------------------------------------------------
\* Every step keeps the types and the authority of calls.
LEMMA GatewayInvStep == GatewayInv /\ [GatewayNext]_allVars => GatewayInv'
  <1> SUFFICES ASSUME GatewayInv, [GatewayNext]_allVars PROVE GatewayInv'
    OBVIOUS
  <1>1. CASE GatewayNext
    <2>1. GatewayTypeOK'
      BY <1>1, TimeStep, HistoryStep, TokensTypeStep, CallsTypeStep
         DEF GatewayNext, GatewayInv, GatewayTypeOK, CallsTypeOK
    <2>2. QED
      BY <1>1, <2>1, AuthorityStep DEF GatewayNext, GatewayInv
  <1>2. CASE UNCHANGED allVars
    BY <1>2 DEF allVars, gatewayVars, roleVars, GatewayInv, GatewayTypeOK, AuthoritySound,
                TokenSound, HeldSince, Passed, MayCall, ServiceOf, Stage
  <1>3. QED
    BY <1>1, <1>2

\* Every variable keeps its type, and a role endpoint is changing roles just
\* when its call is being worked on.
THEOREM GatewayTyped == GatewaySpec => []GatewayTypeOK
  <1>1. GatewayInit => GatewayInv
    BY TypeInit, AuthorityInit DEF GatewayInv
  <1>2. GatewayInv => GatewayTypeOK
    BY DEF GatewayInv
  <1>3. QED
    BY <1>1, <1>2, GatewayInvStep, PTL DEF GatewaySpec

\* A role revoked passes the guards for no longer than the life of a token and
\* the time it took to sign.
THEOREM RevocationsBounded == GatewaySpec => []RevocationBound
  <1>1. GatewayInit => GatewayInv
    BY TypeInit, AuthorityInit DEF GatewayInv
  <1>2. ASSUME GatewayInv, NEW token \in tokens, Valid(token), NEW x \in token.roles
        PROVE  now - lastHeld[token.account][x] < AccessLife + (token.signedAt - token.readAt)
    <2>1. token \in AccessToken /\ TokenSound(token)
      BY <1>2 DEF GatewayInv, AuthoritySound, GatewayTypeOK
    <2>2. /\ now \in Int /\ token.signedAt \in Int /\ token.readAt \in Int
          /\ lastHeld[token.account][x] \in Int
      BY <1>2, <2>1, GatewayAssumption DEF GatewayInv, GatewayTypeOK, AccessToken
    <2>3. QED
      BY <1>2, <2>1, <2>2, GatewayAssumption DEF Valid, TokenSound, HeldSince
  <1>3. GatewayInv => RevocationBound
    BY <1>2 DEF RevocationBound
  <1>4. QED
    BY <1>1, <1>3, GatewayInvStep, PTL DEF GatewaySpec

\* A call that is sent is worked on only once its service has taken it up.
LEMMA OnlyTakeUp ==
    ASSUME GatewayTypeOK, GatewayStep, NEW q \in ChangeReq, Stage(q, "sent"), Stage(q, "working")'
    PROVE  TakeUp(q)
  <1>1. ASSUME NEW r \in ChangeReq, NEW token \in tokens, NEW route \in Route, NEW a \in Account,
               NEW x \in RolesIn(route),
               Forward(r, token, route, a, x) \/ CallDirectly(r, token, route, a, x)
        PROVE  FALSE
    BY <1>1 DEF Forward, CallDirectly, Put, Stage
  <1> DEFINE call == calls[q]
  <1>2. call \in CallDoc /\ call.stage = "sent" /\ q \in DOMAIN calls
    BY DEF GatewayTypeOK, Stage
  <1>3. ASSUME \/ q \notin DOMAIN calls'
               \/ calls'[q] = call \/ calls'[q] = [call EXCEPT !.stage = "answered"]
               \/ calls'[q] = [call EXCEPT !.waiting = FALSE]
        PROVE  FALSE
    <2> HIDE DEF call
    <2>1. QED
      BY <1>2, <1>3 DEF Stage, CallDoc
  <1>4. ASSUME NEW r \in ChangeReq, AnswerAtOnce(r) \/ Work(r) \/ PassOn(r) \/ GiveUp(r) \/ Lose(r)
        PROVE  FALSE
    BY <1>2, <1>3, <1>4 DEF AnswerAtOnce, Work, PassOn, GiveUp, Lose, Answered, Drop, Restrict, Stage
  <1>5. ASSUME AuthStops \/ GatewayStops PROVE FALSE
    BY <1>2, <1>3, <1>5 DEF AuthStops, GatewayStops, Drop, Restrict
  <1>6. ASSUME NEW r \in ChangeReq, r # q, TakeUp(r) PROVE FALSE
    BY <1>6 DEF TakeUp, Stage
  <1>7. ASSUME calls' = calls PROVE FALSE
    BY <1>7 DEF Stage
  <1>8. QED
    BY <1>1, <1>4, <1>5, <1>6, <1>7 DEF GatewayStep, Tick, ReadAccount, Sign

\* A service that clients reach through the gateway alone takes up no call but
\* those of somebody who had a role for it that long ago.
THEOREM CallsAreAuthorised == GatewaySpec => CallsAuthorised
  <1> DEFINE Authorised ==
        \A q \in ChangeReq :
            /\ Stage(q, "sent") /\ Stage(q, "working")'
            /\ calls[q].route \in DOMAIN Required /\ ServiceOf(calls[q].route) \notin Published
            => LET token == calls[q].token IN
               \E x \in Required[calls[q].route] \cap token.roles :
                   now - lastHeld[token.account][x] < AccessLife + (token.signedAt - token.readAt)
  <1>1. GatewayInit => GatewayInv
    BY TypeInit, AuthorityInit DEF GatewayInv
  <1>2. ASSUME GatewayInv, GatewayNext, NEW q \in ChangeReq, Stage(q, "sent"), Stage(q, "working")',
               calls[q].route \in DOMAIN Required, ServiceOf(calls[q].route) \notin Published
        PROVE  \E x \in Required[calls[q].route] \cap calls[q].token.roles :
                   now - lastHeld[calls[q].token.account][x]
                       < AccessLife + (calls[q].token.signedAt - calls[q].token.readAt)
    <2> DEFINE token == calls[q].token
    <2>1. Valid(token)
      BY <1>2, OnlyTakeUp DEF TakeUp, GatewayNext, GatewayInv
    <2>2. token \in AccessToken /\ TokenSound(token) /\ MayCall(token, calls[q].route)
      BY <1>2 DEF GatewayInv, AuthoritySound, Passed, GatewayTypeOK, CallDoc, Stage
    <2>3. PICK x \in Required[calls[q].route] \cap token.roles : TRUE
      BY <1>2, <2>2 DEF MayCall
    <2> HIDE DEF token
    <2>4. /\ now \in Int /\ token.signedAt \in Int /\ token.readAt \in Int
          /\ lastHeld[token.account][x] \in Int
      BY <1>2, <2>2, <2>3, GatewayAssumption DEF GatewayInv, GatewayTypeOK, AccessToken
    <2>5. now - lastHeld[token.account][x] < AccessLife + (token.signedAt - token.readAt)
      BY <2>1, <2>2, <2>3, <2>4, GatewayAssumption DEF Valid, TokenSound, HeldSince
    <2>6. QED
      BY <2>3, <2>5 DEF token
  <1>3. GatewayInv /\ [GatewayNext]_allVars => [Authorised]_allVars
    BY <1>2
  <1>4. QED
    BY <1>1, <1>3, GatewayInvStep, PTL DEF GatewaySpec, CallsAuthorised

-----------------------------------------------------------------------------
\* Every step of the gateway and its clients is one of the role endpoints, or
\* leaves the roles alone.
LEMMA RolesServedStep == GatewayInv /\ [GatewayNext]_allVars => [RolesNext]_roleVars
  <1> SUFFICES ASSUME GatewayInv, GatewayNext PROVE [RolesNext]_roleVars
    BY DEF allVars
  <1>1. ASSUME NEW q \in ChangeReq, TakeUp(q) PROVE [RolesNext]_roleVars
    <2> DEFINE c == calls[q]
    <2>1. c.account \in Account /\ (c.route \in RoleRoutes => c.role \in Role)
      BY <1>1 DEF TakeUp, Stage, GatewayInv, GatewayTypeOK, CallDoc, RolesIn
    <2>2. \/ c.role \in Role /\ (AddRoleFind(q, c.account, c.role) \/ RemoveRoleFind(q, c.account, c.role))
          \/ UNCHANGED roleVars
      BY <1>1, <2>1 DEF TakeUp, RoleRoutes
    <2>3. QED
      BY <2>1, <2>2 DEF RolesNext
  <1>2. ASSUME NEW q \in ChangeReq, Work(q) PROVE [RolesNext]_roleVars
    BY <1>2 DEF Work, RolesNext
  <1>3. ASSUME ~(\E q \in ChangeReq : TakeUp(q) \/ Work(q)) PROVE RolesCrash \/ UNCHANGED roleVars
    BY <1>3 DEF GatewayNext, GatewayStep, Tick, ReadAccount, Sign, Forward, CallDirectly, AnswerAtOnce, PassOn,
                GiveUp, Lose, AuthStops, GatewayStops
  <1>4. QED
    BY <1>1, <1>2, <1>3 DEF RolesNext

\* The gateway leaves the roles to the role endpoints, whatever it gives up
\* waiting for: their theorems hold behind it.
THEOREM RolesServed ==
    GatewaySpec => RoleSetSpec /\ [](RolesTypeOK /\ VersionGuards /\ RepeatsBounded)
  <1>1. GatewayInit => GatewayInv /\ RolesInit
    BY TypeInit, AuthorityInit DEF GatewayInv, GatewayInit
  <1>2. GatewaySpec => RolesSpec
    BY <1>1, GatewayInvStep, RolesServedStep, PTL DEF GatewaySpec, RolesSpec
  <1>3. QED
    BY <1>2, RoleSetImplemented, VersionsGuard, Repeats, PTL

-----------------------------------------------------------------------------
\* What a role endpoint is doing is what its call asked for.
TaskAsked(q) ==
    /\ calls[q].account = changing[q].account /\ calls[q].role = changing[q].role
    /\ calls[q].route = IF changing[q].op = "add" THEN "addRole" ELSE "removeRole"

AskedInv == \A q \in DOMAIN changing : TaskAsked(q)

\* A call that a step does not end stays the call it was.
LEMMA CallsStay ==
    ASSUME GatewayTypeOK, GatewayStep, NEW q \in DOMAIN calls, q \in DOMAIN calls'
    PROVE  /\ calls'[q].route = calls[q].route
           /\ calls'[q].account = calls[q].account /\ calls'[q].role = calls[q].role
  <1> DEFINE Same == /\ calls'[q].route = calls[q].route
                     /\ calls'[q].account = calls[q].account /\ calls'[q].role = calls[q].role
  <1> USE DEF GatewayTypeOK, CallDoc, Drop, Restrict
  <1>1. ASSUME NEW r \in ChangeReq, NEW token \in tokens, NEW route \in Route, NEW a \in Account,
               NEW x \in RolesIn(route),
               Forward(r, token, route, a, x) \/ CallDirectly(r, token, route, a, x)
        PROVE  Same
    BY <1>1 DEF Forward, CallDirectly, Put
  <1>2. ASSUME NEW r \in ChangeReq,
               TakeUp(r) \/ AnswerAtOnce(r) \/ Work(r) \/ PassOn(r) \/ GiveUp(r) \/ Lose(r)
        PROVE  Same
    <2>1. \/ calls'[q] = calls[q]
          \/ calls'[q] = [calls[q] EXCEPT !.waiting = FALSE]
          \/ calls'[q] = [calls[q] EXCEPT !.stage = "working"]
          \/ calls'[q] = [calls[q] EXCEPT !.stage = "answered"]
      BY <1>2 DEF TakeUp, AnswerAtOnce, Work, PassOn, GiveUp, Lose, Answered
    <2>2. calls[q] \in CallDoc
      OBVIOUS
    <2>3. QED
      BY <2>1, <2>2
  <1>3. CASE AuthStops \/ GatewayStops
    BY <1>3 DEF AuthStops, GatewayStops
  <1>4. CASE calls' = calls
    BY <1>4
  <1>5. QED
    BY <1>1, <1>2, <1>3, <1>4 DEF GatewayStep, Tick, ReadAccount, Sign

\* A change of roles in flight after a step was there before, or begins with the
\* call that its service takes up.
LEMMA ChangesBegin ==
    ASSUME GatewayStep, NEW q \in DOMAIN changing'
    PROVE  \/ q \in DOMAIN changing /\ changing'[q] = changing[q]
           \/ TakeUp(q) /\ q \notin DOMAIN changing
  <1>1. ASSUME NEW r \in ChangeReq, TakeUp(r)
        PROVE  \/ q \in DOMAIN changing /\ changing'[q] = changing[q]
               \/ TakeUp(q) /\ q \notin DOMAIN changing
    <2>1. \/ q \in DOMAIN changing /\ changing'[q] = changing[q]
          \/ q = r /\ q \notin DOMAIN changing
      BY <1>1 DEF TakeUp, AddRoleFind, RemoveRoleFind, Put, roleVars
    <2>2. QED
      BY <1>1, <2>1
  <1>2. ASSUME NEW r \in ChangeReq, Work(r)
        PROVE  q \in DOMAIN changing /\ changing'[q] = changing[q]
    BY <1>2 DEF Work, AddRoleSave, RemoveRoleSave, RemoveRoleConflict, RoleChangeFail, Drop,
                Restrict, roleVars
  <1>3. ASSUME ~(\E r \in ChangeReq : TakeUp(r) \/ Work(r))
        PROVE  changing' = Empty \/ changing' = changing
    BY <1>3 DEF GatewayStep, Tick, ReadAccount, Sign, Forward, CallDirectly, AnswerAtOnce, PassOn, GiveUp, Lose,
                AuthStops, GatewayStops, RolesCrash, roleVars
  <1>4. QED
    BY <1>1, <1>2, <1>3 DEF Empty

\* Taking up a call notes what it asks for, and nothing changes that later.
LEMMA AskedStep ==
    ASSUME GatewayTypeOK, GatewayTypeOK', AskedInv, GatewayStep
    PROVE  AskedInv'
  <1> SUFFICES ASSUME NEW q \in DOMAIN changing' PROVE TaskAsked(q)'
    BY DEF AskedInv
  <1>1. q \in DOMAIN calls'
    BY DEF GatewayTypeOK
  <1>2. CASE q \in DOMAIN changing /\ changing'[q] = changing[q]
    <2>1. q \in DOMAIN calls /\ TaskAsked(q)
      BY <1>2 DEF GatewayTypeOK, AskedInv
    <2>2. QED
      BY <1>1, <1>2, <2>1, CallsStay DEF TaskAsked
  <1>3. CASE TakeUp(q) /\ q \notin DOMAIN changing
    <2> DEFINE c == calls[q]
    <2>1. q \in DOMAIN calls
      BY <1>3 DEF TakeUp, Stage
    <2>2. \/ c.route = "addRole" /\ changing'[q] = NewChange("add", c.account, c.role)
          \/ c.route = "removeRole" /\ changing'[q] = NewChange("remove", c.account, c.role)
      BY <1>3 DEF TakeUp, AddRoleFind, RemoveRoleFind, Put, roleVars
    <2>3. QED
      BY <1>1, <2>1, <2>2, CallsStay DEF TaskAsked, NewChange
  <1>4. QED
    BY <1>2, <1>3, ChangesBegin

\* A save touches no role but its own: a push adds it, and a removal that the
\* version check lets pass has read the array that is there.
LEMMA SaveOwnRole ==
    ASSUME RolesTypeOK, VersionGuards, NEW q \in ChangeReq, AddRoleSave(q) \/ RemoveRoleSave(q),
           NEW a \in Account, NEW x \in Role, Has(a, x)' # Has(a, x)
    PROVE  /\ q \in DOMAIN changing
           /\ changing[q].account = a /\ changing[q].role = x
           /\ changing[q].op = IF Has(a, x) THEN "remove" ELSE "add"
  <1> DEFINE task == changing[q]
  <1>1. q \in DOMAIN changing /\ task \in RoleTask /\ roles \in [Account -> RoleArray]
    BY DEF AddRoleSave, RemoveRoleSave, Saving, RolesTypeOK
  <1>2. CASE AddRoleSave(q)
    <2>1. /\ task.op = "add"
          /\ roles' = [roles EXCEPT ![task.account] = Pushed(roles[task.account], task.role)]
      BY <1>2 DEF AddRoleSave, Saving, Save
    <2> HIDE DEF task
    <2>2. roles'[a][x] = IF a = task.account /\ x = task.role THEN roles[a][x] + 1 ELSE roles[a][x]
      BY <1>1, <2>1 DEF Pushed, RoleArray, RoleTask
    <2>3. roles[a][x] \in Nat
      BY <1>1 DEF RoleArray
    <2>4. a = task.account /\ x = task.role /\ ~Has(a, x)
      BY <2>2, <2>3 DEF Has
    <2>5. QED
      BY <1>1, <2>1, <2>4 DEF task
  <1>3. CASE RemoveRoleSave(q)
    <2>1. /\ task.op = "remove"
          /\ roles' = [roles EXCEPT ![task.account] = Filtered(task.read, task.role)]
          /\ roles[task.account] = task.read
      BY <1>1, <1>3 DEF RemoveRoleSave, Saving, Save, VersionGuards
    <2> HIDE DEF task
    <2>2. roles'[a][x] = IF a = task.account /\ x = task.role THEN 0 ELSE roles[a][x]
      BY <1>1, <2>1 DEF Filtered, RoleArray, RoleTask
    <2>3. roles[a][x] \in Nat
      BY <1>1 DEF RoleArray
    <2>4. a = task.account /\ x = task.role /\ Has(a, x)
      BY <2>2, <2>3 DEF Has
    <2>5. QED
      BY <1>1, <2>1, <2>4 DEF task
  <1>4. QED
    BY <1>2, <1>3

\* Roles change by the work of a call that asks for just that change, and whose
\* caller has been an administrator since the token was begun unless clients
\* reach the auth service without the gateway.
LEMMA AskedChange ==
    ASSUME GatewayInv, RolesTypeOK, VersionGuards, AskedInv, GatewayStep,
           NEW a \in Account, NEW x \in Role, Has(a, x)' # Has(a, x)
    PROVE  \E q \in ChangeReq :
               /\ Stage(q, "working")
               /\ calls[q].route = (IF Has(a, x) THEN "removeRole" ELSE "addRole")
               /\ calls[q].account = a /\ calls[q].role = x
               /\ "auth" \notin Published =>
                      /\ "ADMIN" \in calls[q].token.roles
                      /\ lastHeld[calls[q].token.account]["ADMIN"] >= calls[q].token.readAt
  <1>1. roles' # roles
    BY DEF Has
  <1>2. PICK q \in ChangeReq : AddRoleSave(q) \/ RemoveRoleSave(q)
    <2>1. ASSUME NEW q \in ChangeReq, TakeUp(q) PROVE roles' = roles
      BY <2>1 DEF TakeUp, AddRoleFind, RemoveRoleFind, roleVars
    <2>2. ASSUME NEW q \in ChangeReq, Work(q), ~(AddRoleSave(q) \/ RemoveRoleSave(q))
          PROVE  roles' = roles
      BY <2>2 DEF Work, RemoveRoleConflict, RoleChangeFail, roleVars
    <2>3. ASSUME ~(\E q \in ChangeReq : TakeUp(q) \/ Work(q)) PROVE roles' = roles
      BY <2>3 DEF GatewayStep, Tick, ReadAccount, Sign, Forward, CallDirectly, AnswerAtOnce, PassOn, GiveUp,
                  Lose, AuthStops, GatewayStops, RolesCrash, roleVars
    <2>4. QED
      BY <1>1, <2>1, <2>2, <2>3
  <1>3. /\ q \in DOMAIN changing
        /\ changing[q].account = a /\ changing[q].role = x
        /\ changing[q].op = IF Has(a, x) THEN "remove" ELSE "add"
    BY <1>2, SaveOwnRole
  <1>4. Stage(q, "working") /\ q \in DOMAIN calls
    BY <1>3 DEF GatewayInv, GatewayTypeOK
  <1>5. /\ calls[q].route = (IF Has(a, x) THEN "removeRole" ELSE "addRole")
        /\ calls[q].account = a /\ calls[q].role = x
    BY <1>3 DEF AskedInv, TaskAsked
  <1> DEFINE token == calls[q].token
  <1>6. ASSUME "auth" \notin Published
        PROVE  "ADMIN" \in token.roles /\ lastHeld[token.account]["ADMIN"] >= token.readAt
    <2>1. calls[q].route \in RoleRoutes
      BY <1>5 DEF RoleRoutes
    <2>2. MayCall(token, calls[q].route)
      BY <1>4, <1>6, <2>1 DEF GatewayInv, AuthoritySound, Passed, ServiceOf
    <2>3. Required[calls[q].route] = {"ADMIN"} /\ calls[q].route \in DOMAIN Required
      BY <2>1 DEF Required, RoleRoutes
    <2>4. "ADMIN" \in token.roles
      BY <2>2, <2>3 DEF MayCall
    <2>5. token.readAt <= lastHeld[token.account]["ADMIN"]
      BY <1>4, <2>4 DEF GatewayInv, AuthoritySound, TokenSound, HeldSince
    <2>6. token.readAt \in Int /\ lastHeld[token.account]["ADMIN"] \in Int
      BY <1>4, <2>4, GatewayAssumption DEF GatewayInv, GatewayTypeOK, CallDoc, AccessToken
    <2> HIDE DEF token
    <2>7. QED
      BY <2>4, <2>5, <2>6
  <1>7. QED
    BY <1>4, <1>5, <1>6

\* No role changes but by a call made for that change, and by an administrator
\* if the auth service is reached through the gateway alone: for any accounts
\* and roles, and whatever the gateway gives up and a crash cuts off.
THEOREM ChangesAreAsked == GatewaySpec => ChangesAsked
  <1> DEFINE Asked ==
        \A a \in Account, x \in Role :
            Has(a, x)' # Has(a, x) =>
                \E q \in ChangeReq :
                    /\ Stage(q, "working")
                    /\ calls[q].route = (IF Has(a, x) THEN "removeRole" ELSE "addRole")
                    /\ calls[q].account = a /\ calls[q].role = x
                    /\ "auth" \notin Published =>
                           /\ "ADMIN" \in calls[q].token.roles
                           /\ lastHeld[calls[q].token.account]["ADMIN"] >= calls[q].token.readAt
  <1>1. GatewayInit => GatewayInv /\ AskedInv
    BY TypeInit, AuthorityInit DEF GatewayInv, AskedInv, GatewayInit, RolesInit, Empty
  <1>2. GatewayInv /\ GatewayInv' /\ AskedInv /\ [GatewayNext]_allVars => AskedInv'
    <2>1. ASSUME UNCHANGED allVars, AskedInv PROVE AskedInv'
      BY <2>1 DEF allVars, gatewayVars, roleVars, AskedInv, TaskAsked
    <2>2. QED
      BY <2>1, AskedStep DEF GatewayNext, GatewayInv
  <1>3. GatewayInv /\ RolesTypeOK /\ VersionGuards /\ AskedInv /\ [GatewayNext]_allVars
            => [Asked]_allVars
    BY AskedChange DEF GatewayNext
  <1>4. GatewaySpec => [](RolesTypeOK /\ VersionGuards)
    BY RolesServed, PTL
  <1>5. QED
    BY <1>1, <1>2, <1>3, <1>4, GatewayInvStep, PTL DEF GatewaySpec, ChangesAsked

-----------------------------------------------------------------------------
\* With no administrator left the role endpoints take nothing up, and no token
\* passes the RolesGuard in front of them: where there is no other way to them.
LEMMA AdminsGoneStep ==
    ASSUME GatewayInv, GatewayNext, AdminsGone, "auth" \notin Published
    PROVE  AdminsGone' /\ roles' = roles
  <1> USE DEF GatewayInv, AdminsGone
  <1>1. changing = Empty
    <2>1. DOMAIN changing = {}
      BY DEF GatewayTypeOK
    <2>2. QED
      BY <2>1 DEF Empty
  <1>2. roles' = roles
    <2>1. ASSUME NEW q \in ChangeReq, TakeUp(q) PROVE roles' = roles
      BY <2>1 DEF TakeUp, AddRoleFind, RemoveRoleFind, roleVars
    <2>2. ASSUME NEW q \in ChangeReq, Work(q) PROVE roles' = roles
      BY <1>1, <2>2 DEF Work, Stage, GatewayTypeOK, AddRoleSave, RemoveRoleSave, RemoveRoleConflict,
                        RoleChangeFail, Saving, Empty, roleVars
    <2>3. ASSUME ~(\E q \in ChangeReq : TakeUp(q) \/ Work(q)) PROVE roles' = roles
      BY <2>3 DEF GatewayNext, GatewayStep, Tick, ReadAccount, Sign, Forward, CallDirectly, AnswerAtOnce, PassOn,
                  GiveUp, Lose, AuthStops, GatewayStops, RolesCrash, roleVars
    <2>4. QED
      BY <2>1, <2>2, <2>3
  <1>3. \A a \in Account : ~Has(a, "ADMIN")'
    BY <1>2 DEF Has
  <1>4. \A doc \in signing' \cup tokens' : "ADMIN" \notin doc.roles
    <2>1. ASSUME NEW a \in Account, ReadAccount(a) PROVE  \A doc \in signing' \cup tokens' : "ADMIN" \notin doc.roles
      BY <2>1 DEF ReadAccount
    <2>2. ASSUME NEW p \in signing, Sign(p) PROVE  \A doc \in signing' \cup tokens' : "ADMIN" \notin doc.roles
      BY <2>2 DEF Sign, Signed
    <2>3. ASSUME /\ ~(\E a \in Account : ReadAccount(a))
                 /\ ~(\E p \in signing : Sign(p))
          PROVE  signing' \subseteq signing /\ tokens' \subseteq tokens
      BY <2>3 DEF GatewayNext, GatewayStep, Tick, Forward, CallDirectly, TakeUp, AnswerAtOnce, Work, PassOn,
                  GiveUp, Lose, AuthStops, GatewayStops
    <2>4. QED
      BY <2>1, <2>2, <2>3
  <1>5. \A q \in DOMAIN calls' : calls'[q].route \notin RoleRoutes
    BY CallsStep DEF GatewayNext, Passed, ServiceOf, MayCall, Required, RoleRoutes
  <1>6. QED
    BY <1>2, <1>3, <1>4, <1>5

\* Where clients do not reach the auth service without the gateway, roles stay
\* as they are for good once no administrator is left.
THEOREM AdminsByAdmins == GatewaySpec => AdminByAdmin
  <1>1. GatewayInit => GatewayInv
    BY TypeInit, AuthorityInit DEF GatewayInv
  <1>2. GatewayInv /\ [GatewayNext]_allVars
            => ["auth" \notin Published /\ AdminsGone => AdminsGone' /\ roles' = roles]_allVars
    BY AdminsGoneStep
  <1>3. QED
    BY <1>1, <1>2, GatewayInvStep, PTL DEF GatewaySpec, AdminByAdmin
=============================================================================
