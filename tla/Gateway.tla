------------------------------- MODULE Gateway -------------------------------
(***************************************************************************)
(* The gateway in front of the services, and the access tokens it trusts.  *)
(*                                                                         *)
(* issue() of the auth service reads an account and signs its roles into a *)
(* token, which the guards of the gateway take at its word until it runs   *)
(* out.  The gateway forwards a call to its service, which asks again for  *)
(* a token that has not run out, though not for the role, and gives up     *)
(* waiting after three seconds, with the work going on behind.  Clients    *)
(* reach a service whose port is published without the gateway too, where  *)
(* nothing asks for the role.  What the role endpoints do is in UserRoles; *)
(* the work of the other services is a step without effect here.  A login  *)
(* or a refresh may issue a token at any time; how they come about is in   *)
(* Sessions.                                                               *)
(***************************************************************************)
EXTENDS UserRoles

CONSTANTS
    Route,       \* the endpoints called
    Published,   \* the services whose own ports clients reach
    AccessLife,  \* how long an access token is good for
    MaxTokens,   \* bounds the tokens that are good at one time
    MaxNow       \* bounds the clock

VARIABLES
    now,
    signing,   \* accounts that were read and whose token is not signed yet
    tokens,    \* the access tokens that have not run out
    calls,     \* the calls that the gateway or a service is busy with
    lastHeld   \* history: when each account had each role last, or -1

gatewayVars == <<now, signing, tokens, calls, lastHeld>>

allVars == <<roleVars, gatewayVars>>

-----------------------------------------------------------------------------
\* The endpoints that change something, with the roles that their @Roles asks
\* for.  That of attendance has none.
Required ==
    [addRole      |-> {"ADMIN"},
     removeRole   |-> {"ADMIN"},
     createEvent  |-> {"OPERATOR", "ADMIN"},
     createReward |-> {"OPERATOR", "ADMIN"},
     claim        |-> {"USER", "OPERATOR", "ADMIN"}]

RoleRoutes == {"addRole", "removeRole"}

\* The service that an endpoint is of.
ServiceOf(route) == IF route \in RoleRoutes THEN "auth" ELSE "event"

\* The roles that the body of a call may name.
RolesIn(route) == IF route \in RoleRoutes THEN Role ELSE {"none"}

Endpoints == DOMAIN Required \cup {"attend"}

ASSUME GatewayAssumption ==
    /\ Route \subseteq Endpoints
    /\ Published \subseteq {"auth", "event"}
    /\ AccessLife \in Nat \ {0} /\ MaxTokens \in Nat /\ MaxNow \in Nat

\* An account as issue() read it, and the token it becomes.
Payload == [account : Account, roles : SUBSET Role, readAt : 0 .. MaxNow]

AccessToken ==
    [account : Account, roles : SUBSET Role, readAt : 0 .. MaxNow, signedAt : 0 .. MaxNow]

Signed(p, t) ==
    [account |-> p.account, roles |-> p.roles, readAt |-> p.readAt, signedAt |-> t]

\* A call: the token that came with it, the account and role it is about, and
\* whether the gateway waits for the answer (it never does for a call made to
\* the service itself).
CallDoc ==
    [token : AccessToken, route : Route, account : Account, role : Role \cup {"none"},
     stage : {"sent", "working", "answered"}, waiting : BOOLEAN]

Stage(q, s) == q \in DOMAIN calls /\ calls[q].stage = s

\* The service has answered: the answer is for the gateway, if it still waits.
Answered(q) ==
    calls' = IF calls[q].waiting THEN [calls EXCEPT ![q].stage = "answered"]
                                 ELSE Drop(calls, {q})

(***************************************************************************)
(* Slips: an end of a token's life one instant late, a guard that lets     *)
(* tokens without any role pass, role endpoints without their RolesGuard,  *)
(* and a gateway that gives up and forgets the work that goes on.  No      *)
(* behaviour uses them; each breaks a property below.                      *)
(***************************************************************************)
ValidLate(token) == now <= token.signedAt + AccessLife

MayCallUnlisted(token, route) ==
    route \in DOMAIN Required => token.roles = {} \/ Required[route] \cap token.roles # {}

MayCallUnguarded(token, route) ==
    route \in DOMAIN Required \ RoleRoutes => Required[route] \cap token.roles # {}

GiveUpForgetting(q) ==
    /\ q \in DOMAIN calls /\ calls[q].waiting
    /\ calls' = Drop(calls, {q})
    /\ UNCHANGED <<roleVars, now, signing, tokens>>

-----------------------------------------------------------------------------
\* The JwtAuthGuard of the gateway and of the services.
Valid(token) == now < token.signedAt + AccessLife

\* The RolesGuard of the gateway.
MayCall(token, route) ==
    route \in DOMAIN Required => Required[route] \cap token.roles # {}

GatewayInit ==
    /\ RolesInit
    /\ now = 0
    /\ signing = {}
    /\ tokens = {}
    /\ calls = Empty
    /\ lastHeld = [a \in Account |-> [x \in Role |-> IF Has(a, x) THEN 0 ELSE -1]]

Tick ==
    /\ now < MaxNow
    /\ now' = now + 1
    /\ tokens' = {token \in tokens : Valid(token)'}
    /\ UNCHANGED <<roleVars, signing, calls>>

\* `await findById()` of issue().
ReadAccount(a) ==
    /\ Cardinality(tokens) + Cardinality(signing) < MaxTokens
    /\ signing' = signing \cup
           {[account |-> a, roles |-> {x \in Role : Has(a, x)}, readAt |-> now]}
    /\ UNCHANGED <<roleVars, now, tokens, calls>>

\* `await signAccess()`.
Sign(p) ==
    /\ p \in signing
    /\ tokens' = tokens \cup {Signed(p, now)}
    /\ signing' = signing \ {p}
    /\ UNCHANGED <<roleVars, now, calls>>

\* A call passes the guards of the gateway, and is forwarded.
Forward(q, token, route, a, x) ==
    /\ q \notin DOMAIN calls
    /\ Valid(token) /\ MayCall(token, route)
    /\ calls' = Put(calls, q,
           [token |-> token, route |-> route, account |-> a, role |-> x,
            stage |-> "sent", waiting |-> TRUE])
    /\ UNCHANGED <<roleVars, now, signing, tokens>>

\* A client calls a service at its own port, where no RolesGuard stands.
CallDirectly(q, token, route, a, x) ==
    /\ q \notin DOMAIN calls
    /\ ServiceOf(route) \in Published
    /\ calls' = Put(calls, q,
           [token |-> token, route |-> route, account |-> a, role |-> x,
            stage |-> "sent", waiting |-> FALSE])
    /\ UNCHANGED <<roleVars, now, signing, tokens>>

\* The service takes a call up.
TakeUp(q) ==
    /\ Stage(q, "sent")
    /\ Valid(calls[q].token)
    /\ LET c == calls[q] IN
           \/ c.route = "addRole" /\ AddRoleFind(q, c.account, c.role)
           \/ c.route = "removeRole" /\ RemoveRoleFind(q, c.account, c.role)
           \/ c.route \notin RoleRoutes /\ UNCHANGED roleVars
    /\ calls' = [calls EXCEPT ![q].stage = "working"]
    /\ UNCHANGED <<now, signing, tokens>>

\* The token has run out by now, or there is nothing to change.
AnswerAtOnce(q) ==
    /\ Stage(q, "sent")
    /\ LET c == calls[q] IN
           \/ ~Valid(c.token)
           \/ c.route = "addRole" /\ Has(c.account, c.role)
           \/ c.route = "removeRole" /\ ~Has(c.account, c.role)
    /\ Answered(q)
    /\ UNCHANGED <<roleVars, now, signing, tokens>>

\* The service does the work, or fails.
Work(q) ==
    /\ Stage(q, "working")
    /\ \/ AddRoleSave(q) \/ RemoveRoleSave(q) \/ RemoveRoleConflict(q) \/ RoleChangeFail(q)
       \/ calls[q].route \notin RoleRoutes /\ UNCHANGED roleVars
    /\ Answered(q)
    /\ UNCHANGED <<now, signing, tokens>>

\* The client has the answer.
PassOn(q) ==
    /\ Stage(q, "answered")
    /\ calls' = Drop(calls, {q})
    /\ UNCHANGED <<roleVars, now, signing, tokens>>

\* Three seconds are over: the client is told 500, and a call that is on its
\* way or being worked on goes on.
GiveUp(q) ==
    /\ q \in DOMAIN calls /\ calls[q].waiting
    /\ calls' = IF Stage(q, "answered") THEN Drop(calls, {q})
                                        ELSE [calls EXCEPT ![q].waiting = FALSE]
    /\ UNCHANGED <<roleVars, now, signing, tokens>>

\* A call is lost on its way to the service.
Lose(q) ==
    /\ Faults
    /\ Stage(q, "sent")
    /\ calls' = Drop(calls, {q})
    /\ UNCHANGED <<roleVars, now, signing, tokens>>

\* The auth service stops, with the accounts it has read and the calls it is
\* working on; the gateway sees their connections close.
AuthStops ==
    /\ Faults
    /\ IF changing = Empty THEN UNCHANGED roleVars ELSE RolesCrash
    /\ signing' = {}
    /\ calls' = Drop(calls, DOMAIN changing)
    /\ UNCHANGED <<now, tokens>>

\* The gateway stops, and waits for nothing any more.
GatewayStops ==
    /\ Faults
    /\ LET lost == {q \in DOMAIN calls : Stage(q, "answered")}
           left == Drop(calls, lost) IN
           calls' = [q \in DOMAIN left |-> [left[q] EXCEPT !.waiting = FALSE]]
    /\ UNCHANGED <<roleVars, now, signing, tokens>>

GatewayStep ==
    \/ Tick
    \/ \E a \in Account : ReadAccount(a)
    \/ \E p \in signing : Sign(p)
    \/ \E q \in ChangeReq, token \in tokens, route \in Route, a \in Account :
           \E x \in RolesIn(route) :
               Forward(q, token, route, a, x) \/ CallDirectly(q, token, route, a, x)
    \/ \E q \in ChangeReq :
           \/ TakeUp(q) \/ AnswerAtOnce(q) \/ Work(q)
           \/ PassOn(q) \/ GiveUp(q) \/ Lose(q)
    \/ AuthStops \/ GatewayStops

\* History: what an account has is held at this instant.
Remember ==
    lastHeld' = [a \in Account |-> [x \in Role |->
                    IF Has(a, x)' THEN now' ELSE lastHeld[a][x]]]

GatewayNext == GatewayStep /\ Remember

GatewaySpec == GatewayInit /\ [][GatewayNext]_allVars

-----------------------------------------------------------------------------
\* Every variable keeps its type, and a role endpoint is changing roles just
\* when its call is being worked on.
GatewayTypeOK ==
    /\ now \in 0 .. MaxNow
    /\ signing \subseteq Payload
    /\ tokens \subseteq AccessToken
    /\ DOMAIN calls \subseteq ChangeReq
    /\ \A q \in DOMAIN calls : calls[q] \in CallDoc /\ calls[q].role \in RolesIn(calls[q].route)
    /\ lastHeld \in [Account -> [Role -> -1 .. MaxNow]]
    /\ DOMAIN changing =
           {q \in DOMAIN calls : Stage(q, "working")
                                 /\ calls[q].route \in RoleRoutes}

\* The roles of a token were its account's when it was read, and outlive a
\* revocation by no more than the life of a token and the time it took to sign.
RevocationBound ==
    \A token \in tokens : Valid(token) =>
        \A x \in token.roles :
            now - lastHeld[token.account][x] < AccessLife + (token.signedAt - token.readAt)

\* A service that is reached through the gateway alone only ever takes up a
\* call of somebody who had a role for it that long ago, whatever the gateway
\* has been told since.
CallsAuthorised ==
    [][\A q \in ChangeReq :
          /\ Stage(q, "sent") /\ Stage(q, "working")'
          /\ calls[q].route \in DOMAIN Required /\ ServiceOf(calls[q].route) \notin Published
          => LET token == calls[q].token IN
             \E x \in Required[calls[q].route] \cap token.roles :
                 now - lastHeld[token.account][x] < AccessLife + (token.signedAt - token.readAt)
      ]_allVars

\* Whenever an account gets or loses a role, a service is working on the call
\* of a role endpoint that asks for just that: no change goes further than a
\* call, though a removal writes the whole array as it read it and the gateway
\* may long have given the call up.  Where clients do not reach the port of the
\* auth service, the caller has been an administrator since the caller's token
\* was begun.
ChangesAsked ==
    [][\A a \in Account, x \in Role :
          Has(a, x)' # Has(a, x) =>
              \E q \in ChangeReq :
                  /\ Stage(q, "working")
                  /\ calls[q].route = (IF Has(a, x) THEN "removeRole" ELSE "addRole")
                  /\ calls[q].account = a /\ calls[q].role = x
                  /\ "auth" \notin Published =>
                         /\ "ADMIN" \in calls[q].token.roles
                         /\ lastHeld[calls[q].token.account]["ADMIN"] >= calls[q].token.readAt
      ]_allVars

\* No administrator is left, and no token or change of one is on its way.
AdminsGone ==
    /\ \A a \in Account : ~Has(a, "ADMIN")
    /\ \A doc \in signing \cup tokens : "ADMIN" \notin doc.roles
    /\ \A q \in DOMAIN calls : calls[q].route \notin RoleRoutes

\* Only an administrator makes an administrator, where clients do not reach the
\* port of the auth service: once the last one has lost the role, and the tokens
\* and calls made while it lasted are gone, no roles change any more, whoever
\* calls the role endpoints through the gateway.
AdminByAdmin ==
    []["auth" \notin Published /\ AdminsGone => AdminsGone' /\ roles' = roles]_allVars
=============================================================================
