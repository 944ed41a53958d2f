------------------------------ MODULE Sessions ------------------------------
(***************************************************************************)
(* Sign-up, login, refresh and logout of the auth service.                 *)
(*                                                                         *)
(* A login leaves a refresh session in the database and its token with the *)
(* client; a refresh deletes the session of the token presented, and       *)
(* issue() then signs an access token and stores a session with a new      *)
(* token.  The sessions that follow one another from one login make a      *)
(* chain, named by the first token.  A user is known by the email, which   *)
(* has a unique index.  Passwords are left out: a login with a wrong one   *)
(* changes nothing, and neither does a sign-up that is refused.            *)
(***************************************************************************)
EXTENDS InFlight, Integers, FiniteSets

CONSTANTS
    Email,
    Client,
    Proxied,      \* the clients that come through the gateway
    Token,        \* refresh tokens, random and never drawn twice; bounds the issues
    NoToken,
    AuthReq,      \* bounds how many requests are in flight together
    AccessLife,   \* how long an access token is good for
    RefreshLife,  \* after how long a session may be swept
    MaxNow        \* bounds the clock

ASSUME SessionsAssumption ==
    /\ NoToken \notin Token /\ Proxied \subseteq Client
    /\ AccessLife \in Nat \ {0} /\ RefreshLife \in Nat \ {0} /\ MaxNow \in Nat

VARIABLES
    now,
    accounts,   \* the emails that have an account
    sessions,   \* the refresh sessions, by token
    issued,     \* history: the chain of every token, and its user
    serving,    \* what each suspended request holds
    cookie,     \* the refresh token in the cookie of each client
    given,      \* every refresh token a client was given, and may present again
    access      \* when the access token of each client was signed, or -1

sessionVars == <<now, accounts, sessions, issued, serving, cookie, given, access>>

clientVars == <<cookie, given, access>>

-----------------------------------------------------------------------------
SessionDoc == [user : Email, expiresAt : Nat]

\* A request on its way through create() and issue(): its client and account,
\* the chain that it renews, what it does next, and when it signed.
Task ==
    [client : Client, user : Email, chain : Token \cup {NoToken},
     next : {"account", "sign", "session"}, at : 0 .. MaxNow]

NewTask(c, e, x, step) ==
    [client |-> c, user |-> e, chain |-> x, next |-> step, at |-> now]

\* The access token of client c passes the JwtAuthGuard.
Authorized(c) == access[c] >= 0 /\ now < access[c] + AccessLife

\* There is a token left for every request in flight and for one more.
TokensLeft == Cardinality(DOMAIN issued) + Cardinality(DOMAIN serving) < Cardinality(Token)

At(r, step) == r \in DOMAIN serving /\ serving[r].next = step

\* Whether an answer reaches the client; without Faults it does.
Received == IF Faults THEN BOOLEAN ELSE {TRUE}

\* An answer of the service sets the cookie of client c to x.  The gateway
\* puts the header aside on its response, where its interceptor does not look.
CookieSet(c, x) == cookie' = IF c \in Proxied THEN cookie ELSE [cookie EXCEPT ![c] = x]

\* The answer of issue() as its client has it: all of it after a sign-up or a
\* login, but the access token alone after a refresh.
Delivered(task, t) ==
    /\ access' = [access EXCEPT ![task.client] = task.at]
    /\ IF task.chain = NoToken
         THEN CookieSet(task.client, t) /\ given' = [given EXCEPT ![task.client] = @ \cup {t}]
         ELSE UNCHANGED <<cookie, given>>

\* The guard of a refresh lets client c pass with token t, of a session of e,
\* and issue() begins for it.  Whose access token it is does not matter.
Renew(r, c, t, e) ==
    /\ r \notin DOMAIN serving /\ TokensLeft
    /\ Authorized(c) /\ t \in given[c]
    /\ serving' = Put(serving, r, NewTask(c, e, issued[t].chain, "sign"))
    /\ UNCHANGED <<now, accounts, issued, clientVars>>

\* A session of e with a token nobody has seen, and the answer.
Issue(r, t, e) ==
    /\ At(r, "session")
    /\ t \notin DOMAIN issued
    /\ sessions' = Put(sessions, t, [user |-> e, expiresAt |-> now + RefreshLife])
    /\ LET chain == IF serving[r].chain = NoToken THEN t ELSE serving[r].chain IN
           issued' = Put(issued, t, [chain |-> chain, user |-> e])
    /\ \E received \in Received :
           IF received THEN Delivered(serving[r], t) ELSE UNCHANGED clientVars
    /\ serving' = Drop(serving, {r})
    /\ UNCHANGED <<now, accounts>>

(***************************************************************************)
(* Slips: an access token signed for later, a refresh that leaves its      *)
(* session or does not ask for one, and a session for the user of another  *)
(* request.  No behaviour uses them; each breaks a property below.         *)
(***************************************************************************)
SignAhead(r) ==
    /\ At(r, "sign")
    /\ serving' = [serving EXCEPT ![r].next = "session", ![r].at = now + 1]
    /\ UNCHANGED <<now, accounts, sessions, issued, clientVars>>

RefreshConsumeKept(r, c, t) ==
    /\ t \in DOMAIN sessions
    /\ Renew(r, c, t, sessions[t].user)
    /\ UNCHANGED sessions

RefreshConsumeUnasked(r, c, t) ==
    /\ Renew(r, c, t, issued[t].user)
    /\ sessions' = Drop(sessions, {t})

IssueSessionShared(r, t) == \E q \in DOMAIN serving : Issue(r, t, serving[q].user)

-----------------------------------------------------------------------------
SessionsInit ==
    /\ now = 0
    /\ accounts = {}
    /\ sessions = Empty
    /\ issued = Empty
    /\ serving = Empty
    /\ cookie = [c \in Client |-> NoToken]
    /\ given = [c \in Client |-> {}]
    /\ access = [c \in Client |-> -1]

Tick ==
    /\ now < MaxNow
    /\ now' = now + 1
    /\ UNCHANGED <<accounts, sessions, issued, serving, clientVars>>

\* `await exists()` finds no account, and the password is hashed.  If it finds
\* one, the sign-up is refused: 409.
SignUpLookup(r, c, e) ==
    /\ r \notin DOMAIN serving /\ TokensLeft
    /\ e \notin accounts
    /\ serving' = Put(serving, r, NewTask(c, e, NoToken, "account"))
    /\ UNCHANGED <<now, accounts, sessions, issued, clientVars>>

\* `await userModel.create()`.
SignUpCreate(r) ==
    /\ At(r, "account")
    /\ serving[r].user \notin accounts
    /\ accounts' = accounts \cup {serving[r].user}
    /\ serving' = [serving EXCEPT ![r].next = "sign"]
    /\ UNCHANGED <<now, sessions, issued, clientVars>>

\* The unique index refuses a second account: 409.
SignUpConflict(r) ==
    /\ At(r, "account")
    /\ serving[r].user \in accounts
    /\ serving' = Drop(serving, {r})
    /\ UNCHANGED <<now, accounts, sessions, issued, clientVars>>

\* `await validatePassword()`, with the right password.
Login(r, c, e) ==
    /\ r \notin DOMAIN serving /\ TokensLeft
    /\ e \in accounts
    /\ serving' = Put(serving, r, NewTask(c, e, NoToken, "sign"))
    /\ UNCHANGED <<now, accounts, sessions, issued, clientVars>>

\* `await consume()`: the session is found and deleted in one call.  Its
\* expiresAt does not matter.
RefreshConsume(r, c, t) ==
    /\ t \in DOMAIN sessions
    /\ Renew(r, c, t, sessions[t].user)
    /\ sessions' = Drop(sessions, {t})

\* `await findById()` and `await signAccess()`.
Sign(r) ==
    /\ At(r, "sign")
    /\ serving' = [serving EXCEPT ![r].next = "session", ![r].at = now]
    /\ UNCHANGED <<now, accounts, sessions, issued, clientVars>>

\* `await sessionService.create()`, and the answer.
IssueSession(r, t) == Issue(r, t, serving[r].user)

\* The guard, `await invalidate()`, and the answer, which clears the cookie.
\* A client without a cookie has its cookie cleared, to no effect.
Logout(c, t) ==
    /\ Authorized(c) /\ t \in given[c]
    /\ sessions' = Drop(sessions, {t})
    /\ \E received \in Received :
           IF received THEN CookieSet(c, NoToken) ELSE UNCHANGED cookie
    /\ UNCHANGED <<now, accounts, issued, serving, given, access>>

\* The TTL monitor of MongoDB deletes an expired session, at some time.
Sweep(t) ==
    /\ t \in DOMAIN sessions /\ sessions[t].expiresAt <= now
    /\ sessions' = Drop(sessions, {t})
    /\ UNCHANGED <<now, accounts, issued, serving, clientVars>>

\* A call fails, and the request with it: with 409 up to the account, whatever
\* the error, and with 500 after it.  What was done so far stays.
RequestFail(r) ==
    /\ Faults
    /\ r \in DOMAIN serving
    /\ serving' = Drop(serving, {r})
    /\ UNCHANGED <<now, accounts, sessions, issued, clientVars>>

AuthCrash ==
    /\ Faults
    /\ serving # Empty
    /\ serving' = Empty
    /\ UNCHANGED <<now, accounts, sessions, issued, clientVars>>

\* The next step of a request in flight, when no call fails.
Serve(r) ==
    \/ SignUpCreate(r) \/ SignUpConflict(r) \/ Sign(r)
    \/ \E t \in Token : IssueSession(r, t)

SessionsNext ==
    \/ Tick
    \/ \E r \in AuthReq, c \in Client :
           \/ \E e \in Email : SignUpLookup(r, c, e) \/ Login(r, c, e)
           \/ \E t \in Token : RefreshConsume(r, c, t)
    \/ \E r \in AuthReq : Serve(r) \/ RequestFail(r)
    \/ \E c \in Client, t \in Token : Logout(c, t)
    \/ \E t \in Token : Sweep(t)
    \/ AuthCrash

SessionsSpec == SessionsInit /\ [][SessionsNext]_sessionVars

-----------------------------------------------------------------------------
\* Every variable keeps its type.
SessionsTypeOK ==
    /\ now \in 0 .. MaxNow
    /\ accounts \subseteq Email
    /\ DOMAIN sessions \subseteq DOMAIN issued
    /\ \A t \in DOMAIN sessions : sessions[t] \in SessionDoc
    /\ DOMAIN issued \subseteq Token
    /\ \A t \in DOMAIN issued : issued[t] \in [chain : DOMAIN issued, user : Email]
    /\ DOMAIN serving \subseteq AuthReq
    /\ \A r \in DOMAIN serving : serving[r] \in Task
    /\ cookie \in [Client -> DOMAIN issued \cup {NoToken}]
    /\ given \in [Client -> SUBSET DOMAIN issued]
    /\ access \in [Client -> -1 .. MaxNow]

\* The live sessions of chain x, and the requests that renew it.
Live(x) == {t \in DOMAIN sessions : issued[t].chain = x}

Renewing(x) == {r \in DOMAIN serving : serving[r].chain = x}

Single(S) == \A a, b \in S : a = b

\* A login never has more than one way on, a session or a request that has
\* consumed one, however many refreshes present the same token at once or
\* again: a token is good once, and has one successor.
ChainSingle ==
    \A x \in Token :
        /\ Single(Live(x)) /\ Single(Renewing(x))
        /\ Live(x) = {} \/ Renewing(x) = {}

\* However requests of several users interleave, every session and every
\* renewal of a chain is of the user who logged in.
OwnerKept ==
    /\ \A t \in DOMAIN sessions : sessions[t].user = issued[issued[t].chain].user
    /\ \A r \in DOMAIN serving :
           serving[r].chain # NoToken => serving[r].user = issued[serving[r].chain].user

\* A logout that finds its session ends the login: no refresh still on its way
\* can bring a session of it back.
LogoutEnds ==
    [][\A c \in Client, t \in DOMAIN sessions :
           Logout(c, t) => Live(issued[t].chain)' = {} /\ Renewing(issued[t].chain)' = {}]_sessionVars

\* The chains, as logins.
Chains == {x \in DOMAIN issued : issued[x].chain = x}

Logins == INSTANCE LoginSessions
    WITH LoginId <- Token,
         opened <- Chains,
         over <- {x \in Chains : Live(x) = {} /\ Renewing(x) = {}}

\* A login goes on until it is logged out, swept or lost with a failure, and
\* is over then for good: no token of its past brings it back.
LoginsSpec == Logins!Spec

\* A refresh that has taken a session is on its way until it has left another,
\* of the same user; it is only lost if a call of its own fails, or the service
\* stops.  No other request, logout or sweep makes an end of it.
RefreshKept ==
    [][\A x \in Chains : \A r \in Renewing(x) :
           \/ r \in Renewing(x)'
           \/ \E t \in Live(x)' : sessions'[t].user = issued[x].user
           \/ RequestFail(r) \/ AuthCrash]_sessionVars

-----------------------------------------------------------------------------
\* The cookie of a client has the token its login has come to: every answer
\* sets the cookie.
CookieUsable ==
    \A c \in Client, t \in DOMAIN issued :
        /\ cookie[c] # NoToken
        /\ issued[t].chain = issued[cookie[c]].chain /\ t \in DOMAIN sessions
        => t = cookie[c]

\* A client that was given refresh tokens, all of them of live sessions, has
\* one of them in its cookie: an answer with a token sets the cookie.
CookieHeld ==
    \A c \in Client :
        given[c] # {} /\ given[c] \subseteq DOMAIN sessions => cookie[c] \in given[c]
=============================================================================
