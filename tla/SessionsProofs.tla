--------------------------- MODULE SessionsProofs ---------------------------
(***************************************************************************)
(* A login has one way on, proved for any accounts, clients and requests,  *)
(* with any failures.                                                      *)
(*                                                                         *)
(* The steps are sorted by what they do to sessions, tokens and requests:  *)
(* they leave them, begin a request without a chain, move a request on, or *)
(* end sessions and requests; a refresh turns a session into a request,    *)
(* and an issue a request into a session.                                  *)
(***************************************************************************)
EXTENDS Sessions, FiniteSetTheorems, TLAPS

\* A chain is named by a token of its own, and every request renews a chain
\* that there is.
ChainsRooted ==
    /\ \A t \in DOMAIN issued : issued[issued[t].chain].chain = issued[t].chain
    /\ \A r \in DOMAIN serving : serving[r].chain \in Chains \cup {NoToken}

SessionsInv == SessionsTypeOK /\ ChainsRooted /\ ChainSingle /\ OwnerKept

-----------------------------------------------------------------------------
\* The kinds of steps, as far as sessions, tokens and requests go.
Begins ==
    \E r \in AuthReq, task \in Task :
        /\ r \notin DOMAIN serving
        /\ task.chain = NoToken
        /\ serving' = Put(serving, r, task)
        /\ UNCHANGED <<sessions, issued>>

MovesOn ==
    /\ DOMAIN serving' = DOMAIN serving
    /\ \A r \in DOMAIN serving :
           /\ serving'[r] \in Task
           /\ serving'[r].chain = serving[r].chain /\ serving'[r].user = serving[r].user
    /\ UNCHANGED <<sessions, issued>>

Ends ==
    /\ DOMAIN serving' \subseteq DOMAIN serving
    /\ \A r \in DOMAIN serving' : serving'[r] = serving[r]
    /\ DOMAIN sessions' \subseteq DOMAIN sessions
    /\ \A t \in DOMAIN sessions' : sessions'[t] = sessions[t]
    /\ UNCHANGED issued

Takes ==
    \E r \in AuthReq, t \in DOMAIN sessions, task \in Task :
        /\ r \notin DOMAIN serving
        /\ task.chain = issued[t].chain /\ task.user = sessions[t].user
        /\ serving' = Put(serving, r, task)
        /\ sessions' = Drop(sessions, {t})
        /\ UNCHANGED issued

Leaves ==
    \E r \in DOMAIN serving, t \in Token \ DOMAIN issued, doc \in SessionDoc :
        LET x == serving[r].chain IN
        /\ doc.user = serving[r].user
        /\ issued' = Put(issued, t, [chain |-> IF x = NoToken THEN t ELSE x, user |-> doc.user])
        /\ sessions' = Put(sessions, t, doc)
        /\ serving' = Drop(serving, {r})

\* A new task is a task.
LEMMA NewTaskType ==
    ASSUME SessionsTypeOK, NEW c \in Client, NEW e \in Email, NEW x \in Token \cup {NoToken},
           NEW step \in {"account", "sign", "session"}
    PROVE  /\ NewTask(c, e, x, step) \in Task
           /\ NewTask(c, e, x, step).chain = x /\ NewTask(c, e, x, step).user = e
  BY DEF NewTask, Task, SessionsTypeOK

\* Every step is of one of these kinds, and keeps the types of the rest.
LEMMA StepKinds ==
    ASSUME SessionsTypeOK, [SessionsNext]_sessionVars
    PROVE  Begins \/ MovesOn \/ Ends \/ Takes \/ Leaves
  <1>1. CASE \/ Tick
             \/ \E c \in Client, t \in Token : Logout(c, t)
             \/ \E t \in Token : Sweep(t)
             \/ \E r \in AuthReq : SignUpConflict(r) \/ RequestFail(r)
             \/ AuthCrash
             \/ UNCHANGED sessionVars
    <2>1. Ends
      BY <1>1 DEF Tick, Logout, Sweep, SignUpConflict, RequestFail, AuthCrash,
                  sessionVars, Ends, Drop, Restrict, Empty
    <2>2. QED
      BY <2>1
  <1>2. ASSUME NEW r \in AuthReq, NEW c \in Client, NEW e \in Email,
               SignUpLookup(r, c, e) \/ Login(r, c, e)
        PROVE  Begins
    BY <1>2, NewTaskType DEF SignUpLookup, Login, Begins
  <1>3. ASSUME NEW r \in AuthReq, SignUpCreate(r) \/ Sign(r) PROVE MovesOn
    BY <1>3 DEF SignUpCreate, Sign, MovesOn, SessionsTypeOK, Task
  <1>4. ASSUME NEW r \in AuthReq, NEW c \in Client, NEW t \in Token, RefreshConsume(r, c, t)
        PROVE  Takes
    <2>1. t \in DOMAIN sessions /\ sessions[t].user \in Email
      BY <1>4 DEF RefreshConsume, SessionsTypeOK, SessionDoc
    <2>2. issued[t].chain \in Token
      BY <2>1 DEF SessionsTypeOK
    <2> DEFINE task == NewTask(c, sessions[t].user, issued[t].chain, "sign")
    <2>3. task \in Task /\ task.chain = issued[t].chain /\ task.user = sessions[t].user
      BY <2>1, <2>2, NewTaskType
    <2> HIDE DEF task
    <2>4. /\ r \notin DOMAIN serving /\ UNCHANGED issued
          /\ sessions' = Drop(sessions, {t})
          /\ serving' = Put(serving, r, task)
      BY <1>4 DEF RefreshConsume, Renew, task
    <2>5. QED
      BY <2>1, <2>3, <2>4 DEF Takes
  <1>5. ASSUME NEW r \in AuthReq, NEW t \in Token, IssueSession(r, t) PROVE Leaves
    <2>1. r \in DOMAIN serving /\ serving[r] \in Task /\ t \notin DOMAIN issued
      BY <1>5 DEF IssueSession, Issue, At, SessionsTypeOK
    <2>2. [user |-> serving[r].user, expiresAt |-> now + RefreshLife] \in SessionDoc
      BY <2>1, SessionsAssumption DEF SessionDoc, Task, SessionsTypeOK
    <2>3. QED
      BY <1>5, <2>1, <2>2 DEF IssueSession, Issue, Leaves
  <1>6. QED
    BY <1>1, <1>2, <1>3, <1>4, <1>5 DEF SessionsNext, Serve

-----------------------------------------------------------------------------
\* What a client was given and the clock keep their types: a client is only
\* ever given a token that is being issued.
LEMMA ClientTypes ==
    ASSUME SessionsTypeOK, [SessionsNext]_sessionVars
    PROVE  /\ now' \in 0 .. MaxNow
           /\ accounts' \subseteq Email
           /\ cookie' \in [Client -> DOMAIN issued' \cup {NoToken}]
           /\ given' \in [Client -> SUBSET DOMAIN issued']
           /\ access' \in [Client -> -1 .. MaxNow]
  <1> USE SessionsAssumption DEF SessionsTypeOK, clientVars
  <1>1. CASE Tick
    BY <1>1 DEF Tick
  <1>3. ASSUME NEW r \in AuthReq, NEW c \in Client, NEW e \in Email,
               SignUpLookup(r, c, e) \/ Login(r, c, e)
        PROVE  UNCHANGED <<now, accounts, issued, clientVars>>
    BY <1>3 DEF SignUpLookup, Login
  <1>4. ASSUME NEW r \in AuthReq, NEW c \in Client, NEW t \in Token, RefreshConsume(r, c, t)
        PROVE  UNCHANGED <<now, accounts, issued, clientVars>>
    BY <1>4 DEF RefreshConsume, Renew
  <1>5. ASSUME NEW r \in AuthReq,
               SignUpCreate(r) \/ SignUpConflict(r) \/ Sign(r) \/ RequestFail(r)
        PROVE  /\ accounts' \subseteq Email
               /\ UNCHANGED <<now, issued, clientVars>>
    <2>1. r \in DOMAIN serving /\ serving[r].user \in Email
      BY <1>5 DEF SignUpCreate, SignUpConflict, Sign, RequestFail, At, Task
    <2>2. QED
      BY <1>5, <2>1 DEF SignUpCreate, SignUpConflict, Sign, RequestFail
  <1>6. ASSUME NEW r \in AuthReq, NEW t \in Token, IssueSession(r, t)
        PROVE  /\ UNCHANGED <<now, accounts>>
               /\ cookie' \in [Client -> DOMAIN issued' \cup {NoToken}]
               /\ given' \in [Client -> SUBSET DOMAIN issued']
               /\ access' \in [Client -> -1 .. MaxNow]
    <2>1. DOMAIN issued' = DOMAIN issued \cup {t}
      BY <1>6 DEF IssueSession, Issue, Put
    <2>2. serving[r].client \in Client /\ serving[r].at \in 0 .. MaxNow
      BY <1>6 DEF IssueSession, Issue, At, Task
    <2>3. UNCHANGED clientVars \/ Delivered(serving[r], t)
      BY <1>6 DEF IssueSession, Issue
    <2>4. QED
      BY <1>6, <2>1, <2>2, <2>3 DEF IssueSession, Issue, Delivered, CookieSet
  <1>7. ASSUME NEW c \in Client, NEW t \in Token, Logout(c, t)
        PROVE  /\ UNCHANGED <<now, accounts, issued, given, access>>
               /\ cookie' \in [Client -> DOMAIN issued \cup {NoToken}]
    BY <1>7 DEF Logout, CookieSet
  <1>8. ASSUME \/ \E t \in Token : Sweep(t)
               \/ AuthCrash
               \/ UNCHANGED sessionVars
        PROVE  UNCHANGED <<now, accounts, issued, clientVars>>
    BY <1>8 DEF Sweep, AuthCrash, sessionVars
  <1>9. QED
    BY <1>1, <1>3, <1>4, <1>5, <1>6, <1>7, <1>8 DEF SessionsNext, Serve

\* The other variables keep theirs.
LEMMA DocumentTypes ==
    ASSUME SessionsTypeOK, ChainsRooted, Begins \/ MovesOn \/ Ends \/ Takes \/ Leaves
    PROVE  /\ DOMAIN sessions' \subseteq DOMAIN issued'
           /\ \A t \in DOMAIN sessions' : sessions'[t] \in SessionDoc
           /\ DOMAIN issued' \subseteq Token
           /\ \A t \in DOMAIN issued' : issued'[t] \in [chain : DOMAIN issued', user : Email]
           /\ DOMAIN serving' \subseteq AuthReq
           /\ \A r \in DOMAIN serving' : serving'[r] \in Task
  <1> USE DEF SessionsTypeOK
  <1>1. CASE Begins
    BY <1>1 DEF Begins, Put
  <1>2. CASE MovesOn \/ Ends
    BY <1>2 DEF MovesOn, Ends
  <1>3. CASE Takes
    BY <1>3 DEF Takes, Put, Drop, Restrict
  <1>4. CASE Leaves
    <2>1. PICK r \in DOMAIN serving, t \in Token \ DOMAIN issued, doc \in SessionDoc,
               x \in Token :
              /\ x \in DOMAIN issued \cup {t}
              /\ issued' = Put(issued, t, [chain |-> x, user |-> doc.user])
              /\ sessions' = Put(sessions, t, doc)
              /\ serving' = Drop(serving, {r})
      BY <1>4 DEF Leaves, ChainsRooted, Chains
    <2>2. doc.user \in Email
      BY DEF SessionDoc
    <2>3. DOMAIN issued' = DOMAIN issued \cup {t}
      BY <2>1 DEF Put
    <2>4. \A q \in DOMAIN issued' : issued'[q] \in [chain : DOMAIN issued', user : Email]
      BY <2>1, <2>2, <2>3 DEF Put
    <2>5. /\ DOMAIN sessions' \subseteq DOMAIN issued'
          /\ \A q \in DOMAIN sessions' : sessions'[q] \in SessionDoc
      BY <2>1, <2>3 DEF Put
    <2>6. DOMAIN serving' \subseteq AuthReq /\ \A q \in DOMAIN serving' : serving'[q] \in Task
      BY <2>1 DEF Drop, Restrict
    <2>7. QED
      BY <2>3, <2>4, <2>5, <2>6
  <1>5. QED
    BY <1>1, <1>2, <1>3, <1>4

-----------------------------------------------------------------------------
\* What ends takes sessions and requests from chains.
LEMMA EndsChains ==
    ASSUME Ends, NEW x
    PROVE  Live(x)' \subseteq Live(x) /\ Renewing(x)' \subseteq Renewing(x)
  BY DEF Ends, Live, Renewing

\* What begins without a chain, or moves on, leaves the chains alone.
LEMMA BeginsChains ==
    ASSUME SessionsTypeOK, Begins \/ MovesOn, NEW x \in Token
    PROVE  Live(x)' = Live(x) /\ Renewing(x)' = Renewing(x)
  BY SessionsAssumption DEF Begins, MovesOn, Live, Renewing, Put

\* A refresh turns the session of one chain into a request.
LEMMA TakesChains ==
    ASSUME SessionsInv, Takes
    PROVE  \E y \in Token, r \in AuthReq :
               /\ Live(y) # {} /\ Live(y)' = {} /\ Renewing(y)' = {r}
               /\ \A x \in Token \ {y} : Live(x)' = Live(x) /\ Renewing(x)' = Renewing(x)
  <1>1. PICK r \in AuthReq, t \in DOMAIN sessions, task \in Task :
            /\ r \notin DOMAIN serving
            /\ task.chain = issued[t].chain /\ task.user = sessions[t].user
            /\ serving' = Put(serving, r, task)
            /\ sessions' = Drop(sessions, {t})
            /\ UNCHANGED issued
    BY DEF Takes
  <1>2. PICK y \in Token : y = issued[t].chain
    BY DEF SessionsInv, SessionsTypeOK
  <1>3. /\ \A q \in DOMAIN serving : q \in DOMAIN serving' /\ serving'[q] = serving[q]
        /\ DOMAIN serving' = DOMAIN serving \cup {r} /\ serving'[r].chain = y
        /\ DOMAIN sessions' = DOMAIN sessions \ {t} /\ issued' = issued
    BY <1>1, <1>2 DEF Put, Drop, Restrict
  <1>4. t \in Live(y)
    BY <1>2 DEF Live
  <1>5. Live(y) = {t} /\ Renewing(y) = {}
    BY <1>2, <1>4 DEF SessionsInv, ChainSingle, Single
  <1>6. Live(y)' = {} /\ Renewing(y)' = {r}
    BY <1>3, <1>5 DEF Live, Renewing
  <1>7. \A x \in Token \ {y} : Live(x)' = Live(x) /\ Renewing(x)' = Renewing(x)
    BY <1>1, <1>2, <1>3 DEF Live, Renewing
  <1>8. QED
    BY <1>2, <1>4, <1>6, <1>7

\* An issue leaves a session in one chain, which was new or being renewed.
LEMMA LeavesChains ==
    ASSUME SessionsInv, Leaves
    PROVE  \E y \in Token, t \in Token \ DOMAIN issued :
               /\ Renewing(y) # {} \/ y = t
               /\ Live(y)' = {t} /\ Renewing(y)' = {}
               /\ \A x \in Token \ {y} : Live(x)' = Live(x) /\ Renewing(x)' = Renewing(x)
               /\ issued'[t].chain = y /\ DOMAIN issued' = DOMAIN issued \cup {t}
               /\ \A q \in DOMAIN issued : issued'[q] = issued[q]
  <1>1. PICK r \in DOMAIN serving, t \in Token \ DOMAIN issued, doc \in SessionDoc :
            LET x == serving[r].chain IN
            /\ doc.user = serving[r].user
            /\ issued' = Put(issued, t, [chain |-> IF x = NoToken THEN t ELSE x, user |-> doc.user])
            /\ sessions' = Put(sessions, t, doc)
            /\ serving' = Drop(serving, {r})
    BY DEF Leaves
  <1>2. PICK y \in Token : y = IF serving[r].chain = NoToken THEN t ELSE serving[r].chain
    BY DEF SessionsInv, SessionsTypeOK, ChainsRooted, Chains
  <1>3. /\ DOMAIN issued' = DOMAIN issued \cup {t} /\ issued'[t].chain = y
        /\ \A q \in DOMAIN issued : issued'[q] = issued[q]
        /\ DOMAIN sessions' = DOMAIN sessions \cup {t} /\ t \notin DOMAIN sessions
        /\ DOMAIN serving' = DOMAIN serving \ {r}
        /\ \A q \in DOMAIN serving' : serving'[q] = serving[q]
    BY <1>1, <1>2 DEF Put, Drop, Restrict, SessionsInv, SessionsTypeOK
  <1>4. CASE serving[r].chain = NoToken
    <2>1. Live(t) = {} /\ Renewing(t) = {}
      BY <1>1, SessionsAssumption DEF Live, Renewing, SessionsInv, SessionsTypeOK, ChainsRooted, Chains
    <2>2. \A x \in Token : Renewing(x)' = Renewing(x)
      BY <1>3, <1>4, SessionsAssumption DEF Renewing
    <2>3. \A x \in Token : Live(x)' = IF x = y THEN Live(x) \cup {t} ELSE Live(x)
      BY <1>3 DEF Live, SessionsInv, SessionsTypeOK
    <2>4. QED
      BY <1>2, <1>3, <1>4, <2>1, <2>2, <2>3
  <1>5. CASE serving[r].chain # NoToken
    <2>1. r \in Renewing(y)
      BY <1>2, <1>5 DEF Renewing
    <2>2. Renewing(y) = {r} /\ Live(y) = {}
      BY <1>2, <2>1 DEF SessionsInv, ChainSingle, Single
    <2>3. \A x \in Token : Renewing(x)' = Renewing(x) \ {r}
      BY <1>3 DEF Renewing
    <2>4. \A x \in Token : Live(x)' = IF x = y THEN Live(x) \cup {t} ELSE Live(x)
      BY <1>3 DEF Live, SessionsInv, SessionsTypeOK
    <2>5. \A x \in Token \ {y} : r \notin Renewing(x)
      BY <1>2, <1>5 DEF Renewing
    <2>6. Live(y)' = {t} /\ Renewing(y)' = {} /\ Renewing(y) # {}
      BY <2>2, <2>3, <2>4
    <2>7. \A x \in Token \ {y} : Live(x)' = Live(x) /\ Renewing(x)' = Renewing(x)
      BY <2>3, <2>4, <2>5
    <2>8. QED
      BY <1>3, <2>6, <2>7
  <1>6. QED
    BY <1>4, <1>5

\* A chain has one way on after each step: what leaves a session enters a
\* request, and what leaves a request enters a session.
LEMMA ChainSingleStep ==
    ASSUME SessionsInv, Begins \/ MovesOn \/ Ends \/ Takes \/ Leaves
    PROVE  ChainSingle'
  <1> SUFFICES ASSUME NEW x \in Token
               PROVE  /\ Single(Live(x)') /\ Single(Renewing(x)')
                      /\ Live(x)' = {} \/ Renewing(x)' = {}
    BY DEF ChainSingle, Single
  <1>1. /\ Single(Live(x)) /\ Single(Renewing(x))
        /\ Live(x) = {} \/ Renewing(x) = {}
    BY DEF SessionsInv, ChainSingle
  <1>2. CASE Begins \/ MovesOn
    BY <1>1, <1>2, BeginsChains DEF SessionsInv
  <1>3. CASE Ends
    BY <1>1, <1>3, EndsChains DEF Single
  <1>4. CASE Takes
    BY <1>1, <1>4, TakesChains DEF Single
  <1>5. CASE Leaves
    <2>1. \/ Renewing(x)' = {} /\ \E t \in Token : Live(x)' = {t}
          \/ Live(x)' = Live(x) /\ Renewing(x)' = Renewing(x)
      BY <1>5, LeavesChains
    <2>2. QED
      BY <1>1, <2>1 DEF Single
  <1>6. QED
    BY <1>2, <1>3, <1>4, <1>5

\* No step takes a chain's name from it, or a user from a session.
LEMMA OwnerStep ==
    ASSUME SessionsInv, Begins \/ MovesOn \/ Ends \/ Takes \/ Leaves
    PROVE  (ChainsRooted /\ OwnerKept)'
  <1> USE DEF ChainsRooted, OwnerKept, Chains
  <1>1. CASE Begins
    BY <1>1 DEF Begins, Put, SessionsInv
  <1>2. CASE MovesOn \/ Ends
    BY <1>2 DEF MovesOn, Ends, SessionsInv
  <1>3. CASE Takes
    BY <1>3 DEF Takes, Put, Drop, Restrict, SessionsInv, SessionsTypeOK
  <1>4. CASE Leaves
    <2>1. PICK r \in DOMAIN serving, t \in Token \ DOMAIN issued, doc \in SessionDoc :
              LET x == serving[r].chain IN
              /\ doc.user = serving[r].user
              /\ issued' = Put(issued, t, [chain |-> IF x = NoToken THEN t ELSE x,
                                           user |-> doc.user])
              /\ sessions' = Put(sessions, t, doc)
              /\ serving' = Drop(serving, {r})
      BY <1>4 DEF Leaves
    <2>2. PICK y \in Token : y = IF serving[r].chain = NoToken THEN t ELSE serving[r].chain
      BY DEF SessionsInv, SessionsTypeOK
    <2>3. /\ y = t \/ (y \in Chains /\ issued[y].user = doc.user)
          /\ issued' = Put(issued, t, [chain |-> y, user |-> doc.user])
      BY <2>1, <2>2 DEF SessionsInv
    <2>4. /\ DOMAIN issued' = DOMAIN issued \cup {t}
          /\ issued'[t].chain = y /\ issued'[t].user = doc.user
          /\ \A q \in DOMAIN issued : issued'[q] = issued[q]
      BY <2>3 DEF Put
    <2>5. /\ DOMAIN serving' = DOMAIN serving \ {r}
          /\ \A q \in DOMAIN serving' : serving'[q] = serving[q]
      BY <2>1 DEF Drop, Restrict
    <2>6. /\ DOMAIN sessions' = DOMAIN sessions \cup {t} /\ sessions'[t] = doc
          /\ t \notin DOMAIN sessions
          /\ \A q \in DOMAIN sessions : sessions'[q] = sessions[q]
      BY <2>1 DEF Put, SessionsInv, SessionsTypeOK
    <2>7. \A q \in DOMAIN issued : issued[q].chain \in DOMAIN issued
      BY DEF SessionsInv, SessionsTypeOK
    <2>8. ChainsRooted'
      BY <2>3, <2>4, <2>5, <2>7 DEF SessionsInv
    <2>9. OwnerKept'
      BY <2>3, <2>4, <2>5, <2>6, <2>7, SessionsAssumption DEF SessionsInv, SessionsTypeOK
    <2>10. QED
      BY <2>8, <2>9
  <1>5. QED
    BY <1>1, <1>2, <1>3, <1>4

-----------------------------------------------------------------------------
\* The service starts without accounts, sessions and requests.
LEMMA SessionsInvInit == SessionsInit => SessionsInv
  BY SessionsAssumption
     DEF SessionsInit, SessionsInv, SessionsTypeOK, ChainsRooted, ChainSingle, OwnerKept,
         Live, Renewing, Single, Empty

\* Every step keeps the invariant.
LEMMA SessionsInvStep == SessionsInv /\ [SessionsNext]_sessionVars => SessionsInv'
  <1> SUFFICES ASSUME SessionsInv, [SessionsNext]_sessionVars PROVE SessionsInv'
    OBVIOUS
  <1>1. Begins \/ MovesOn \/ Ends \/ Takes \/ Leaves
    BY StepKinds DEF SessionsInv
  <1>2. SessionsTypeOK'
    BY <1>1, ClientTypes, DocumentTypes DEF SessionsInv, SessionsTypeOK
  <1>3. QED
    BY <1>1, <1>2, ChainSingleStep, OwnerStep DEF SessionsInv

\* Every variable keeps its type.
THEOREM SessionsTyped == SessionsSpec => []SessionsTypeOK
  <1>1. SessionsInv => SessionsTypeOK
    BY DEF SessionsInv
  <1>2. QED
    BY <1>1, SessionsInvInit, SessionsInvStep, PTL DEF SessionsSpec

\* A login never has more than one way on: a refresh token is good once.
THEOREM SessionsSingle == SessionsSpec => []ChainSingle
  <1>1. SessionsInv => ChainSingle
    BY DEF SessionsInv
  <1>2. QED
    BY <1>1, SessionsInvInit, SessionsInvStep, PTL DEF SessionsSpec

\* A login stays its user's, through every session and renewal of its chain.
THEOREM SessionsOwned == SessionsSpec => []OwnerKept
  <1>1. SessionsInv => OwnerKept
    BY DEF SessionsInv
  <1>2. QED
    BY <1>1, SessionsInvInit, SessionsInvStep, PTL DEF SessionsSpec

\* A logout that finds its session leaves no other, and no refresh on its way.
THEOREM LogoutsEnd == SessionsSpec => LogoutEnds
  <1>1. ASSUME SessionsInv, NEW c \in Client, NEW t \in DOMAIN sessions, Logout(c, t)
        PROVE  Live(issued[t].chain)' = {} /\ Renewing(issued[t].chain)' = {}
    <2>1. PICK x \in Token : x = issued[t].chain
      BY <1>1 DEF SessionsInv, SessionsTypeOK
    <2>2. t \in Live(x)
      BY <2>1 DEF Live
    <2>3. Live(x) = {t} /\ Renewing(x) = {}
      BY <1>1, <2>2 DEF SessionsInv, ChainSingle, Single
    <2>4. /\ DOMAIN sessions' = DOMAIN sessions \ {t}
          /\ issued' = issued /\ serving' = serving
      BY <1>1 DEF Logout, Drop, Restrict
    <2>5. QED
      BY <2>1, <2>3, <2>4 DEF Live, Renewing
  <1>2. SessionsInv /\ [SessionsNext]_sessionVars =>
            [\A c \in Client, t \in DOMAIN sessions :
                 Logout(c, t) => Live(issued[t].chain)' = {}
                                 /\ Renewing(issued[t].chain)' = {}]_sessionVars
    BY <1>1
  <1>3. QED
    BY <1>2, SessionsInvInit, SessionsInvStep, PTL DEF SessionsSpec, LogoutEnds

-----------------------------------------------------------------------------
\* The logins that are over, as the refinement sees them.
Over == {x \in Chains : Live(x) = {} /\ Renewing(x) = {}}

\* A step opens a login, ends some, or goes unseen.
LEMMA LoginsStep ==
    SessionsInv /\ [SessionsNext]_sessionVars => Logins!Next \/ UNCHANGED <<Chains, Over>>
  <1> SUFFICES ASSUME SessionsInv, [SessionsNext]_sessionVars
               PROVE  Logins!Next \/ UNCHANGED <<Chains, Over>>
    OBVIOUS
  <1>0. Chains \subseteq Token
    BY DEF Chains, SessionsInv, SessionsTypeOK
  <1>1. CASE Begins \/ MovesOn
    <2>1. issued' = issued
      BY <1>1 DEF Begins, MovesOn
    <2>2. Chains' = Chains
      BY <2>1 DEF Chains
    <2>3. Over' = Over
      BY <1>0, <1>1, <2>2, BeginsChains DEF Over, SessionsInv
    <2>4. QED
      BY <2>2, <2>3
  <1>2. CASE Ends
    <2>1. Chains' = Chains
      BY <1>2 DEF Ends, Chains
    <2>2. Over \subseteq Over' /\ Over' \subseteq Chains
      BY <1>2, <2>1, EndsChains DEF Over
    <2>3. \E S \in SUBSET (Chains \ Over) : Over' = Over \cup S
      <3>1. Over' = Over \cup (Over' \ Over) /\ Over' \ Over \in SUBSET (Chains \ Over)
        BY <2>2
      <3>2. QED
        BY <3>1
    <2>4. QED
      BY <2>1, <2>3 DEF Logins!Next, Logins!End, Over
  <1>3. CASE Takes
    <2>1. Chains' = Chains
      BY <1>3 DEF Takes, Chains
    <2>2. Over' = Over
      BY <1>0, <1>3, <2>1, TakesChains DEF Over
    <2>3. QED
      BY <2>1, <2>2
  <1>4. CASE Leaves
    <2>1. PICK y \in Token, t \in Token \ DOMAIN issued :
               /\ Renewing(y) # {} \/ y = t
               /\ Live(y)' = {t} /\ Renewing(y)' = {}
               /\ \A x \in Token \ {y} : Live(x)' = Live(x) /\ Renewing(x)' = Renewing(x)
               /\ issued'[t].chain = y /\ DOMAIN issued' = DOMAIN issued \cup {t}
               /\ \A q \in DOMAIN issued : issued'[q] = issued[q]
      BY <1>4, LeavesChains
    <2>2. Chains' = IF y = t THEN Chains \cup {t} ELSE Chains
      BY <2>1 DEF Chains
    <2>3. y \notin Over /\ y \notin Over'
      BY <2>1 DEF Over, Chains
    <2>4. Over' = Over
      BY <1>0, <2>1, <2>2, <2>3 DEF Over
    <2>5. CASE y = t
      <3>1. Logins!Open(t)
        BY <2>1, <2>2, <2>4, <2>5 DEF Logins!Open, Over, Chains
      <3>2. QED
        BY <3>1 DEF Logins!Next
    <2>6. QED
      BY <2>2, <2>4, <2>5
  <1>5. QED
    BY <1>1, <1>2, <1>3, <1>4, StepKinds DEF SessionsInv

\* The sessions implement logins that are open until they are over, and over
\* for good.
THEOREM LoginsImplemented == SessionsSpec => LoginsSpec
  <1>1. SessionsInit => Logins!Init
    BY DEF SessionsInit, Logins!Init, Chains, Empty
  <1>2. QED
    BY <1>1, SessionsInvInit, SessionsInvStep, LoginsStep, PTL
       DEF SessionsSpec, LoginsSpec, Logins!Spec, Over

-----------------------------------------------------------------------------
\* A refresh token that has no session any more, as it was used up, logged out
\* or swept, never has one again: it is drawn once, and its session is stored
\* once.
THEOREM TokensSpent ==
    SessionsSpec => [][\A t \in DOMAIN issued \ DOMAIN sessions :
                           t \in DOMAIN issued' \ DOMAIN sessions']_sessionVars
  <1>1. ASSUME SessionsInv, [SessionsNext]_sessionVars, NEW t \in DOMAIN issued \ DOMAIN sessions
        PROVE  t \in DOMAIN issued' \ DOMAIN sessions'
    <2>1. Begins \/ MovesOn \/ Ends \/ Takes \/ Leaves
      BY <1>1, StepKinds DEF SessionsInv
    <2>2. QED
      BY <2>1 DEF Begins, MovesOn, Ends, Takes, Leaves, Put, Drop, Restrict
  <1>2. SessionsInv /\ [SessionsNext]_sessionVars =>
            [\A t \in DOMAIN issued \ DOMAIN sessions :
                 t \in DOMAIN issued' \ DOMAIN sessions']_sessionVars
    BY <1>1
  <1>3. QED
    BY <1>2, SessionsInvInit, SessionsInvStep, PTL DEF SessionsSpec

\* A request that is still to create an account renews no chain.
AccountsFirst == \A r \in DOMAIN serving : At(r, "account") => serving[r].chain = NoToken

\* It stays that way.
LEMMA AccountsFirstStep ==
    SessionsTypeOK /\ AccountsFirst /\ [SessionsNext]_sessionVars => AccountsFirst'
  <1> SUFFICES ASSUME SessionsTypeOK, AccountsFirst, [SessionsNext]_sessionVars
               PROVE  AccountsFirst'
    OBVIOUS
  <1> USE DEF AccountsFirst, At
  <1>1. CASE serving' = serving
    BY <1>1
  <1>2. ASSUME NEW r, NEW c, NEW e,
               SignUpLookup(r, c, e) \/ Login(r, c, e) \/ RefreshConsume(r, c, e)
        PROVE  AccountsFirst'
    BY <1>2 DEF SignUpLookup, Login, RefreshConsume, Renew, NewTask, Put
  <1>3. ASSUME NEW r, SignUpCreate(r) \/ Sign(r) PROVE AccountsFirst'
    <2>1. /\ r \in DOMAIN serving /\ DOMAIN serving' = DOMAIN serving
          /\ \A q \in DOMAIN serving \ {r} : serving'[q] = serving[q]
          /\ serving[r] \in Task
      BY <1>3 DEF SignUpCreate, Sign, SessionsTypeOK
    <2>2. serving'[r].next # "account"
      BY <1>3, <2>1 DEF SignUpCreate, Sign, Task
    <2>3. QED
      BY <2>1, <2>2
  <1>4. ASSUME NEW r, SignUpConflict(r) \/ RequestFail(r) \/ \E t \in Token : IssueSession(r, t)
        PROVE  AccountsFirst'
    BY <1>4 DEF SignUpConflict, RequestFail, IssueSession, Issue, Drop, Restrict
  <1>5. CASE AuthCrash
    BY <1>5 DEF AuthCrash, Empty
  <1>6. QED
    BY <1>1, <1>2, <1>3, <1>4, <1>5
       DEF SessionsNext, sessionVars, Tick, Serve, Logout, Sweep

\* A request that renews a chain ends with a new token, or by a failure of its
\* own or of the service.
LEMMA RefreshEnds ==
    ASSUME SessionsTypeOK, AccountsFirst, [SessionsNext]_sessionVars,
           NEW r \in DOMAIN serving, serving[r].chain # NoToken, r \notin DOMAIN serving'
    PROVE  issued' # issued \/ RequestFail(r) \/ AuthCrash
  <1>1. ASSUME NEW q, NEW c, NEW e,
               SignUpLookup(q, c, e) \/ Login(q, c, e) \/ RefreshConsume(q, c, e)
        PROVE  FALSE
    BY <1>1 DEF SignUpLookup, Login, RefreshConsume, Renew, Put
  <1>2. ASSUME NEW q, SignUpCreate(q) \/ Sign(q) PROVE FALSE
    BY <1>2 DEF SignUpCreate, Sign
  <1>3. ASSUME NEW q, SignUpConflict(q) PROVE FALSE
    <2>1. q = r
      BY <1>3 DEF SignUpConflict, Drop, Restrict
    <2>2. QED
      BY <1>3, <2>1 DEF SignUpConflict, AccountsFirst
  <1>4. ASSUME NEW q, NEW t \in Token, IssueSession(q, t) PROVE issued' # issued
    BY <1>4 DEF IssueSession, Issue, Put
  <1>5. ASSUME NEW q, RequestFail(q) PROVE q = r
    BY <1>5 DEF RequestFail, Drop, Restrict
  <1>6. QED
    BY <1>1, <1>2, <1>3, <1>4, <1>5 DEF SessionsNext, sessionVars, Tick, Serve, Logout, Sweep

\* A refresh that has used up its token is the only thing left of its login,
\* and no other request, logout or expiry takes it away: it stays in flight until
\* the login has a session again, of the same user, or fails on its own.
THEOREM RefreshesKept == SessionsSpec => RefreshKept
  <1> DEFINE Kept == \A x \in Chains : \A r \in Renewing(x) :
                         \/ r \in Renewing(x)'
                         \/ \E t \in Live(x)' : sessions'[t].user = issued[x].user
                         \/ RequestFail(r) \/ AuthCrash
  <1>1. ASSUME SessionsInv, SessionsInv', AccountsFirst, [SessionsNext]_sessionVars,
               NEW x \in Chains, NEW r \in Renewing(x), r \notin Renewing(x)'
        PROVE  \/ \E t \in Live(x)' : sessions'[t].user = issued[x].user
               \/ RequestFail(r) \/ AuthCrash
    <2>1. /\ x \in Token /\ x \in DOMAIN issued /\ Live(x) = {} /\ x # NoToken
          /\ r \in DOMAIN serving /\ serving[r].chain = x
      BY <1>1, SessionsAssumption DEF Chains, Renewing, SessionsInv, SessionsTypeOK, ChainSingle
    <2>2. ~(Begins \/ MovesOn)
      BY <1>1, <2>1, BeginsChains DEF SessionsInv
    <2>3. ~Takes
      BY <1>1, <2>1, TakesChains
    <2>4. CASE Leaves
      <3>1. PICK y \in Token, t \in Token \ DOMAIN issued :
                /\ Live(y)' = {t}
                /\ \A z \in Token \ {y} : Renewing(z)' = Renewing(z)
                /\ issued'[t].chain = y
                /\ \A q \in DOMAIN issued : issued'[q] = issued[q]
        BY <1>1, <2>4, LeavesChains
      <3>2. y = x
        BY <1>1, <2>1, <3>1
      <3>3. t \in DOMAIN sessions'
        BY <3>1 DEF Live
      <3>4. sessions'[t].user = issued'[issued'[t].chain].user
        BY <1>1, <3>3 DEF SessionsInv, OwnerKept
      <3>5. QED
        BY <2>1, <3>1, <3>2, <3>4
    <2>5. CASE Ends
      <3>1. r \notin DOMAIN serving' /\ issued' = issued
        BY <1>1, <2>1, <2>5 DEF Ends, Renewing
      <3>2. QED
        BY <1>1, <2>1, <3>1, RefreshEnds DEF SessionsInv
    <2>6. QED
      BY <1>1, <2>2, <2>3, <2>4, <2>5, StepKinds DEF SessionsInv
  <1>2. SessionsInv /\ SessionsInv' /\ AccountsFirst /\ [SessionsNext]_sessionVars =>
            [Kept]_sessionVars
    BY <1>1
  <1> HIDE DEF Kept
  <1>3. SessionsInit => AccountsFirst
    BY DEF SessionsInit, AccountsFirst, Empty
  <1>4. SessionsInv /\ AccountsFirst /\ [SessionsNext]_sessionVars => AccountsFirst'
    BY AccountsFirstStep DEF SessionsInv
  <1>5. SessionsSpec => [][Kept]_sessionVars
    BY <1>2, <1>3, <1>4, SessionsInvInit, SessionsInvStep, PTL DEF SessionsSpec
  <1>6. QED
    BY <1>5 DEF RefreshKept, Kept

-----------------------------------------------------------------------------
\* The tokens that were drawn, and one for each request in flight.
Reserve ==
    /\ IsFiniteSet(DOMAIN issued) /\ IsFiniteSet(DOMAIN serving)
    /\ Cardinality(DOMAIN issued) + Cardinality(DOMAIN serving) <= Cardinality(Token)

\* A request begins while there is a token left for it; others end, one of them
\* with the token it draws.
LEMMA RequestKinds ==
    ASSUME [SessionsNext]_sessionVars
    PROVE  \/ /\ TokensLeft /\ issued' = issued
              /\ \E r \in AuthReq \ DOMAIN serving : DOMAIN serving' = DOMAIN serving \cup {r}
           \/ DOMAIN serving' \subseteq DOMAIN serving /\ issued' = issued
           \/ \E r \in DOMAIN serving, t \in Token \ DOMAIN issued :
                  /\ DOMAIN serving' = DOMAIN serving \ {r}
                  /\ DOMAIN issued' = DOMAIN issued \cup {t}
  <1> DEFINE Kind ==
                 \/ /\ TokensLeft /\ issued' = issued
                    /\ \E r \in AuthReq \ DOMAIN serving :
                           DOMAIN serving' = DOMAIN serving \cup {r}
                 \/ DOMAIN serving' \subseteq DOMAIN serving /\ issued' = issued
                 \/ \E r \in DOMAIN serving, t \in Token \ DOMAIN issued :
                        /\ DOMAIN serving' = DOMAIN serving \ {r}
                        /\ DOMAIN issued' = DOMAIN issued \cup {t}
  <1>1. ASSUME NEW r \in AuthReq, NEW c, NEW e,
               SignUpLookup(r, c, e) \/ Login(r, c, e) \/ RefreshConsume(r, c, e)
        PROVE  Kind
    BY <1>1 DEF SignUpLookup, Login, RefreshConsume, Renew, Put
  <1>2. ASSUME NEW r, SignUpCreate(r) \/ Sign(r) \/ SignUpConflict(r) \/ RequestFail(r)
        PROVE  Kind
    BY <1>2 DEF SignUpCreate, Sign, SignUpConflict, RequestFail, Drop, Restrict
  <1>3. ASSUME NEW r, NEW t \in Token, IssueSession(r, t) PROVE Kind
    BY <1>3 DEF IssueSession, Issue, At, Put, Drop, Restrict
  <1>4. CASE AuthCrash
    BY <1>4 DEF AuthCrash, Empty
  <1>5. CASE serving' = serving /\ issued' = issued
    BY <1>5
  <1>6. QED
    BY <1>1, <1>2, <1>3, <1>4, <1>5
       DEF SessionsNext, sessionVars, Tick, Serve, Logout, Sweep

\* There is always a token nobody has seen for a request that is to draw one,
\* as the random ones of the code never run out: that the model has finitely
\* many bounds how many requests begin, and never holds up one that has begun.
THEOREM TokensSuffice ==
    ASSUME IsFiniteSet(Token)
    PROVE  SessionsSpec => [](DOMAIN serving # {} => \E t \in Token : t \notin DOMAIN issued)
  <1>1. SessionsInit => Reserve
    <2>1. DOMAIN Empty = {}
      BY DEF Empty
    <2>2. IsFiniteSet({}) /\ Cardinality({}) = 0 /\ Cardinality(Token) \in Nat
      BY FS_EmptySet, FS_CardinalityType
    <2>3. QED
      BY <2>1, <2>2 DEF SessionsInit, Reserve
  <1>2. Reserve /\ [SessionsNext]_sessionVars => Reserve'
    <2> SUFFICES ASSUME Reserve, [SessionsNext]_sessionVars PROVE Reserve'
      OBVIOUS
    <2>0. /\ Cardinality(DOMAIN issued) \in Nat /\ Cardinality(DOMAIN serving) \in Nat
          /\ Cardinality(Token) \in Nat
      BY FS_CardinalityType DEF Reserve
    <2>1. CASE /\ TokensLeft /\ issued' = issued
               /\ \E r \in AuthReq \ DOMAIN serving : DOMAIN serving' = DOMAIN serving \cup {r}
      <3>1. /\ IsFiniteSet(DOMAIN serving')
            /\ Cardinality(DOMAIN serving') = Cardinality(DOMAIN serving) + 1
        BY <2>1, FS_AddElement DEF Reserve
      <3>2. QED
        BY <2>0, <2>1, <3>1 DEF Reserve, TokensLeft
    <2>2. CASE DOMAIN serving' \subseteq DOMAIN serving /\ issued' = issued
      <3>1. /\ IsFiniteSet(DOMAIN serving')
            /\ Cardinality(DOMAIN serving') <= Cardinality(DOMAIN serving)
            /\ Cardinality(DOMAIN serving') \in Nat
        BY <2>2, FS_Subset, FS_CardinalityType DEF Reserve
      <3>2. QED
        BY <2>0, <2>2, <3>1 DEF Reserve
    <2>3. CASE \E r \in DOMAIN serving, t \in Token \ DOMAIN issued :
                   /\ DOMAIN serving' = DOMAIN serving \ {r}
                   /\ DOMAIN issued' = DOMAIN issued \cup {t}
      <3>1. /\ IsFiniteSet(DOMAIN serving')
            /\ Cardinality(DOMAIN serving') = Cardinality(DOMAIN serving) - 1
        BY <2>3, FS_RemoveElement DEF Reserve
      <3>2. /\ IsFiniteSet(DOMAIN issued')
            /\ Cardinality(DOMAIN issued') = Cardinality(DOMAIN issued) + 1
        BY <2>3, FS_AddElement DEF Reserve
      <3>3. QED
        BY <2>0, <3>1, <3>2 DEF Reserve
    <2>4. QED
      BY <2>1, <2>2, <2>3, RequestKinds
  <1>3. Reserve => (DOMAIN serving # {} => \E t \in Token : t \notin DOMAIN issued)
    <2> SUFFICES ASSUME Reserve, NEW r \in DOMAIN serving, Token \subseteq DOMAIN issued
                 PROVE  FALSE
      OBVIOUS
    <2>1. Cardinality(Token) <= Cardinality(DOMAIN issued)
      BY FS_Subset DEF Reserve
    <2>2. /\ Cardinality(DOMAIN issued) \in Nat /\ Cardinality(DOMAIN serving) \in Nat
          /\ Cardinality(Token) \in Nat
      BY FS_CardinalityType DEF Reserve
    <2>3. Cardinality(DOMAIN serving) # 0
      BY FS_EmptySet DEF Reserve
    <2>4. QED
      BY <2>1, <2>2, <2>3 DEF Reserve
  <1>4. QED
    BY <1>1, <1>2, <1>3, PTL DEF SessionsSpec
=============================================================================
