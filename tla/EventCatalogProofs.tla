------------------------- MODULE EventCatalogProofs -------------------------
(***************************************************************************)
(* The list of rewards in an event, proved sound for any events, rewards   *)
(* and requests, with any failures; and complete when nothing fails.       *)
(***************************************************************************)
EXTENDS EventCatalog, TLAPS

\* Nothing points at an event that is not there, an event keeps the list it
\* came with, and a creation past its second call has created the reward it is
\* about to list.
References ==
    /\ \A e \in DOMAIN events : events[e].given \subseteq events[e].rewards
    /\ \A w \in DOMAIN rewards : rewards[w] \in DOMAIN events
    /\ \A r \in DOMAIN creating :
           /\ creating[r].event \in DOMAIN events
           /\ creating[r].reward # NoReward =>
                  /\ creating[r].reward \in DOMAIN rewards
                  /\ rewards[creating[r].reward] = creating[r].event

CatalogInv == CatalogTypeOK /\ References /\ ListedSound /\ ConfirmedListed

-----------------------------------------------------------------------------
\* The catalog starts with values of the right types.
LEMMA CatalogTypeInit == CatalogInit => CatalogTypeOK
  BY DEF CatalogInit, CatalogTypeOK, Empty

\* Every step of the catalog keeps them.
LEMMA CatalogTypeStep == CatalogTypeOK /\ [CatalogNext]_catalogVars => CatalogTypeOK'
  <1> SUFFICES ASSUME CatalogTypeOK, [CatalogNext]_catalogVars PROVE CatalogTypeOK'
    OBVIOUS
  <1> USE DEF CatalogTypeOK
  <1>1. ASSUME NEW e \in Event, NEW c \in Condition, NEW list \in Listed, CreateEvent(e, c, list) PROVE CatalogTypeOK'
    <2>1. NewEvent(c, list) \in EventDoc
      BY CatalogAssumption DEF EventDoc, NewEvent
    <2>2. QED
      BY <1>1, <2>1 DEF CreateEvent, Put
  <1>2. ASSUME NEW r \in RewardReq, NEW e \in Event, RewardFindEvent(r, e) PROVE CatalogTypeOK'
    <2>1. [event |-> e, read |-> events[e].rewards, reward |-> NoReward] \in RewardTask
      BY <1>2 DEF RewardFindEvent, RewardTask, EventDoc
    <2>2. QED
      BY <1>2, <2>1 DEF RewardFindEvent, Put
  <1>3. ASSUME NEW r \in RewardReq, NEW w \in Reward, RewardCreate(r, w) PROVE CatalogTypeOK'
    BY <1>3 DEF RewardCreate, RewardTask, Put
  <1>4. ASSUME NEW r \in RewardReq, RewardSave(r) PROVE CatalogTypeOK'
    <2>1. creating[r].reward \in Reward
      BY <1>4 DEF RewardSave, RewardTask
    <2>2. QED
      BY <1>4, <2>1 DEF RewardSave, EventDoc, Drop, Restrict
  <1>5. ASSUME NEW r \in RewardReq, RewardFail(r) PROVE CatalogTypeOK'
    BY <1>5 DEF RewardFail, Drop, Restrict
  <1>6. CASE CatalogCrash
    BY <1>6 DEF CatalogCrash, Empty
  <1>7. CASE UNCHANGED catalogVars
    BY <1>7 DEF catalogVars
  <1>8. QED
    BY <1>1, <1>2, <1>3, <1>4, <1>5, <1>6, <1>7 DEF CatalogNext, CatalogStep

\* Every variable keeps its type, for any events, rewards and requests.
THEOREM CatalogTyped == CatalogSpec => []CatalogTypeOK
  BY CatalogTypeInit, CatalogTypeStep, PTL DEF CatalogSpec

-----------------------------------------------------------------------------
\* An empty catalog has no wrong reference.
LEMMA CatalogInvInit == CatalogInit => CatalogInv
  <1> SUFFICES ASSUME CatalogInit PROVE CatalogInv
    OBVIOUS
  <1>1. DOMAIN events = {} /\ DOMAIN rewards = {} /\ DOMAIN creating = {} /\ confirmed = {}
    BY DEF CatalogInit, Empty
  <1>2. QED
    BY <1>1, CatalogTypeInit DEF CatalogInv, References, ListedSound, ConfirmedListed

\* No step lists a wrong reward or loses one that was confirmed.
LEMMA CatalogInvStep == CatalogInv /\ [CatalogNext]_catalogVars => CatalogInv'
  <1> SUFFICES ASSUME CatalogInv, [CatalogNext]_catalogVars PROVE CatalogInv'
    OBVIOUS
  <1>t. CatalogTypeOK'
    BY CatalogTypeStep DEF CatalogInv
  <1> DEFINE Links == References /\ ListedSound /\ ConfirmedListed
  <1> USE DEF CatalogInv, References, ListedSound, ConfirmedListed, RewardsOf
  <1>1. ASSUME NEW e \in Event, NEW c \in Condition, NEW list \in Listed, CreateEvent(e, c, list) PROVE Links'
    BY <1>1 DEF CreateEvent, NewEvent, Put
  <1>2. ASSUME NEW r \in RewardReq, NEW e \in Event, RewardFindEvent(r, e) PROVE Links'
    BY <1>2 DEF RewardFindEvent, Put
  <1>3. ASSUME NEW r \in RewardReq, NEW w \in Reward, RewardCreate(r, w) PROVE Links'
    <2>1. /\ DOMAIN rewards' = DOMAIN rewards \cup {w}
          /\ rewards'[w] = creating[r].event
          /\ \A x \in DOMAIN rewards : x # w /\ rewards'[x] = rewards[x]
      BY <1>3 DEF RewardCreate, Put, Taken
    <2>2. /\ DOMAIN creating' = DOMAIN creating
          /\ creating'[r].event = creating[r].event /\ creating'[r].reward = w
          /\ \A q \in DOMAIN creating \ {r} : creating'[q] = creating[q]
      BY <1>3 DEF RewardCreate, CatalogTypeOK, RewardTask
    <2>3. events' = events /\ confirmed' = confirmed /\ r \in DOMAIN creating
      BY <1>3 DEF RewardCreate
    <2>4. References'
      BY <2>1, <2>2, <2>3
    <2>5. ListedSound'
      BY <2>1, <2>3
    <2>6. ConfirmedListed'
      BY <2>1, <2>3
    <2>7. QED
      BY <2>4, <2>5, <2>6
  <1>4. ASSUME NEW r \in RewardReq, RewardSave(r) PROVE Links'
    <2> DEFINE e == creating[r].event
               w == creating[r].reward
    <2>1. e \in DOMAIN events /\ w \in DOMAIN rewards /\ rewards[w] = e
      BY <1>4 DEF RewardSave
    <2>2. /\ DOMAIN events' = DOMAIN events
          /\ events'[e].rewards = events[e].rewards \cup {w}
          /\ events'[e].given = events[e].given
          /\ \A f \in DOMAIN events \ {e} : events'[f] = events[f]
      BY <1>4, <2>1 DEF RewardSave, CatalogTypeOK, EventDoc
    <2>3. /\ rewards' = rewards /\ confirmed' = confirmed \cup {w}
          /\ DOMAIN creating' \subseteq DOMAIN creating
          /\ \A q \in DOMAIN creating' : creating'[q] = creating[q]
      BY <1>4 DEF RewardSave, Drop, Restrict
    <2> HIDE DEF e, w
    <2>4. References'
      BY <2>2, <2>3
    <2>5. ListedSound'
      BY <2>1, <2>2, <2>3
    <2>6. ConfirmedListed'
      BY <2>1, <2>2, <2>3
    <2>7. QED
      BY <2>4, <2>5, <2>6
  <1>5. ASSUME NEW r \in RewardReq, RewardFail(r) PROVE Links'
    BY <1>5 DEF RewardFail, Drop, Restrict
  <1>6. CASE CatalogCrash
    BY <1>t, <1>6 DEF CatalogCrash, Empty
  <1>7. CASE UNCHANGED catalogVars
    BY <1>t, <1>7 DEF catalogVars
  <1>8. QED
    BY <1>t, <1>1, <1>2, <1>3, <1>4, <1>5, <1>6, <1>7 DEF CatalogNext, CatalogStep

\* Beyond the list it came with, an event lists only rewards created for it, and
\* every reward whose creation went through, whatever fails and whenever the
\* process stops.
THEOREM CatalogSafe == CatalogSpec => [](ListedSound /\ ConfirmedListed)
  <1>1. CatalogInv => ListedSound /\ ConfirmedListed
    BY DEF CatalogInv
  <1>2. QED
    BY <1>1, CatalogInvInit, CatalogInvStep, PTL DEF CatalogSpec

\* Events and rewards stay: an event keeps its condition and the rewards it
\* lists, a reward keeps its event.
THEOREM CatalogMonotone == CatalogSpec => CatalogGrows
  <1> DEFINE Grows ==
        /\ DOMAIN events \subseteq DOMAIN events'
        /\ \A e \in DOMAIN events :
               /\ events'[e].condition = events[e].condition
               /\ events[e].rewards \subseteq events'[e].rewards
        /\ DOMAIN rewards \subseteq DOMAIN rewards'
        /\ \A w \in DOMAIN rewards : rewards'[w] = rewards[w]
  <1>1. CatalogTypeOK /\ [CatalogNext]_catalogVars => [Grows]_catalogVars
    <2> SUFFICES ASSUME CatalogTypeOK, CatalogNext PROVE Grows
      OBVIOUS
    <2>1. ASSUME NEW e \in Event, NEW c \in Condition, NEW list \in Listed, CreateEvent(e, c, list) PROVE Grows
      BY <2>1 DEF CreateEvent, Put
    <2>2. ASSUME NEW r \in RewardReq, NEW e \in Event, RewardFindEvent(r, e) PROVE Grows
      BY <2>2 DEF RewardFindEvent
    <2>3. ASSUME NEW r \in RewardReq, NEW w \in Reward, RewardCreate(r, w) PROVE Grows
      BY <2>3 DEF RewardCreate, Put, Taken
    <2>4. ASSUME NEW r \in RewardReq, RewardSave(r) PROVE Grows
      BY <2>4 DEF RewardSave, CatalogTypeOK, EventDoc
    <2>5. ASSUME NEW r \in RewardReq, RewardFail(r) PROVE Grows
      BY <2>5 DEF RewardFail
    <2>6. CASE CatalogCrash
      BY <2>6 DEF CatalogCrash
    <2>7. QED
      BY <2>1, <2>2, <2>3, <2>4, <2>5, <2>6 DEF CatalogNext, CatalogStep
  <1>2. QED
    BY <1>1, CatalogTyped, PTL DEF CatalogSpec, CatalogGrows

-----------------------------------------------------------------------------
\* Without a failing call, a reward not listed yet has its creation in flight.
LEMMA UnlistedStep ==
    ASSUME ~Faults, CatalogInv, UnlistedInFlight, [CatalogNext]_catalogVars
    PROVE  UnlistedInFlight'
  <1> USE DEF UnlistedInFlight
  <1>1. ASSUME NEW e \in Event, NEW c \in Condition, NEW list \in Listed, CreateEvent(e, c, list)
        PROVE  UnlistedInFlight'
    BY <1>1 DEF CreateEvent, Put, CatalogInv, References
  <1>2. ASSUME NEW r \in RewardReq, NEW e \in Event, RewardFindEvent(r, e)
        PROVE  UnlistedInFlight'
    BY <1>2 DEF RewardFindEvent, Put
  <1>3. ASSUME NEW r \in RewardReq, NEW w \in Reward, RewardCreate(r, w)
        PROVE  UnlistedInFlight'
    <2>1. \A q \in DOMAIN creating :
              q # r => q \in DOMAIN creating' /\ creating'[q] = creating[q]
      BY <1>3 DEF RewardCreate
    <2>2. r \in DOMAIN creating' /\ creating'[r].reward = w
      BY <1>3 DEF RewardCreate, CatalogInv, CatalogTypeOK, RewardTask
    <2>3. /\ DOMAIN rewards' = DOMAIN rewards \cup {w}
          /\ \A x \in DOMAIN rewards : rewards'[x] = rewards[x]
          /\ events' = events
          /\ creating[r].reward \notin DOMAIN rewards
      BY <1>3, CatalogAssumption DEF RewardCreate, Put, Taken, CatalogInv, CatalogTypeOK
    <2>4. QED
      BY <2>1, <2>2, <2>3
  <1>4. ASSUME NEW r \in RewardReq, RewardSave(r) PROVE UnlistedInFlight'
    <2> DEFINE e == creating[r].event
               w == creating[r].reward
    <2>1. e \in DOMAIN events /\ w \in DOMAIN rewards /\ rewards[w] = e
      BY <1>4 DEF RewardSave, CatalogInv, References
    <2>2. /\ events'[e].rewards = events[e].rewards \cup {w}
          /\ \A f \in DOMAIN events \ {e} : events'[f] = events[f]
      BY <1>4, <2>1 DEF RewardSave, CatalogInv, CatalogTypeOK, EventDoc
    <2>3. /\ rewards' = rewards
          /\ \A q \in DOMAIN creating :
                 q # r => q \in DOMAIN creating' /\ creating'[q] = creating[q]
      BY <1>4 DEF RewardSave, Drop, Restrict
    <2>4. \A x \in DOMAIN rewards : rewards[x] \in DOMAIN events
      BY DEF CatalogInv, References
    <2>5. QED
      BY <2>1, <2>2, <2>3, <2>4
  <1>5. CASE UNCHANGED catalogVars
    BY <1>5 DEF catalogVars
  <1>6. QED
    BY <1>1, <1>2, <1>3, <1>4, <1>5 DEF CatalogNext, CatalogStep, RewardFail, CatalogCrash

\* While no call fails, a reward that is not listed has a creation in flight.
THEOREM CatalogTracked ==
    ASSUME ~Faults
    PROVE  CatalogSpec => []UnlistedInFlight
  <1>1. CatalogInit => UnlistedInFlight
    BY DEF CatalogInit, UnlistedInFlight, Empty
  <1>2. CatalogInv /\ UnlistedInFlight /\ [CatalogNext]_catalogVars => UnlistedInFlight'
    BY UnlistedStep
  <1>3. QED
    BY <1>1, <1>2, CatalogInvInit, CatalogInvStep, PTL DEF CatalogSpec

\* While no call fails, whenever no creation is in flight every event lists
\* exactly the rewards created for it and those of the list it came with.
THEOREM CatalogComplete ==
    ASSUME ~Faults
    PROVE  CatalogSpec => []RewardsListed
  <1>1. CatalogInv /\ UnlistedInFlight => RewardsListed
    <2> SUFFICES ASSUME CatalogInv, UnlistedInFlight, creating = Empty, NEW e \in DOMAIN events
                 PROVE  events[e].rewards = RewardsOf(e) \cup events[e].given
      BY DEF RewardsListed
    <2>1. DOMAIN creating = {}
      BY DEF Empty
    <2>2. RewardsOf(e) \subseteq events[e].rewards
      BY <2>1 DEF UnlistedInFlight, RewardsOf
    <2>3. QED
      BY <2>2 DEF CatalogInv, ListedSound, References
  <1>2. QED
    BY <1>1, CatalogTracked, CatalogInvInit, CatalogInvStep, PTL DEF CatalogSpec
=============================================================================
