---------------------------- MODULE EventCatalog ----------------------------
(***************************************************************************)
(* Events and their rewards.  A reward names its event, and the event      *)
(* lists its rewards, so creating a reward is three awaited calls on two   *)
(* collections: read the event, create the reward, save the event.         *)
(***************************************************************************)
EXTENDS InFlight, FiniteSets

CONSTANTS
    Event, Reward,  \* the identifiers that the two collections hand out
    NoReward,       \* stands for a reward not created yet
    Condition,      \* the conditions operators give their events
    Listed,         \* the lists of rewards that new events may come with
    RewardReq       \* bounds how many reward creations are in flight together

ASSUME CatalogAssumption ==
    /\ NoReward \notin Reward
    /\ Listed \subseteq SUBSET Reward

VARIABLES
    events,    \* the collection of events
    rewards,   \* the collection of rewards: the event of each one
    creating,  \* what each suspended create() of a reward holds
    confirmed  \* history: the rewards whose creation went through to the end

catalogVars == <<events, rewards, creating, confirmed>>

-----------------------------------------------------------------------------
\* An event: the condition it was created with, and the ids of its rewards.
\* History: `given`, the list it came with.
EventDoc == [condition : Condition, rewards : SUBSET Reward, given : SUBSET Reward]

NewEvent(c, list) == [condition |-> c, rewards |-> list, given |-> list]

\* What create() holds: the event it serves with the ids it read from it,
\* and the reward once that is created.
RewardTask == [event : Event, read : SUBSET Reward, reward : Reward \cup {NoReward}]

\* The rewards created for event e.
RewardsOf(e) == {w \in DOMAIN rewards : rewards[w] = e}

\* The ids in use: of the rewards there are, and those an operator wrote.
Taken == DOMAIN rewards \cup UNION {events[e].given : e \in DOMAIN events}

-----------------------------------------------------------------------------
(***************************************************************************)
(* Slips these handlers could have: an event created over another one, a   *)
(* reward id used twice, the list saved before the reward is there, or     *)
(* saved as it was read.  No behaviour uses them; each breaks a property   *)
(* below.                                                                  *)
(***************************************************************************)
CreateEventOver(e, c, list) ==
    /\ events' = Put(events, e, NewEvent(c, list))
    /\ UNCHANGED <<rewards, creating, confirmed>>

RewardCreateAgain(r, w) ==
    /\ r \in DOMAIN creating
    /\ creating[r].reward = NoReward
    /\ rewards' = Put(rewards, w, creating[r].event)
    /\ creating' = [creating EXCEPT ![r].reward = w]
    /\ UNCHANGED <<events, confirmed>>

RewardSaveEarly(r) ==
    /\ r \in DOMAIN creating
    /\ events' = [events EXCEPT ![creating[r].event].rewards = @ \cup {creating[r].reward}]
    /\ confirmed' = confirmed \cup {creating[r].reward}
    /\ creating' = Drop(creating, {r})
    /\ UNCHANGED rewards

RewardSaveAsRead(r) ==
    /\ r \in DOMAIN creating
    /\ creating[r].reward # NoReward
    /\ events' = [events EXCEPT ![creating[r].event].rewards =
                     creating[r].read \cup {creating[r].reward}]
    /\ confirmed' = confirmed \cup {creating[r].reward}
    /\ creating' = Drop(creating, {r})
    /\ UNCHANGED rewards

-----------------------------------------------------------------------------
CatalogInit ==
    /\ events = Empty
    /\ rewards = Empty
    /\ creating = Empty
    /\ confirmed = {}

\* The body is stored as it comes, save for its two dates: whoever writes a
\* list of rewards into it has an event with that list.
CreateEvent(e, c, list) ==
    /\ e \notin DOMAIN events
    /\ events' = Put(events, e, NewEvent(c, list))
    /\ UNCHANGED <<rewards, creating, confirmed>>

\* `await findById()`.  A request for an event that is not there is answered
\* by 404 and leaves no trace.
RewardFindEvent(r, e) ==
    /\ r \notin DOMAIN creating
    /\ e \in DOMAIN events
    /\ creating' = Put(creating, r,
           [event |-> e, read |-> events[e].rewards, reward |-> NoReward])
    /\ UNCHANGED <<events, rewards, confirmed>>

\* `await rewardModel.create()`, with an ObjectId that is new.
RewardCreate(r, w) ==
    /\ r \in DOMAIN creating
    /\ creating[r].reward = NoReward
    /\ w \notin Taken
    /\ rewards' = Put(rewards, w, creating[r].event)
    /\ creating' = [creating EXCEPT ![r].reward = w]
    /\ UNCHANGED <<events, confirmed>>

\* `event.rewards.push(); await event.save()`: Mongoose sends the push as a
\* $push, which adds to the list as it is now and not as it was read.
RewardSave(r) ==
    /\ r \in DOMAIN creating
    /\ creating[r].reward # NoReward
    /\ events' = [events EXCEPT ![creating[r].event].rewards = @ \cup {creating[r].reward}]
    /\ confirmed' = confirmed \cup {creating[r].reward}
    /\ creating' = Drop(creating, {r})
    /\ UNCHANGED rewards

\* One of the calls fails; nothing undoes the calls before it.
RewardFail(r) ==
    /\ Faults
    /\ r \in DOMAIN creating
    /\ creating' = Drop(creating, {r})
    /\ UNCHANGED <<events, rewards, confirmed>>

CatalogStep ==
    \/ \E e \in Event, c \in Condition, list \in Listed : CreateEvent(e, c, list)
    \/ \E r \in RewardReq, e \in Event : RewardFindEvent(r, e)
    \/ \E r \in RewardReq, w \in Reward : RewardCreate(r, w)
    \/ \E r \in RewardReq : RewardSave(r) \/ RewardFail(r)

CatalogCrash ==
    /\ Faults
    /\ creating # Empty
    /\ creating' = Empty
    /\ UNCHANGED <<events, rewards, confirmed>>

CatalogNext == CatalogStep \/ CatalogCrash

CatalogSpec == CatalogInit /\ [][CatalogNext]_catalogVars

-----------------------------------------------------------------------------
\* Every variable keeps its type.
CatalogTypeOK ==
    /\ DOMAIN events \subseteq Event
    /\ \A e \in DOMAIN events : events[e] \in EventDoc
    /\ DOMAIN rewards \subseteq Reward
    /\ \A w \in DOMAIN rewards : rewards[w] \in Event
    /\ DOMAIN creating \subseteq RewardReq
    /\ \A r \in DOMAIN creating : creating[r] \in RewardTask
    /\ confirmed \subseteq Reward

\* What an event lists beyond the list it came with are rewards that exist and
\* were created for it, whatever fails and whenever the process stops.
ListedSound ==
    \A e \in DOMAIN events : events[e].rewards \subseteq RewardsOf(e) \cup events[e].given

\* A reward whose creation was answered with success is in the list of its
\* event from then on: creations of several rewards for one event at once
\* never overwrite each other's entry.
ConfirmedListed ==
    \A w \in confirmed : w \in DOMAIN rewards /\ w \in events[rewards[w]].rewards

\* A reward missing from the list of its event is one that a creation still
\* in flight is about to list.  It holds while no call fails.
UnlistedInFlight ==
    \A w \in DOMAIN rewards :
        \/ w \in events[rewards[w]].rewards
        \/ \E r \in DOMAIN creating : creating[r].reward = w

\* What README says of events: the ids of the rewards are kept in a list in
\* the event.  So when no creation is in flight, an event lists its rewards and
\* nothing but what it came with besides.
RewardsListed ==
    creating = Empty =>
        \A e \in DOMAIN events : events[e].rewards = RewardsOf(e) \cup events[e].given

\* A reward never changes its event, an event never changes its condition or
\* loses an entry of its list, and neither disappears: creations of rewards
\* and of events, in flight together, take nothing back.
CatalogGrows ==
    [][/\ DOMAIN events \subseteq DOMAIN events'
       /\ \A e \in DOMAIN events :
              /\ events'[e].condition = events[e].condition
              /\ events[e].rewards \subseteq events'[e].rewards
       /\ DOMAIN rewards \subseteq DOMAIN rewards'
       /\ \A w \in DOMAIN rewards : rewards'[w] = rewards[w]]_catalogVars
=============================================================================
