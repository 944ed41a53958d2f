------------------------------ MODULE UserRoles ------------------------------
(***************************************************************************)
(* The roles of accounts.  addRole and removeRole read an account, change  *)
(* the array of its roles, and save it: two awaited calls, with others in  *)
(* between.  Mongoose sends what changed.  A push goes out as a $push,     *)
(* which applies to any version of the document; an array assigned anew    *)
(* goes out as a $set, which applies only to the version that was read.    *)
(*                                                                         *)
(* Nothing depends on the order of the array, so it is modelled by how     *)
(* often each role is in it.                                               *)
(***************************************************************************)
EXTENDS InFlight, Integers, FiniteSets

CONSTANTS
    Account,
    Role,
    ChangeReq,  \* bounds how many changes are in flight together
    MaxVersion  \* bounds the versions of a document

ASSUME RolesAssumption ==
    /\ MaxVersion \in Nat
    /\ IsFiniteSet(ChangeReq) /\ ChangeReq # {}

VARIABLES
    roles,    \* how often each role is in the array of each account
    version,  \* Mongoose's version key of each account, __v
    changing  \* what each suspended addRole or removeRole holds

roleVars == <<roles, version, changing>>

-----------------------------------------------------------------------------
RoleArray == [Role -> Nat]

\* A change to be saved: the role to push, or to leave out of the array as it
\* was read, at the version it was read.
RoleTask ==
    [op : {"add", "remove"}, account : Account, role : Role, read : RoleArray, version : Nat]

Has(a, x) == roles[a][x] > 0

Pushed(array, x) == [array EXCEPT ![x] = @ + 1]

Filtered(array, x) == [array EXCEPT ![x] = 0]

Saving(r, op) == r \in DOMAIN changing /\ changing[r].op = op

\* The array is in the database, as a new version.
Save(a, array) ==
    /\ version[a] < MaxVersion
    /\ roles' = [roles EXCEPT ![a] = array]
    /\ version' = [version EXCEPT ![a] = @ + 1]

(***************************************************************************)
(* Slips: a change that notes the version before, an add that does not     *)
(* look, a push that leaves the version as it is, a removal that saves at  *)
(* any version.  No behaviour uses them; each breaks a property below.     *)
(***************************************************************************)
NewChangeBehind(op, a, x) ==
    [op |-> op, account |-> a, role |-> x, read |-> roles[a], version |-> version[a] - 1]

NewChange(op, a, x) ==
    [op |-> op, account |-> a, role |-> x, read |-> roles[a], version |-> version[a]]

AddRoleFindBlind(r, a, x) ==
    /\ r \notin DOMAIN changing
    /\ changing' = Put(changing, r, NewChange("add", a, x))
    /\ UNCHANGED <<roles, version>>

AddRoleSaveUnversioned(r) ==
    /\ Saving(r, "add")
    /\ LET a == changing[r].account IN
           roles' = [roles EXCEPT ![a] = Pushed(@, changing[r].role)]
    /\ changing' = Drop(changing, {r})
    /\ UNCHANGED version

RemoveRoleSaveAnyVersion(r) ==
    /\ Saving(r, "remove")
    /\ Save(changing[r].account, Filtered(changing[r].read, changing[r].role))
    /\ changing' = Drop(changing, {r})

-----------------------------------------------------------------------------
\* An account starts as a USER; the first ADMIN is made one by hand.
RolesInit ==
    /\ \E admins \in SUBSET Account :
           roles = [a \in Account |-> [x \in Role |->
               IF x = "USER" \/ (x = "ADMIN" /\ a \in admins) THEN 1 ELSE 0]]
    /\ version = [a \in Account |-> 0]
    /\ changing = Empty

\* `await findByEmail()` and `push()`.  A role that is there already is left
\* alone, and so is everything when there is no such account.
AddRoleFind(r, a, x) ==
    /\ r \notin DOMAIN changing
    /\ ~Has(a, x)
    /\ changing' = Put(changing, r, NewChange("add", a, x))
    /\ UNCHANGED <<roles, version>>

\* `await save()` of a push.
AddRoleSave(r) ==
    /\ Saving(r, "add")
    /\ LET a == changing[r].account IN Save(a, Pushed(roles[a], changing[r].role))
    /\ changing' = Drop(changing, {r})

\* `await findByEmail()` and the assignment of the filtered array.  One that
\* is equal to the old array is no change to save.
RemoveRoleFind(r, a, x) ==
    /\ r \notin DOMAIN changing
    /\ Has(a, x)
    /\ changing' = Put(changing, r, NewChange("remove", a, x))
    /\ UNCHANGED <<roles, version>>

\* `await save()` of the array, at the version that was read.
RemoveRoleSave(r) ==
    /\ Saving(r, "remove")
    /\ version[changing[r].account] = changing[r].version
    /\ Save(changing[r].account, Filtered(changing[r].read, changing[r].role))
    /\ changing' = Drop(changing, {r})

\* Another version is there by now: a VersionError, and nothing is saved.
RemoveRoleConflict(r) ==
    /\ Saving(r, "remove")
    /\ version[changing[r].account] # changing[r].version
    /\ changing' = Drop(changing, {r})
    /\ UNCHANGED <<roles, version>>

\* A call fails.
RoleChangeFail(r) ==
    /\ Faults
    /\ r \in DOMAIN changing
    /\ changing' = Drop(changing, {r})
    /\ UNCHANGED <<roles, version>>

RolesCrash ==
    /\ Faults
    /\ changing # Empty
    /\ changing' = Empty
    /\ UNCHANGED <<roles, version>>

RolesNext ==
    \/ \E r \in ChangeReq, a \in Account, x \in Role :
           AddRoleFind(r, a, x) \/ RemoveRoleFind(r, a, x)
    \/ \E r \in ChangeReq :
           \/ AddRoleSave(r)
           \/ RemoveRoleSave(r) \/ RemoveRoleConflict(r)
           \/ RoleChangeFail(r)
    \/ RolesCrash

RolesSpec == RolesInit /\ [][RolesNext]_roleVars

-----------------------------------------------------------------------------
\* Every variable keeps its type.
RolesTypeOK ==
    /\ roles \in [Account -> RoleArray]
    /\ version \in [Account -> 0 .. MaxVersion]
    /\ DOMAIN changing \subseteq ChangeReq
    /\ \A r \in DOMAIN changing : changing[r] \in RoleTask

\* What a change has read is what there is, as long as the version is the
\* same: no save goes unnoticed by the version check of a removal.
VersionGuards ==
    \A r \in DOMAIN changing :
        LET task == changing[r] IN
        version[task.account] = task.version => roles[task.account] = task.read

\* The roles of the accounts, as sets.
Holders == INSTANCE RoleSet
    WITH held <- [a \in Account |-> {x \in Role : Has(a, x)}]

\* Concurrent changes never undo one another: each save adds or takes away
\* its own role and leaves the others as they are at that instant, although
\* removeRole writes the whole array as it read it.
RoleSetSpec == Holders!Spec

\* The additions of role x to account a that have yet to be saved.
PushesOf(a, x) ==
    {r \in DOMAIN changing : Saving(r, "add") /\ changing[r].account = a /\ changing[r].role = x}

\* Two additions of one role may both find it missing and both push it, but
\* the repetitions never outnumber the requests in flight together.
RepeatsBounded ==
    \A a \in Account, x \in Role :
        roles[a][x] + Cardinality(PushesOf(a, x)) <= Cardinality(ChangeReq)
=============================================================================
