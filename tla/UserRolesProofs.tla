--------------------------- MODULE UserRolesProofs ---------------------------
(***************************************************************************)
(* Concurrent changes of roles, proved to be changes of a set one role at  *)
(* a time, for any accounts, roles and requests, with any failures.        *)
(***************************************************************************)
EXTENDS UserRoles, FiniteSetTheorems, TLAPS

\* A version noted is not ahead of the account's.
VersionsGrow ==
    \A r \in DOMAIN changing : changing[r].version <= version[changing[r].account]

RolesInv == RolesTypeOK /\ VersionsGrow /\ VersionGuards

-----------------------------------------------------------------------------
\* A save is that of a push onto the array there is, or of the array that was
\* read without a role, which is the array there is.
LEMMA Saves ==
    ASSUME RolesInv, NEW r \in ChangeReq, AddRoleSave(r) \/ RemoveRoleSave(r)
    PROVE  \E a \in Account, x \in Role :
               /\ \/ roles' = [roles EXCEPT ![a] = Pushed(roles[a], x)]
                  \/ roles' = [roles EXCEPT ![a] = Filtered(roles[a], x)]
               /\ roles' \in [Account -> RoleArray]
               /\ version[a] < MaxVersion
               /\ version' = [version EXCEPT ![a] = version[a] + 1]
  <1> DEFINE a == changing[r].account
             x == changing[r].role
  <1>1. r \in DOMAIN changing /\ changing[r] \in RoleTask
    BY DEF AddRoleSave, RemoveRoleSave, Saving, RolesInv, RolesTypeOK
  <1>2. a \in Account /\ x \in Role /\ roles[a] \in RoleArray
    BY <1>1 DEF RoleTask, RolesInv, RolesTypeOK
  <1>3. Pushed(roles[a], x) \in RoleArray /\ Filtered(roles[a], x) \in RoleArray
    BY <1>2 DEF Pushed, Filtered, RoleArray
  <1>4. CASE AddRoleSave(r)
    BY <1>2, <1>3, <1>4 DEF AddRoleSave, Save, RolesInv, RolesTypeOK
  <1>5. CASE RemoveRoleSave(r)
    <2>1. changing[r].read = roles[a]
      BY <1>1, <1>5 DEF RemoveRoleSave, RolesInv, VersionGuards
    <2>2. QED
      BY <1>2, <1>3, <1>5, <2>1 DEF RemoveRoleSave, Save, RolesInv, RolesTypeOK
  <1>6. QED
    BY <1>4, <1>5

\* A change that is over, saved or not, leaves the others as they are.
LEMMA Ends ==
    ASSUME RolesTypeOK,
           \/ \E r \in ChangeReq : \/ AddRoleSave(r) \/ RemoveRoleSave(r)
                                   \/ RemoveRoleConflict(r) \/ RoleChangeFail(r)
           \/ RolesCrash
    PROVE  /\ DOMAIN changing' \subseteq DOMAIN changing
           /\ \A q \in DOMAIN changing' : changing'[q] = changing[q]
  BY DEF AddRoleSave, RemoveRoleSave, RemoveRoleConflict, RoleChangeFail, RolesCrash,
         Drop, Restrict, Empty

-----------------------------------------------------------------------------
\* The accounts start with the right types and without a change in flight.
LEMMA RolesInvInit == RolesInit => RolesInv
  <1> SUFFICES ASSUME RolesInit PROVE RolesInv
    OBVIOUS
  <1>1. roles \in [Account -> RoleArray]
    BY DEF RolesInit, RoleArray
  <1>2. version \in [Account -> 0 .. MaxVersion] /\ DOMAIN changing = {}
    BY RolesAssumption DEF RolesInit, Empty
  <1>3. QED
    BY <1>1, <1>2 DEF RolesInv, RolesTypeOK, VersionsGrow, VersionGuards

\* Every step keeps the types, and every save is seen by the version.
LEMMA RolesInvStep == RolesInv /\ [RolesNext]_roleVars => RolesInv'
  <1> SUFFICES ASSUME RolesInv, [RolesNext]_roleVars PROVE RolesInv'
    OBVIOUS
  <1> USE DEF RolesInv, RolesTypeOK, VersionsGrow, VersionGuards
  <1>1. ASSUME NEW r \in ChangeReq, NEW a \in Account, NEW x \in Role, NEW op \in {"add", "remove"},
               \/ AddRoleFind(r, a, x) /\ op = "add"
               \/ RemoveRoleFind(r, a, x) /\ op = "remove"
        PROVE  RolesInv'
    <2>1. /\ roles' = roles /\ version' = version
          /\ DOMAIN changing' = DOMAIN changing \cup {r}
          /\ changing'[r] = NewChange(op, a, x)
          /\ \A q \in DOMAIN changing : changing'[q] = changing[q]
      BY <1>1 DEF AddRoleFind, RemoveRoleFind, Put
    <2>2. /\ NewChange(op, a, x) \in RoleTask
          /\ NewChange(op, a, x).account = a
          /\ NewChange(op, a, x).version = version[a] /\ NewChange(op, a, x).read = roles[a]
      BY DEF NewChange, RoleTask
    <2>3. QED
      BY <2>1, <2>2
  <1>2. ASSUME NEW r \in ChangeReq, AddRoleSave(r) \/ RemoveRoleSave(r) PROVE RolesInv'
    <2>1. PICK a \in Account :
              /\ \A b \in Account \ {a} : roles'[b] = roles[b]
              /\ roles' \in [Account -> RoleArray]
              /\ version[a] < MaxVersion
              /\ version' = [version EXCEPT ![a] = version[a] + 1]
      BY <1>2, Saves
    <2>2. /\ DOMAIN changing' \subseteq DOMAIN changing
          /\ \A q \in DOMAIN changing' : changing'[q] = changing[q]
      BY <1>2, Ends
    <2>3. roles' \in [Account -> RoleArray] /\ version' \in [Account -> 0 .. MaxVersion]
      BY <2>1, RolesAssumption
    <2>4. \A b \in Account : \/ version'[b] = version[b] /\ roles'[b] = roles[b]
                             \/ version'[b] = version[b] + 1
      BY <2>1
    <2>5. \A q \in DOMAIN changing' : changing[q] \in RoleTask
      BY <2>2
    <2>6. \A q \in DOMAIN changing' :
              /\ changing[q].account \in Account /\ changing[q].version \in Nat
              /\ changing[q].version <= version[changing[q].account]
              /\ version[changing[q].account] \in Nat
      BY <2>2, <2>5, RolesAssumption DEF RoleTask
    <2>7. QED
      BY <2>2, <2>3, <2>4, <2>5, <2>6
  <1>3. ASSUME NEW r \in ChangeReq, RemoveRoleConflict(r) \/ RoleChangeFail(r) PROVE RolesInv'
    <2>1. roles' = roles /\ version' = version
      BY <1>3 DEF RemoveRoleConflict, RoleChangeFail
    <2>2. QED
      BY <1>3, <2>1, Ends
  <1>4. CASE RolesCrash
    <2>1. roles' = roles /\ version' = version
      BY <1>4 DEF RolesCrash
    <2>2. QED
      BY <1>4, <2>1, Ends
  <1>5. CASE UNCHANGED roleVars
    BY <1>5 DEF roleVars
  <1>6. QED
    BY <1>1, <1>2, <1>3, <1>4, <1>5 DEF RolesNext

\* Every variable keeps its type, and what a change has read is what there
\* is as long as the version is the same.
THEOREM VersionsGuard == RolesSpec => [](RolesTypeOK /\ VersionGuards)
  <1>1. RolesInv => RolesTypeOK /\ VersionGuards
    BY DEF RolesInv
  <1>2. QED
    BY <1>1, RolesInvInit, RolesInvStep, PTL DEF RolesSpec

-----------------------------------------------------------------------------
\* The sets of roles, as the refinement sees them.
HeldRoles == [a \in Account |-> {x \in Role : Has(a, x)}]

\* A save grants a role or revokes one; every other step leaves the sets.
LEMMA HoldersStep == RolesInv /\ [RolesNext]_roleVars => Holders!Next \/ UNCHANGED HeldRoles
  <1> SUFFICES ASSUME RolesInv, [RolesNext]_roleVars
               PROVE  Holders!Next \/ UNCHANGED HeldRoles
    OBVIOUS
  <1>1. ASSUME roles' = roles PROVE UNCHANGED HeldRoles
    BY <1>1 DEF HeldRoles, Has
  <1>2. ASSUME NEW r \in ChangeReq, AddRoleSave(r) \/ RemoveRoleSave(r) PROVE Holders!Next
    <2>1. PICK a \in Account, x \in Role :
              \/ roles' = [roles EXCEPT ![a] = Pushed(roles[a], x)]
              \/ roles' = [roles EXCEPT ![a] = Filtered(roles[a], x)]
      BY <1>2, Saves
    <2>2. roles \in [Account -> RoleArray]
      BY DEF RolesInv, RolesTypeOK
    <2>3. CASE roles' = [roles EXCEPT ![a] = Pushed(roles[a], x)]
      <3>1. \A b \in Account, y \in Role : Has(b, y)' <=> Has(b, y) \/ (b = a /\ y = x)
        BY <2>1, <2>2, <2>3 DEF Has, Pushed, RoleArray
      <3>2. Holders!Grant(a, x)
        BY <3>1 DEF Holders!Grant
      <3>3. QED
        BY <3>2 DEF Holders!Next
    <2>4. CASE roles' = [roles EXCEPT ![a] = Filtered(roles[a], x)]
      <3>1. \A b \in Account, y \in Role : Has(b, y)' <=> Has(b, y) /\ ~(b = a /\ y = x)
        BY <2>1, <2>2, <2>4 DEF Has, Filtered, RoleArray
      <3>2. Holders!Revoke(a, x)
        BY <3>1 DEF Holders!Revoke
      <3>3. QED
        BY <3>2 DEF Holders!Next
    <2>5. QED
      BY <2>1, <2>3, <2>4
  <1>3. QED
    BY <1>1, <1>2
       DEF RolesNext, AddRoleFind, RemoveRoleFind, RemoveRoleConflict, RoleChangeFail,
           RolesCrash, roleVars

\* Concurrent changes implement atomic changes of a set, one role at a time:
\* none undoes another.
THEOREM RoleSetImplemented == RolesSpec => RoleSetSpec
  <1>1. RolesInit => Holders!Init
    BY DEF RolesInit, Holders!Init, Has
  <1>2. QED
    BY <1>1, RolesInvInit, RolesInvStep, HoldersStep, PTL DEF RolesSpec, RoleSetSpec, Holders!Spec, HeldRoles
-----------------------------------------------------------------------------
\* The bound, role by role.
Room(a, x) == roles[a][x] + Cardinality(PushesOf(a, x)) <= Cardinality(ChangeReq)

\* Additions in flight are requests, so there are no more than requests.
LEMMA PushesFinite ==
    ASSUME RolesTypeOK, NEW a, NEW x
    PROVE  /\ IsFiniteSet(PushesOf(a, x))
           /\ Cardinality(PushesOf(a, x)) \in Nat /\ Cardinality(ChangeReq) \in Nat
           /\ Cardinality(PushesOf(a, x)) <= Cardinality(ChangeReq)
  <1>1. PushesOf(a, x) \subseteq ChangeReq
    BY DEF PushesOf, RolesTypeOK
  <1>2. QED
    BY <1>1, RolesAssumption, FS_Subset, FS_CardinalityType

\* An addition saved moves from the requests to the array; every other step
\* leaves both alone or takes from them, but for a look at an array without
\* the role.
LEMMA RoomStep ==
    ASSUME RolesInv, RolesInv', [RolesNext]_roleVars, NEW a \in Account, NEW x \in Role, Room(a, x)
    PROVE  Room(a, x)'
  <1>1. /\ IsFiniteSet(PushesOf(a, x))
        /\ Cardinality(PushesOf(a, x)) \in Nat /\ Cardinality(ChangeReq) \in Nat
    BY PushesFinite DEF RolesInv
  <1>2. /\ Cardinality(PushesOf(a, x))' \in Nat
        /\ Cardinality(PushesOf(a, x))' <= Cardinality(ChangeReq)
    <2>1. PushesOf(a, x)' \subseteq ChangeReq
      BY DEF PushesOf, RolesInv, RolesTypeOK
    <2>2. QED
      BY <2>1, RolesAssumption, FS_Subset, FS_CardinalityType
  <1>3. roles[a][x] \in Nat /\ roles'[a][x] \in Nat
    BY DEF RolesInv, RolesTypeOK, RoleArray
  <1>4. CASE roles'[a][x] = 0
    BY <1>2, <1>4 DEF Room
  <1>5. ASSUME PushesOf(a, x)' \subseteq PushesOf(a, x), roles'[a][x] = roles[a][x]
        PROVE  Room(a, x)'
    <2>1. Cardinality(PushesOf(a, x)') <= Cardinality(PushesOf(a, x))
      BY <1>1, <1>5, FS_Subset
    <2>2. QED
      BY <1>1, <1>2, <1>3, <1>5, <2>1 DEF Room
  <1>6. ASSUME NEW r \in ChangeReq, NEW b \in Account, NEW y \in Role,
               AddRoleFind(r, b, y) \/ RemoveRoleFind(r, b, y)
        PROVE  Room(a, x)'
    <2>1. CASE PushesOf(a, x)' \subseteq PushesOf(a, x)
      BY <1>5, <1>6, <2>1 DEF AddRoleFind, RemoveRoleFind
    <2>2. CASE AddRoleFind(r, b, y) /\ a = b /\ x = y
      BY <1>3, <1>4, <2>2 DEF AddRoleFind, Has
    <2>3. ASSUME ~(AddRoleFind(r, b, y) /\ a = b /\ x = y)
          PROVE  PushesOf(a, x)' \subseteq PushesOf(a, x)
      BY <1>6, <2>3 DEF AddRoleFind, RemoveRoleFind, PushesOf, Saving, Put, NewChange
    <2>4. QED
      BY <2>1, <2>2, <2>3
  <1>7. ASSUME NEW r \in ChangeReq, AddRoleSave(r) \/ RemoveRoleSave(r)
        PROVE  Room(a, x)'
    <2>1. PushesOf(a, x)' \subseteq PushesOf(a, x) \ {r}
      BY <1>7 DEF AddRoleSave, RemoveRoleSave, PushesOf, Saving, Drop, Restrict
    <2>2. CASE r \in PushesOf(a, x) /\ AddRoleSave(r)
      <3>1. roles'[a][x] = roles[a][x] + 1
        BY <2>2 DEF AddRoleSave, Save, Pushed, PushesOf, RolesInv, RolesTypeOK, RoleArray
      <3>2. Cardinality(PushesOf(a, x)') <= Cardinality(PushesOf(a, x) \ {r})
        BY <1>1, <2>1, FS_Subset, FS_RemoveElement
      <3>3. Cardinality(PushesOf(a, x) \ {r}) = Cardinality(PushesOf(a, x)) - 1
        BY <1>1, <2>2, FS_RemoveElement
      <3>4. QED
        BY <1>1, <1>2, <1>3, <3>1, <3>2, <3>3 DEF Room
    <2>3. CASE ~(r \in PushesOf(a, x) /\ AddRoleSave(r))
      <3>1. roles'[a][x] \in {roles[a][x], 0}
        <4>1. CASE AddRoleSave(r)
          <5>1. r \in DOMAIN changing /\ ~(changing[r].account = a /\ changing[r].role = x)
            BY <2>3, <4>1 DEF AddRoleSave, PushesOf, Saving, RolesInv, RolesTypeOK
          <5>2. QED
            BY <4>1, <5>1 DEF AddRoleSave, Save, Pushed, RolesInv, RolesTypeOK, RoleArray
        <4>2. CASE RemoveRoleSave(r)
          <5>1. \/ roles'[a] = roles[a]
                \/ roles'[a] = Filtered(roles[a], changing[r].role)
            BY <4>2 DEF RemoveRoleSave, Save, Saving, RolesInv, RolesTypeOK, VersionGuards
          <5>2. QED
            BY <5>1 DEF Filtered, RolesInv, RolesTypeOK, RoleArray
        <4>3. QED
          BY <1>7, <4>1, <4>2
      <3>2. QED
        BY <1>4, <1>5, <2>1, <3>1
    <2>4. QED
      BY <2>2, <2>3
  <1>8. ASSUME \/ \E r \in ChangeReq : RemoveRoleConflict(r) \/ RoleChangeFail(r)
               \/ RolesCrash
               \/ UNCHANGED roleVars
        PROVE  Room(a, x)'
    <2>1. roles' = roles /\ PushesOf(a, x)' \subseteq PushesOf(a, x)
      BY <1>8 DEF RemoveRoleConflict, RoleChangeFail, RolesCrash, roleVars, PushesOf, Saving,
                  Drop, Restrict, Empty
    <2>2. QED
      BY <1>5, <2>1
  <1>9. QED
    BY <1>6, <1>7, <1>8 DEF RolesNext

\* A role is never repeated in an array more often than there are requests
\* that may add it together.
THEOREM Repeats == RolesSpec => []RepeatsBounded
  <1> DEFINE Bounded == \A a \in Account, x \in Role : Room(a, x)
  <1>1. RolesInit => Bounded
    <2> SUFFICES ASSUME RolesInit, NEW a \in Account, NEW x \in Role PROVE Room(a, x)
      OBVIOUS
    <2>1. PushesOf(a, x) = {} /\ roles[a][x] \in {0, 1}
      BY DEF RolesInit, PushesOf, Empty
    <2>2. Cardinality(ChangeReq) \in Nat /\ Cardinality(ChangeReq) # 0
      BY RolesAssumption, FS_CardinalityType, FS_EmptySet
    <2>3. QED
      BY <2>1, <2>2, FS_EmptySet DEF Room
  <1>2. Bounded /\ RolesInv /\ RolesInv' /\ [RolesNext]_roleVars => Bounded'
    BY RoomStep
  <1>3. Bounded => RepeatsBounded
    BY DEF RepeatsBounded, Room
  <1>4. QED
    BY <1>1, <1>2, <1>3, RolesInvInit, RolesInvStep, PTL DEF RolesSpec
=============================================================================
