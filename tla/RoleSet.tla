------------------------------- MODULE RoleSet -------------------------------
(***************************************************************************)
(* What administrators may expect of roles: an account has a set of them,  *)
(* and each change that takes effect adds one role to it or takes one      *)
(* away, at one instant, whatever other changes are going on.              *)
(***************************************************************************)
CONSTANTS Account, Role

VARIABLE held

Init == held \in [Account -> SUBSET Role]

Grant(a, x) == held' = [held EXCEPT ![a] = @ \cup {x}]

Revoke(a, x) == held' = [held EXCEPT ![a] = @ \ {x}]

Next == \E a \in Account, x \in Role : Grant(a, x) \/ Revoke(a, x)

Spec == Init /\ [][Next]_held
=============================================================================
