------------------------------ MODULE MCGateway ------------------------------
\* Small instances of Gateway: one account that changes its own roles, as
\* changes of several accounts have nothing in common but their authority.
EXTENDS Gateway, TLC

Symmetries == Permutations(ChangeReq)
=============================================================================
