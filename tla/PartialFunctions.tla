-------------------------- MODULE PartialFunctions --------------------------
(***************************************************************************)
(* Functions that grow and shrink: documents by id, and what the suspended *)
(* handlers of a Node.js process hold between two awaits, by request.      *)
(***************************************************************************)
EXTENDS Functions

Empty == [x \in {} |-> x]

\* Entry x appears, or changes, with the value v.
Put(f, x, v) == [y \in DOMAIN f \cup {x} |-> IF y = x THEN v ELSE f[y]]

\* The entries of S disappear.
Drop(f, S) == Restrict(f, DOMAIN f \ S)
=============================================================================
