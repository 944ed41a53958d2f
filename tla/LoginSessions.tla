---------------------------- MODULE LoginSessions ----------------------------
(***************************************************************************)
(* What a user may expect of logins: each opens one session, which goes    *)
(* on, renewed any number of times unseen, until it is over, and then      *)
(* never comes back.  Several may be over at once, as when the service     *)
(* stops.                                                                  *)
(***************************************************************************)
CONSTANT LoginId

VARIABLES opened, over

Init == opened = {} /\ over = {}

Open(l) ==
    /\ l \notin opened
    /\ opened' = opened \cup {l}
    /\ UNCHANGED over

End(S) ==
    /\ over' = over \cup S
    /\ UNCHANGED opened

Next ==
    \/ \E l \in LoginId : Open(l)
    \/ \E S \in SUBSET (opened \ over) : End(S)

Spec == Init /\ [][Next]_<<opened, over>>
=============================================================================
