------------------------------ MODULE ClaimBook ------------------------------
(***************************************************************************)
(* Claiming, as its users may think of it: a book in which the service     *)
(* enters verdicts, one at a time and for good, and answers that quote it. *)
(* Users who are promised it have one verdict on an event: for them an     *)
(* entry of the book is a register that is written once, and every answer  *)
(* is a reading of it.                                                     *)
(*                                                                         *)
(* A verdict is a record with at least the fields `key`, a record with the *)
(* user it is on, and `claim`, which is its own.                           *)
(***************************************************************************)
CONSTANTS
    User,
    Once  \* the users who are promised one verdict for a key

VARIABLES
    book,  \* the verdicts
    told   \* the verdicts that each user was answered with

Init ==
    /\ book = {}
    /\ told = [u \in User |-> {}]

\* A verdict is entered that the book does not have yet.
Enter(v) ==
    /\ \A w \in book : w.claim # v.claim
    /\ v.key.user \in Once => \A w \in book : w.key # v.key
    /\ book' = book \cup {v}
    /\ UNCHANGED told

\* The user whom a verdict in the book is on is answered with it.
Tell(v) ==
    /\ v \in book
    /\ told' = [told EXCEPT ![v.key.user] = @ \cup {v}]
    /\ UNCHANGED book

Next ==
    \/ \E v \in book' : Enter(v)
    \/ \E v \in book : Tell(v)

Spec == Init /\ [][Next]_<<book, told>>

-----------------------------------------------------------------------------
\* What users may rely on: every answer quotes the book, on its own user, no
\* verdict is there in two versions, and users who are promised it have one for
\* a key.
Kept ==
    /\ \A u \in User : \A v \in told[u] : v \in book /\ v.key.user = u
    /\ \A v, w \in book : v.claim = w.claim => v = w
    /\ \A v, w \in book : v.key = w.key /\ v.key.user \in Once => v = w
=============================================================================
