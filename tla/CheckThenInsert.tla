--------------------------- MODULE CheckThenInsert ---------------------------
(***************************************************************************)
(* What a MongoDB collection without a unique index promises when every    *)
(* writer first looks for a document with its key and inserts one only if  *)
(* the lookup found none.  The lookup and the insertion are two calls, so  *)
(* other writers may come between them.  The event platform uses its       *)
(* claims and its attendance logs in this way.                             *)
(*                                                                         *)
(* A document is a record with at least the fields `key` and `seen`, the   *)
(* number of documents the collection held when its writer looked.         *)
(***************************************************************************)
EXTENDS Integers, Sequences, FiniteSets, PartialFunctions

CONSTANTS Key, Request

VARIABLES docs, open

vars == <<docs, open>>

\* The positions of the documents with key k, in insertion order.
DocsOf(k) == {i \in DOMAIN docs : docs[i].key = k}

\* The writers that looked for k, found nothing, and have yet to insert.
OpenFor(k) == {r \in DOMAIN open : open[r].key = k}

Init ==
    /\ docs = <<>>
    /\ open = Empty

Miss(r, k) ==
    /\ r \notin DOMAIN open
    /\ DocsOf(k) = {}
    /\ open' = Put(open, r, [key |-> k, seen |-> Len(docs)])
    /\ UNCHANGED docs

Insert(r) ==
    /\ r \in DOMAIN open
    /\ Len(docs') = Len(docs) + 1
    /\ docs' = Append(docs, docs'[Len(docs) + 1])
    /\ docs'[Len(docs) + 1].key = open[r].key
    /\ docs'[Len(docs) + 1].seen = open[r].seen
    /\ open' = Drop(open, {r})

Abandon(R) ==
    /\ open' = Drop(open, R)
    /\ UNCHANGED docs

Next ==
    \/ \E r \in Request, k \in Key : Miss(r, k)
    \/ \E r \in Request : Insert(r)
    \/ \E R \in SUBSET Request : Abandon(R)

Spec == Init /\ [][Next]_vars

-----------------------------------------------------------------------------
\* Two documents share a key only if the writer of the later one had looked
\* before the earlier one was inserted: duplicates come from races alone.
DuplicatesRaced ==
    \A i, j \in DOMAIN docs :
        i < j /\ docs[i].key = docs[j].key => docs[j].seen < i

\* A writer still to insert looked before every document with its key came.
OpenRaced ==
    \A r \in DOMAIN open, i \in DOMAIN docs :
        docs[i].key = open[r].key => open[r].seen < i

\* The duplicates of a key, and the writers that may still add to them, are
\* never more than the requests that can be in flight together.
DuplicatesBounded ==
    \A k \in Key :
        DocsOf(k) # {} =>
            Cardinality(DocsOf(k)) + Cardinality(OpenFor(k)) <= Cardinality(Request)

\* Once a key has a document and no writer of the key is between its two
\* calls, no request ever adds, removes or changes a document of that key.
SettledStep(k) ==
    DocsOf(k) # {} /\ OpenFor(k) = {} =>
        /\ DocsOf(k)' = DocsOf(k) /\ OpenFor(k)' = {}
        /\ \A i \in DocsOf(k) : docs'[i] = docs[i]

SettledForever == [][\A k \in Key : SettledStep(k)]_vars
=============================================================================
