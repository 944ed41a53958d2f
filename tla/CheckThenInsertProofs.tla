------------------------ MODULE CheckThenInsertProofs ------------------------
(***************************************************************************)
(* Proofs about every check-then-insert collection, for any sets of keys   *)
(* and requests.  The components inherit them by refinement.               *)
(***************************************************************************)
EXTENDS CheckThenInsert, FiniteSetTheorems, TLAPS

\* The collection is a sequence, and the requests of its open writers are
\* requests that looked at it when it was no longer than now.
Shape ==
    /\ \E S : docs \in Seq(S)
    /\ DOMAIN open \subseteq Request
    /\ \A r \in DOMAIN open : open[r].seen \in Nat /\ open[r].seen <= Len(docs)

RaceInv == Shape /\ OpenRaced /\ DuplicatesRaced

-----------------------------------------------------------------------------
\* An insertion leaves the documents where they are and adds one at the end.
LEMMA InsertAppends ==
    ASSUME \E S : docs \in Seq(S), NEW r, Insert(r)
    PROVE  /\ \E S : docs' \in Seq(S)
           /\ DOMAIN docs = 1 .. Len(docs)
           /\ DOMAIN docs' = 1 .. Len(docs) + 1
           /\ Len(docs) \in Nat
           /\ Len(docs') = Len(docs) + 1
           /\ \A i \in DOMAIN docs : docs'[i] = docs[i]
           /\ docs'[Len(docs) + 1].key = open[r].key
           /\ docs'[Len(docs) + 1].seen = open[r].seen
  <1>1. PICK S : docs \in Seq(S)
    OBVIOUS
  <1> DEFINE doc == docs'[Len(docs) + 1]
  <1>2. docs' = Append(docs, doc)
    BY DEF Insert
  <1>3. docs \in Seq(S \cup {doc}) /\ doc \in S \cup {doc}
    BY <1>1
  <1> HIDE DEF doc
  <1>4. docs' \in Seq(S \cup {doc})
    BY <1>2, <1>3
  <1>5. /\ DOMAIN docs = 1 .. Len(docs)
        /\ DOMAIN docs' = 1 .. Len(docs) + 1
        /\ Len(docs) \in Nat
        /\ Len(docs') = Len(docs) + 1
        /\ \A i \in DOMAIN docs : docs'[i] = docs[i]
    BY <1>2, <1>3
  <1>6. QED
    BY <1>4, <1>5 DEF Insert

-----------------------------------------------------------------------------
\* The collection starts empty, with no writer open.
LEMMA RaceInit == Init => RaceInv
  <1> SUFFICES ASSUME Init PROVE RaceInv
    OBVIOUS
  <1>1. docs \in Seq({}) /\ DOMAIN docs = {} /\ DOMAIN open = {}
    BY DEF Init, Empty
  <1>2. QED
    BY <1>1 DEF RaceInv, Shape, OpenRaced, DuplicatesRaced

\* A lookup that misses notes a length beyond every document of its key, and
\* an insertion puts its document after those of the requests that looked.
LEMMA RaceStep == RaceInv /\ [Next]_vars => RaceInv'
  <1> SUFFICES ASSUME RaceInv, [Next]_vars PROVE RaceInv'
    OBVIOUS
  <1> USE DEF RaceInv, Shape, OpenRaced, DuplicatesRaced
  <1>1. ASSUME NEW r \in Request, NEW k \in Key, Miss(r, k) PROVE RaceInv'
    <2>1. /\ docs' = docs
          /\ DOMAIN open' = DOMAIN open \cup {r}
          /\ open'[r] = [key |-> k, seen |-> Len(docs)]
          /\ \A q \in DOMAIN open : open'[q] = open[q]
      BY <1>1 DEF Miss, Put
    <2>2. \A i \in DOMAIN docs : docs[i].key # k
      BY <1>1 DEF Miss, DocsOf
    <2>3. Len(docs) \in Nat
      OBVIOUS
    <2>4. QED
      BY <2>1, <2>2, <2>3
  <1>2. ASSUME NEW r \in Request, Insert(r) PROVE RaceInv'
    <2>1. /\ \E S : docs' \in Seq(S)
          /\ DOMAIN docs = 1 .. Len(docs)
          /\ DOMAIN docs' = 1 .. Len(docs) + 1
          /\ Len(docs) \in Nat
          /\ Len(docs') = Len(docs) + 1
          /\ \A i \in DOMAIN docs : docs'[i] = docs[i]
          /\ docs'[Len(docs) + 1].key = open[r].key
          /\ docs'[Len(docs) + 1].seen = open[r].seen
      BY <1>2, InsertAppends
    <2>2. /\ r \in DOMAIN open
          /\ DOMAIN open' = DOMAIN open \ {r}
          /\ \A q \in DOMAIN open' : open'[q] = open[q]
      BY <1>2 DEF Insert, Drop, Restrict
    <2>3. Shape'
      BY <2>1, <2>2
    <2>4. OpenRaced'
      BY <2>1, <2>2
    <2>5. DuplicatesRaced'
      BY <2>1, <2>2
    <2>6. QED
      BY <2>3, <2>4, <2>5
  <1>3. ASSUME NEW R \in SUBSET Request, Abandon(R) PROVE RaceInv'
    <2>1. /\ docs' = docs
          /\ DOMAIN open' = DOMAIN open \ R
          /\ \A q \in DOMAIN open' : open'[q] = open[q]
      BY <1>3 DEF Abandon, Drop, Restrict
    <2>2. QED
      BY <2>1
  <1>4. CASE UNCHANGED vars
    BY <1>4 DEF vars
  <1>5. QED
    BY <1>1, <1>2, <1>3, <1>4 DEF Next

\* Duplicates come from races alone, and the writers still open looked before
\* every document of their key was inserted.
THEOREM Races == Spec => []RaceInv
  BY RaceInit, RaceStep, PTL DEF Spec

-----------------------------------------------------------------------------
\* A key with a document and without an open writer is settled.
THEOREM Settled == Spec => SettledForever
  <1>1. RaceInv /\ [Next]_vars => [\A k \in Key : SettledStep(k)]_vars
    <2> SUFFICES ASSUME RaceInv, [Next]_vars, NEW k \in Key,
                        DocsOf(k) # {}, OpenFor(k) = {}
                 PROVE  /\ DocsOf(k)' = DocsOf(k) /\ OpenFor(k)' = {}
                        /\ \A i \in DocsOf(k) : docs'[i] = docs[i]
      BY DEF SettledStep
    <2> USE DEF DocsOf, OpenFor
    <2>1. ASSUME NEW r \in Request, NEW l \in Key, Miss(r, l)
          PROVE  docs' = docs /\ OpenFor(k)' = {}
      <3>1. l # k
        BY <2>1 DEF Miss
      <3>2. QED
        BY <2>1, <3>1 DEF Miss, Put
    <2>2. ASSUME NEW r \in Request, Insert(r)
          PROVE  /\ DocsOf(k)' = DocsOf(k) /\ OpenFor(k)' = {}
                 /\ \A i \in DocsOf(k) : docs'[i] = docs[i]
      <3>1. r \in DOMAIN open /\ open[r].key # k
        BY <2>2 DEF Insert
      <3>2. /\ DOMAIN docs = 1 .. Len(docs)
            /\ DOMAIN docs' = 1 .. Len(docs) + 1
            /\ Len(docs) \in Nat
            /\ \A i \in DOMAIN docs : docs'[i] = docs[i]
            /\ docs'[Len(docs) + 1].key = open[r].key
        BY <2>2, InsertAppends DEF RaceInv, Shape
      <3>3. DocsOf(k)' = DocsOf(k)
        BY <3>1, <3>2
      <3>4. OpenFor(k)' = {}
        BY <2>2 DEF Insert, Drop, Restrict
      <3>5. QED
        BY <3>2, <3>3, <3>4
    <2>3. ASSUME NEW R \in SUBSET Request, Abandon(R)
          PROVE  docs' = docs /\ OpenFor(k)' = {}
      BY <2>3 DEF Abandon, Drop, Restrict
    <2>4. CASE UNCHANGED vars
      BY <2>4 DEF vars
    <2>5. QED
      BY <2>1, <2>2, <2>3, <2>4 DEF Next
  <1>2. QED
    BY <1>1, Races, PTL DEF Spec, SettledForever

-----------------------------------------------------------------------------
\* Both sets that DuplicatesBounded counts are finite.
LEMMA CountsFinite ==
    ASSUME Shape, IsFiniteSet(Request), NEW k
    PROVE  /\ IsFiniteSet(DocsOf(k)) /\ Cardinality(DocsOf(k)) \in Nat
           /\ IsFiniteSet(OpenFor(k)) /\ Cardinality(OpenFor(k)) \in Nat
           /\ Cardinality(OpenFor(k)) <= Cardinality(Request)
           /\ Cardinality(Request) \in Nat
  <1>1. DOMAIN docs = 1 .. Len(docs) /\ Len(docs) \in Nat
    BY DEF Shape
  <1>2. IsFiniteSet(1 .. Len(docs))
    BY <1>1, FS_Interval
  <1>3. DocsOf(k) \in SUBSET (1 .. Len(docs)) /\ OpenFor(k) \in SUBSET Request
    BY <1>1 DEF DocsOf, OpenFor, Shape
  <1>4. IsFiniteSet(DocsOf(k)) /\ IsFiniteSet(OpenFor(k))
    BY <1>2, <1>3, FS_Subset
  <1>5. Cardinality(OpenFor(k)) <= Cardinality(Request)
    BY <1>3, FS_Subset
  <1>6. QED
    BY <1>4, <1>5, FS_CardinalityType

\* A lookup that misses finds no document, so the requests in flight alone
\* bound its key; an insertion turns a writer into a document.
LEMMA BoundedStep ==
    ASSUME IsFiniteSet(Request), RaceInv, RaceInv', DuplicatesBounded, [Next]_vars
    PROVE  DuplicatesBounded'
  <1> SUFFICES ASSUME NEW k \in Key, DocsOf(k)' # {}
               PROVE  Cardinality(DocsOf(k)') + Cardinality(OpenFor(k)') <= Cardinality(Request)
    BY DEF DuplicatesBounded
  <1> DEFINE docs1 == DocsOf(k)'
             open1 == OpenFor(k)'
  <1>1. /\ IsFiniteSet(DocsOf(k)) /\ Cardinality(DocsOf(k)) \in Nat
        /\ IsFiniteSet(OpenFor(k)) /\ Cardinality(OpenFor(k)) \in Nat
        /\ Cardinality(OpenFor(k)) <= Cardinality(Request)
        /\ Cardinality(Request) \in Nat
    BY CountsFinite DEF RaceInv
  <1>2. DocsOf(k) # {} =>
            Cardinality(DocsOf(k)) + Cardinality(OpenFor(k)) <= Cardinality(Request)
    BY DEF DuplicatesBounded
  <1>3. ASSUME docs1 = DocsOf(k), open1 \subseteq OpenFor(k)
        PROVE  Cardinality(docs1) + Cardinality(open1) <= Cardinality(Request)
    <2>1. Cardinality(open1) <= Cardinality(OpenFor(k)) /\ Cardinality(open1) \in Nat
      BY <1>1, <1>3, FS_Subset, FS_CardinalityType
    <2> HIDE DEF docs1, open1
    <2>2. QED
      BY <1>1, <1>2, <1>3, <2>1 DEF docs1
  <1>4. ASSUME NEW r \in Request, NEW l \in Key, Miss(r, l)
        PROVE  docs1 = DocsOf(k) /\ open1 \subseteq OpenFor(k)
    <2>1. docs' = docs /\ docs1 = DocsOf(k)
      BY <1>4 DEF Miss, DocsOf
    <2>2. l # k
      BY <1>4, <2>1 DEF Miss
    <2>3. open1 \subseteq OpenFor(k)
      BY <1>4, <2>2 DEF Miss, OpenFor, Put
    <2>4. QED
      BY <2>1, <2>3
  <1>5. ASSUME NEW R \in SUBSET Request, Abandon(R)
        PROVE  docs1 = DocsOf(k) /\ open1 \subseteq OpenFor(k)
    BY <1>5 DEF Abandon, DocsOf, OpenFor, Drop, Restrict
  <1>6. ASSUME NEW r \in Request, Insert(r), open[r].key # k
        PROVE  docs1 = DocsOf(k) /\ open1 \subseteq OpenFor(k)
    <2>1. docs1 = DocsOf(k)
      BY <1>6, InsertAppends DEF RaceInv, Shape, DocsOf
    <2>2. open1 \subseteq OpenFor(k)
      BY <1>6 DEF Insert, OpenFor, Drop, Restrict
    <2>3. QED
      BY <2>1, <2>2
  <1>7. ASSUME NEW r \in Request, Insert(r), open[r].key = k
        PROVE  Cardinality(docs1) + Cardinality(open1) <= Cardinality(Request)
    <2>1. docs1 = DocsOf(k) \cup {Len(docs) + 1} /\ Len(docs) + 1 \notin DocsOf(k)
      BY <1>7, InsertAppends DEF RaceInv, Shape, DocsOf
    <2>2. open1 = OpenFor(k) \ {r} /\ r \in OpenFor(k)
      BY <1>7 DEF Insert, OpenFor, Drop, Restrict
    <2> HIDE DEF docs1, open1
    <2>3. Cardinality(docs1) = Cardinality(DocsOf(k)) + 1
      BY <1>1, <2>1, FS_AddElement
    <2>4. Cardinality(open1) = Cardinality(OpenFor(k)) - 1
      BY <1>1, <2>2, FS_RemoveElement
    <2>5. DocsOf(k) = {} => Cardinality(DocsOf(k)) = 0
      BY FS_EmptySet
    <2>6. QED
      BY <1>1, <1>2, <2>3, <2>4, <2>5
  <1>8. CASE UNCHANGED vars
    BY <1>3, <1>8 DEF vars, DocsOf, OpenFor
  <1>9. QED
    BY <1>3, <1>4, <1>5, <1>6, <1>7, <1>8 DEF Next

\* Duplicates of a key never outnumber the requests in flight together.
THEOREM Bounded ==
    ASSUME IsFiniteSet(Request)
    PROVE  Spec => []DuplicatesBounded
  <1>1. Init => DuplicatesBounded
    BY DEF Init, DuplicatesBounded, DocsOf
  <1>2. RaceInv /\ RaceInv' /\ DuplicatesBounded /\ [Next]_vars => DuplicatesBounded'
    BY BoundedStep
  <1>3. QED
    BY <1>1, <1>2, Races, PTL DEF Spec
=============================================================================
