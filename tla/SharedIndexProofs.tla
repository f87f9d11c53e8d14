-------------------------- MODULE SharedIndexProofs --------------------------
(***************************************************************************)
(* Proofs about SharedIndex, for any number of sources, keys and bodies    *)
(* and any sizes of batches and pages: as long as no two sources deliver   *)
(* the same document, a collection is to each source as an index of its    *)
(* own, whenever Qdrant carries out its deletions and Elasticsearch        *)
(* refreshes.                                                              *)
(***************************************************************************)
EXTENDS SharedIndex, FiniteSetTheorems, WellFoundedInduction, TLAPS

\* What the README asks of the user.
Separate == \A s, t \in Sources : s # t => Reach[s] \cap Reach[t] = {}

-----------------------------------------------------------------------------
(* The inductive invariant.                                                *)

Current(s, k) == [source |-> s, hash |-> current[s][Uri[k]]]

\* A point of a document of this source, if there is one, that its run does
\* not want, or was shown otherwise.
Disposable(s, k) ==
  /\ Uri[k] \in Reach[s]
  /\ k \in misread[s] \/ (Settled[k] # None => Settled[k].hash # current[s][Uri[k]])

\* A point is a chunk of the body it names, of a document its source delivers.
HonestAt(p) ==
  \A k \in Keys : p[k] # None =>
    Uri[k] \in Reach[p[k].source] /\ k \in Chunks[p[k].hash]

Honest == HonestAt(points) /\ HonestAt(view)

\* Points are written to a collection that exists.
Housed ==
  /\ ~exists => \A k \in Keys : points[k] = None
  /\ \A s \in Sources : pc[s] = "write" => exists

\* What a run wants and is not still to write is there to stay, unless it was misread.
Written(s) ==
  pc[s] # "failed" =>
    /\ pending[s] \subseteq Wanted(current[s])
    /\ \A k \in Wanted(current[s]) \ pending[s] : Settled[k] = Current(s, k) \/ k \in misread[s]
    /\ pc[s] \in {"prune", "delete", "done"} => pending[s] = {}

\* What is noted is this source's to delete and outdated, or gone already;
\* what is outdated and was paged is noted, unless it was misread.
Noted(s) ==
  /\ pc[s] \in Active => \A k \in stale[s] : Disposable(s, k)
  /\ pc[s] \in {"ensure", "create", "write"} => cursor[s] = 0 /\ stale[s] = {} /\ misread[s] = {}
  /\ pc[s] = "prune" =>
       \A k \in Outdated(s, Settled) : k <= cursor[s] => k \in stale[s] \cup misread[s]
  /\ pc[s] = "delete" => Outdated(s, Settled) \subseteq stale[s] \cup misread[s]
  /\ pc[s] = "done" => Outdated(s, Settled) \subseteq misread[s]
  /\ backend # "elasticsearch" => misread[s] = {}

SharedInv ==
  TypeOK /\ Honest /\ Housed /\ \A s \in Sources : Written(s) /\ Noted(s)

-----------------------------------------------------------------------------
(* Pages.                                                                  *)

\* A set of keys that is not empty has a least element, and a greatest.
LEMMA LeastKey ==
  ASSUME NEW S \in SUBSET Nat, S # {}
  PROVE  Min(S) \in S /\ \A k \in S : Min(S) <= k
<1>1. \E x \in S : \A y \in S : ~(<<y, x>> \in OpToRel(<, Nat))
  BY WFMin, NatLessThanWellFounded, Zenon
<1>2. \E x \in S : \A y \in S : ~(y < x)
  <2>1. PICK x \in S : \A y \in S : ~(<<y, x>> \in OpToRel(<, Nat))
    BY <1>1
  <2>2. \A y \in S : y < x => <<y, x>> \in OpToRel(<, Nat)
    BY Zenon DEF OpToRel
  <2> QED
    BY <2>1, <2>2, Zenon
<1>3. \E x \in S : \A y \in S : x <= y
  BY <1>2
<1> QED
  BY <1>3 DEF Min

LEMMA GreatestKey ==
  ASSUME NEW n \in Nat, NEW S \in SUBSET (1..n), S # {}
  PROVE  Max(S) \in S /\ \A k \in S : Max(S) >= k
<1> DEFINE mirror == {j \in 0..n : n - j \in S}
<1>1. \A k \in S : n - k \in mirror /\ n - (n - k) = k
  OBVIOUS
<1>2. mirror \in SUBSET Nat
  OBVIOUS
<1>3. mirror # {}
  BY <1>1
<1>4. Min(mirror) \in mirror /\ \A k \in mirror : Min(mirror) <= k
  <2> HIDE DEF mirror
  <2> QED
    BY <1>2, <1>3, LeastKey
<1>5. n - Min(mirror) \in S /\ \A k \in S : n - Min(mirror) >= k
  BY <1>1, <1>4
<1> QED
  BY <1>5 DEF Max

LEMMA KeysFinite ==
  ASSUME NEW S \in SUBSET Keys
  PROVE  IsFiniteSet(S) /\ Cardinality(S) \in Nat
<1>1. IsFiniteSet(Keys)
  BY SharedAssumption, FS_Interval DEF Keys
<1>2. IsFiniteSet(S)
  BY <1>1, FS_Subset
<1> QED
  BY <1>2, FS_CardinalityType

\* The points of a page come before those that are not in it.
LEMMA PageIsFirst ==
  ASSUME NEW s \in Sources, NEW p, NEW k \in PageOf(s, p), NEW j \in Rest(s, p), j <= k
  PROVE  j \in PageOf(s, p)
<1> DEFINE Before(i) == {h \in Rest(s, p) : h < i}
<1>1. Rest(s, p) \in SUBSET Keys /\ k \in Keys /\ j \in Keys /\ Keys \in SUBSET Nat
  BY SharedAssumption DEF PageOf, Rest, Owned, Keys
<1>2. Before(j) \in SUBSET Before(k) /\ Before(k) \in SUBSET Keys
  <2>1. \A h \in Keys : h < j => h < k
    BY <1>1
  <2> QED
    BY <1>1, <2>1
<1>3. Cardinality(Before(j)) <= Cardinality(Before(k))
  BY <1>2, KeysFinite, FS_Subset
<1>4. Cardinality(Before(j)) \in Nat /\ Cardinality(Before(k)) \in Nat
  BY <1>2, KeysFinite
<1>5. Cardinality(Before(k)) < PageSize
  BY DEF PageOf
<1>6. Cardinality(Before(j)) < PageSize
  BY <1>3, <1>4, <1>5, SharedAssumption
<1> QED
  BY <1>6 DEF PageOf

\* The last page is all that is left.
LEMMA LastPageIsRest ==
  ASSUME NEW s \in Sources, NEW p, LastPage(s, p)
  PROVE  Rest(s, p) \subseteq PageOf(s, p)
<1>1. CASE backend = "qdrant"
  BY <1>1 DEF LastPage
<1>2. CASE backend # "qdrant"
  <2> SUFFICES ASSUME Rest(s, p) \ PageOf(s, p) # {} PROVE FALSE
    OBVIOUS
  <2> DEFINE behind == Rest(s, p) \ PageOf(s, p)
             m == Min(behind)
             Before == {h \in Rest(s, p) : h < m}
  <2>1. Rest(s, p) \in SUBSET Keys /\ Keys \in SUBSET Nat /\ PageOf(s, p) \in SUBSET Keys
    BY SharedAssumption DEF PageOf, Rest, Owned, Keys
  <2>2. m \in behind /\ \A k \in behind : m <= k
    BY <2>1, LeastKey
  <2>3. Before \in SUBSET PageOf(s, p)
    <3> SUFFICES ASSUME NEW h \in Rest(s, p), h < m PROVE h \in PageOf(s, p)
      OBVIOUS
    <3>1. h \in Nat /\ m \in Nat
      BY <2>1, <2>2
    <3> QED
      BY <2>2, <3>1
  <2>4. Cardinality(Before) <= Cardinality(PageOf(s, p))
    BY <2>1, <2>3, KeysFinite, FS_Subset
  <2>5. ~(Cardinality(Before) < PageSize)
    BY <2>2 DEF PageOf
  <2>6. Cardinality(PageOf(s, p)) < PageSize
    BY <1>2 DEF LastPage
  <2>7. Cardinality(Before) \in Nat /\ Cardinality(PageOf(s, p)) \in Nat
    BY <2>1, <2>3, KeysFinite
  <2> QED
    BY <2>4, <2>5, <2>6, <2>7, SharedAssumption
<1> QED
  BY <1>1, <1>2

\* The next page starts behind this one, with nothing of the source between them.
LEMMA NextPage ==
  ASSUME NEW s \in Sources, NEW p, ~LastPage(s, p)
  PROVE  /\ Ahead(s, p) \in 0..Last
         /\ \A k \in Rest(s, p) : k <= Ahead(s, p) <=> k \in PageOf(s, p)
<1>1. Rest(s, p) \in SUBSET Keys /\ Keys \in SUBSET Nat /\ PageOf(s, p) \in SUBSET Rest(s, p)
  BY SharedAssumption DEF PageOf, Rest, Owned, Keys
<1>2. CASE backend = "qdrant"
  <2> DEFINE behind == Rest(s, p) \ PageOf(s, p)
  <2>1. behind # {} /\ behind \in SUBSET Nat /\ behind \in SUBSET Keys
    <3>1. Rest(s, p) # PageOf(s, p)
      BY <1>2 DEF LastPage
    <3> QED
      BY <1>1, <3>1
  <2>2. Min(behind) \in behind /\ \A k \in behind : Min(behind) <= k
    <3> HIDE DEF behind
    <3> QED
      BY <2>1, LeastKey
  <2>3. Ahead(s, p) = Min(behind) - 1
    BY <1>2 DEF Ahead
  <2>4. Ahead(s, p) \in 0..Last
    BY <2>1, <2>2, <2>3, SharedAssumption DEF Keys
  <2>5. ASSUME NEW k \in Rest(s, p), k <= Ahead(s, p), k \notin PageOf(s, p) PROVE FALSE
    <3>1. Min(behind) <= k /\ k \in Nat /\ Min(behind) \in Nat
      BY <1>1, <2>1, <2>2, <2>5
    <3> QED
      BY <2>3, <2>5, <3>1
  <2>6. ASSUME NEW k \in PageOf(s, p) PROVE k <= Ahead(s, p)
    <3>1. Min(behind) \in Rest(s, p) /\ Min(behind) \notin PageOf(s, p)
      BY <2>2
    <3>2. ~(Min(behind) <= k)
      BY <3>1, PageIsFirst
    <3>3. k \in Nat /\ Min(behind) \in Nat
      BY <1>1, <2>1, <2>2
    <3> HIDE DEF behind
    <3> QED
      BY <2>3, <3>2, <3>3
  <2> QED
    BY <1>1, <2>4, <2>5, <2>6
<1>3. CASE backend # "qdrant"
  <2>1. PageOf(s, p) # {}
    <3>1. ~(Cardinality(PageOf(s, p)) < PageSize)
      BY <1>3 DEF LastPage
    <3> QED
      BY <3>1, FS_EmptySet, SharedAssumption
  <2>2. Max(PageOf(s, p)) \in PageOf(s, p) /\ \A k \in PageOf(s, p) : Max(PageOf(s, p)) >= k
    BY <1>1, <2>1, GreatestKey, SharedAssumption DEF Keys
  <2>3. Ahead(s, p) = Max(PageOf(s, p))
    BY <1>3 DEF Ahead
  <2>4. Ahead(s, p) \in 0..Last
    BY <1>1, <2>2, <2>3, SharedAssumption DEF Keys
  <2>5. \A k \in PageOf(s, p) : k <= Max(PageOf(s, p))
    BY <1>1, <2>2
  <2> QED
    BY <1>1, <2>2, <2>3, <2>4, <2>5, PageIsFirst
<1> QED
  BY <1>2, <1>3

-----------------------------------------------------------------------------
(* The steps of a run that is under way.                                   *)

\* What such a step may make of a point that is to stay: nothing, what the
\* run wants, or none if it was not what the run wants.
Moves(s, k) ==
  \/ Settled'[k] = Settled[k]
  \/ k \in Wanted(current[s]) /\ Settled'[k] = Current(s, k)
  \/ Disposable(s, k) /\ Settled'[k] = None

\* What it may make of what is stored.
Stores(s, k) ==
  \/ points'[k] = points[k] \/ points'[k] = None
  \/ k \in Wanted(current[s]) /\ points'[k] = Current(s, k)

\* It may only add to what was misread.
Misreads(s) ==
  /\ misread' \in [Sources -> SUBSET Keys]
  /\ misread[s] \subseteq misread'[s]
  /\ \A t \in Sources : t # s => misread'[t] = misread[t]

Acts(s) ==
  /\ pc[s] \in Active
  /\ UNCHANGED <<backend, current>>
  /\ points' \in [Keys -> Point \cup {None}]
  /\ doomed' \in SUBSET Keys
  /\ \A k \in Keys : Moves(s, k) /\ Stores(s, k)
  /\ Misreads(s)
  /\ \E x \in Active \cup {"done", "failed"} : pc' = [pc EXCEPT ![s] = x]

LEMMA SettledAt ==
  /\ \A k \in Keys : Settled[k] = IF k \in doomed THEN None ELSE points[k]
  /\ \A k \in Keys : Settled'[k] = IF k \in doomed' THEN None ELSE points'[k]
BY DEF Settled

LEMMA SettledSame ==
  ASSUME UNCHANGED <<points, doomed>> PROVE Settled' = Settled
BY DEF Settled

LEMMA WantedKeys ==
  ASSUME NEW s \in Sources, NEW docs \in Docs(s), NEW k \in Wanted(docs)
  PROVE  /\ k \in Keys /\ Uri[k] \in Reach[s]
         /\ docs[Uri[k]] \in Hashes /\ k \in Chunks[docs[Uri[k]]]
         /\ [source |-> s, hash |-> docs[Uri[k]]] \in Point
BY SharedAssumption DEF Wanted, Docs, Point

LEMMA PutMoves ==
  ASSUME SharedInv, NEW s \in Sources, pc[s] = "write", NEW K \in SUBSET pending[s], Put(s, K)
  PROVE  /\ points' \in [Keys -> Point \cup {None}] /\ doomed' \in SUBSET Keys
         /\ \A k \in Keys : Moves(s, k) /\ Stores(s, k)
         /\ \A k \in Keys : Settled'[k] = IF k \in K THEN Current(s, k) ELSE Settled[k]
<1>1. K \subseteq Wanted(current[s]) /\ current[s] \in Docs(s)
  BY DEF SharedInv, TypeOK, Written
<1>2. \A k \in K : Current(s, k) \in Point
  BY <1>1, WantedKeys DEF Current
<1>3. \A k \in Keys : points'[k] = IF k \in K THEN Current(s, k) ELSE points[k]
  BY DEF Put, Current
<1>4. points' \in [Keys -> Point \cup {None}]
  BY <1>2 DEF Put, Current, SharedInv, TypeOK
<1>5. doomed' = doomed \ K /\ doomed' \in SUBSET Keys
  BY DEF Put, SharedInv, TypeOK
<1>6. \A k \in Keys : Settled'[k] = IF k \in K THEN Current(s, k) ELSE Settled[k]
  BY <1>3, <1>5, SettledAt
<1>7. \A k \in Keys : Moves(s, k) /\ Stores(s, k)
  BY <1>1, <1>3, <1>6 DEF Moves, Stores
<1> QED
  BY <1>4, <1>5, <1>6, <1>7

LEMMA DropMoves ==
  ASSUME SharedInv, NEW s \in Sources, NEW K \in SUBSET Keys, Drop(K),
         \A k \in K : Disposable(s, k)
  PROVE  /\ points' \in [Keys -> Point \cup {None}] /\ doomed' \in SUBSET Keys
         /\ \A k \in Keys : Moves(s, k) /\ Stores(s, k)
         /\ \A k \in Keys : points'[k] = points[k] \/ points'[k] = None
         /\ \A k \in Keys : Settled'[k] = IF k \in K THEN None ELSE Settled[k]
<1>1. CASE backend = "qdrant"
  BY <1>1, SettledAt DEF Drop, SharedInv, TypeOK, Moves, Stores
<1>2. CASE backend # "qdrant"
  <2>1. /\ doomed' = doomed
        /\ \A k \in Keys : points'[k] = IF k \in K THEN None ELSE points[k]
    BY <1>2 DEF Drop, Without
  <2>2. points' \in [Keys -> Point \cup {None}] /\ doomed' \in SUBSET Keys
    BY <1>2 DEF Drop, Without, SharedInv, TypeOK
  <2>3. \A k \in Keys : Settled'[k] = IF k \in K THEN None ELSE Settled[k]
    BY <2>1, SettledAt
  <2>4. \A k \in Keys : Moves(s, k) /\ Stores(s, k)
    BY <2>1, <2>3 DEF Moves, Stores
  <2> QED
    BY <2>1, <2>2, <2>3, <2>4
<1> QED
  BY <1>1, <1>2

LEMMA SameMoves ==
  ASSUME SharedInv, NEW s \in Sources, UNCHANGED <<points, doomed>>
  PROVE  /\ points' \in [Keys -> Point \cup {None}] /\ doomed' \in SUBSET Keys
         /\ \A k \in Keys : Moves(s, k) /\ Stores(s, k)
         /\ Settled' = Settled
<1>1. Settled' = Settled
  BY SettledSame
<1> QED
  BY <1>1 DEF Moves, Stores, SharedInv, TypeOK

LEMMA SameMisreads ==
  ASSUME SharedInv, NEW s \in Sources, UNCHANGED misread PROVE Misreads(s)
BY DEF Misreads, SharedInv, TypeOK

\* Points of a document a source delivers are its own, where a search shows
\* them and where they are.
LEMMA OwnedIsOutdated ==
  ASSUME SharedInv, NEW s \in Sources, NEW p, p = points \/ p = view, NEW k \in Outdated(s, p)
  PROVE  /\ k \in Keys /\ Uri[k] \in Reach[s] /\ p[k] # None
         /\ p[k].hash # current[s][Uri[k]]
BY DEF SharedInv, Honest, HonestAt, Outdated, Owned

\* What is to stay is honest too.
LEMMA SettledHonest ==
  ASSUME SharedInv
  PROVE  /\ HonestAt(Settled)
         /\ \A k \in Keys : Settled[k] \in Point \cup {None}
BY SettledAt DEF SharedInv, TypeOK, Honest, HonestAt

\* A step of s leaves the points of t alone.
LEMMA OthersPoints ==
  ASSUME Separate, SharedInv, NEW s \in Sources, NEW t \in Sources, s # t,
         Acts(s) \/ Settled' = Settled
  PROVE  /\ \A k \in Keys : Uri[k] \in Reach[t] => Settled'[k] = Settled[k]
         /\ Owned(t, Settled)' = Owned(t, Settled)
         /\ PointsOf(t, Settled)' = PointsOf(t, Settled)
<1>1. \A k \in Keys : Uri[k] \in Reach[t] => Settled'[k] = Settled[k]
  <2>1. CASE Settled' = Settled
    BY <2>1
  <2>2. CASE Acts(s)
    <3> SUFFICES ASSUME NEW k \in Keys, Uri[k] \in Reach[t], Settled'[k] # Settled[k] PROVE FALSE
      OBVIOUS
    <3>1. Uri[k] \in Reach[s]
      BY <2>2, WantedKeys DEF Acts, Moves, Disposable, SharedInv, TypeOK
    <3> QED
      BY <3>1 DEF Separate
  <2> QED
    BY <2>1, <2>2
<1>2. \A k \in Keys : Uri[k] \notin Reach[t] =>
        /\ Settled[k] # None => Settled[k].source # t
        /\ Settled'[k] # None => Settled'[k].source # t
  <2> SUFFICES ASSUME NEW k \in Keys, Uri[k] \notin Reach[t]
               PROVE  /\ Settled[k] # None => Settled[k].source # t
                      /\ Settled'[k] # None => Settled'[k].source # t
    OBVIOUS
  <2>1. Settled[k] # None => Settled[k].source # t
    BY SettledHonest DEF HonestAt
  <2>2. CASE Settled'[k] = Settled[k]
    BY <2>1, <2>2
  <2>3. CASE Settled'[k] # Settled[k]
    <3>1. Settled'[k] = Current(s, k) \/ Settled'[k] = None
      BY <2>3 DEF Acts, Moves
    <3> QED
      BY <2>1, <3>1 DEF Current
  <2> QED
    BY <2>2, <2>3
<1>3. Owned(t, Settled)' = Owned(t, Settled)
  BY <1>1, <1>2 DEF Owned
<1>4. \A k \in Owned(t, Settled) : k \in Keys /\ Settled'[k] = Settled[k]
  BY <1>1, <1>2 DEF Owned
<1>5. PointsOf(t, Settled)' = PointsOf(t, Settled)
  BY <1>3, <1>4 DEF PointsOf
<1> QED
  BY <1>1, <1>3, <1>5

\* ... and with them what t knows.
LEMMA OthersKeep ==
  ASSUME Separate, SharedInv, NEW s \in Sources, NEW t \in Sources, s # t,
         Acts(s) \/ Settled' = Settled, backend' = backend,
         current'[t] = current[t], pending'[t] = pending[t], stale'[t] = stale[t],
         cursor'[t] = cursor[t], misread'[t] = misread[t], pc'[t] = pc[t]
  PROVE  Written(t)' /\ Noted(t)'
<1>1. /\ \A k \in Keys : Uri[k] \in Reach[t] => Settled'[k] = Settled[k]
      /\ Owned(t, Settled)' = Owned(t, Settled)
  BY OthersPoints
<1>2. \A k \in Owned(t, Settled) : k \in Keys /\ Settled'[k] = Settled[k]
  BY <1>1, SettledHonest DEF Owned, HonestAt
<1>3. Outdated(t, Settled)' = Outdated(t, Settled)
  BY <1>1, <1>2 DEF Outdated
<1>4. \A k \in Wanted(current[t]) : Settled'[k] = Settled[k]
  BY <1>1, WantedKeys DEF SharedInv, TypeOK
<1>5. Written(t)'
  BY <1>4 DEF Written, SharedInv, Current
<1>6. Noted(t)'
  BY <1>1, <1>3 DEF Noted, Disposable, SharedInv, TypeOK
<1> QED
  BY <1>5, <1>6

\* The rest of what such a step keeps.
Frame(s) ==
  /\ view' = view /\ exists' \in BOOLEAN
  /\ pending' \in [Sources -> SUBSET Keys]
  /\ stale' \in [Sources -> SUBSET Keys]
  /\ cursor' \in [Sources -> 0..Last]
  /\ \A t \in Sources : t # s =>
       pending'[t] = pending[t] /\ stale'[t] = stale[t] /\ cursor'[t] = cursor[t]

LEMMA HonestStep ==
  ASSUME SharedInv, NEW s \in Sources, Acts(s), view' = view
  PROVE  Honest'
<1>1. HonestAt(view)'
  BY DEF SharedInv, Honest, HonestAt
<1>2. ASSUME NEW k \in Keys, points'[k] # None
      PROVE  Uri[k] \in Reach[points'[k].source] /\ k \in Chunks[points'[k].hash]
  <2>1. CASE points'[k] = points[k]
    BY <1>2, <2>1 DEF SharedInv, Honest, HonestAt
  <2>2. CASE points'[k] # points[k]
    <3>1. k \in Wanted(current[s]) /\ points'[k] = Current(s, k)
      BY <1>2, <2>2 DEF Acts, Stores
    <3>2. current[s] \in Docs(s)
      BY DEF SharedInv, TypeOK
    <3>3. Uri[k] \in Reach[s] /\ k \in Chunks[current[s][Uri[k]]]
      BY <3>1, <3>2, WantedKeys
    <3>4. points'[k].source = s /\ points'[k].hash = current[s][Uri[k]]
      BY <3>1 DEF Current
    <3> QED
      BY <3>3, <3>4
  <2> QED
    BY <2>1, <2>2
<1> QED
  BY <1>1, <1>2 DEF Honest, HonestAt

LEMMA ActKeeps ==
  ASSUME Separate, SharedInv, NEW s \in Sources, Acts(s), Frame(s), Housed', Written(s)', Noted(s)'
  PROVE  SharedInv'
<1>1. TypeOK'
  BY DEF SharedInv, TypeOK, Acts, Frame, Misreads
<1>2. Honest'
  BY HonestStep DEF Frame
<1>3. ASSUME NEW t \in Sources, t # s PROVE Written(t)' /\ Noted(t)'
  <2>1. current'[t] = current[t] /\ pc'[t] = pc[t] /\ misread'[t] = misread[t] /\ backend' = backend
    BY <1>3 DEF Acts, Misreads, SharedInv, TypeOK
  <2> QED
    BY <1>3, <2>1, OthersKeep DEF Frame
<1> QED
  BY <1>1, <1>2, <1>3 DEF SharedInv

\* The state of the run, as the lemmas below use it.
LEMMA RunState ==
  ASSUME SharedInv, NEW s \in Sources
  PROVE  /\ backend \in {"qdrant", "elasticsearch", "pgvector"} /\ exists \in BOOLEAN
         /\ points \in [Keys -> Point \cup {None}] /\ doomed \in SUBSET Keys
         /\ pc \in [Sources -> Active \cup {"done", "failed"}]
         /\ current[s] \in Docs(s)
         /\ pending \in [Sources -> SUBSET Keys]
         /\ stale \in [Sources -> SUBSET Keys]
         /\ cursor \in [Sources -> 0..Last]
         /\ misread \in [Sources -> SUBSET Keys]
         /\ Honest /\ Housed /\ Written(s) /\ Noted(s)
BY SharedAssumption DEF SharedInv, TypeOK

LEMMA EnsureKeeps ==
  ASSUME Separate, SharedInv, NEW s \in Sources, Ensure(s) \/ Create(s)
  PROVE  Acts(s) /\ SharedInv'
<1> USE RunState DEF Active
<1>1. /\ pc[s] \in {"ensure", "create"} /\ pc'[s] \in {"create", "write"}
      /\ UNCHANGED <<backend, points, doomed, view, current, pending, stale, cursor, misread>>
  BY DEF Ensure, Create, Goto, runVars
<1>2. Acts(s) /\ Settled' = Settled
  BY <1>1, SameMoves, SameMisreads DEF Ensure, Create, Goto, Acts
<1>3. Frame(s)
  BY <1>1 DEF Ensure, Create, Frame
<1>4. Housed'
  BY DEF Ensure, Create, Goto, Housed
<1>5. Written(s)'
  BY <1>1, <1>2 DEF Written, Current
<1>6. Noted(s)'
  BY <1>1 DEF Noted
<1> QED
  BY <1>2, <1>3, <1>4, <1>5, <1>6, ActKeeps

LEMMA WriteKeeps ==
  ASSUME Separate, SharedInv, NEW s \in Sources, Write(s)
  PROVE  Acts(s) /\ SharedInv'
<1> USE RunState DEF Active
<1>1. PICK K \in SUBSET pending[s] :
        /\ Put(s, K)
        /\ pending' = [pending EXCEPT ![s] = @ \ K]
        /\ pc' = [pc EXCEPT ![s] = IF K = pending[s] THEN "prune" ELSE "write"]
  BY DEF Write, Goto
<1>2. pc[s] = "write" /\ UNCHANGED <<backend, exists, view, current, stale, cursor, misread>>
  BY DEF Write
<1>3. /\ points' \in [Keys -> Point \cup {None}] /\ doomed' \in SUBSET Keys
      /\ \A k \in Keys : Moves(s, k) /\ Stores(s, k)
      /\ \A k \in Keys : Settled'[k] = IF k \in K THEN Current(s, k) ELSE Settled[k]
  BY <1>1, <1>2, PutMoves
<1>4. Acts(s)
  BY <1>1, <1>2, <1>3, SameMisreads DEF Acts
<1>5. Frame(s)
  BY <1>1, <1>2 DEF Frame
<1>6. Housed'
  BY <1>1, <1>2 DEF Housed
<1>7. Written(s)'
  <2>1. \A k \in Keys : Current(s, k)' = Current(s, k)
    BY <1>2 DEF Current
  <2>2. Wanted(current[s])' = Wanted(current[s]) /\ Wanted(current[s]) \subseteq Keys
    BY <1>2 DEF Wanted
  <2>3. pending'[s] = pending[s] \ K
    BY <1>1
  <2> QED
    BY <1>1, <1>2, <1>3, <2>1, <2>2, <2>3 DEF Written
<1>8. Noted(s)'
  <2>1. stale'[s] = {} /\ cursor'[s] = 0 /\ misread'[s] = {}
    BY <1>2 DEF Noted
  <2>2. pc'[s] \in {"write", "prune"}
    BY <1>1
  <2>3. \A k \in Outdated(s, Settled)' : ~(k <= 0)
    BY SharedAssumption DEF Outdated, Owned, Keys
  <2> QED
    BY <2>1, <2>2, <2>3 DEF Noted
<1> QED
  BY <1>4, <1>5, <1>6, <1>7, <1>8, ActKeeps

\* What a page has shown, or else has misread.
LEMMA ScanSees ==
  ASSUME SharedInv, NEW s \in Sources, Scan(s)
  PROVE  /\ \A k \in PageOf(s, Sight) \cap Outdated(s, Sight) :
              /\ k \in Keys /\ Uri[k] \in Reach[s]
              /\ k \in Misread(s, Sight) \/ (Settled[k] # None => Settled[k].hash # current[s][Uri[k]])
         /\ \A k \in Outdated(s, Settled) :
              k > cursor[s] /\ (LastPage(s, Sight) \/ k <= Ahead(s, Sight)) =>
                k \in (PageOf(s, Sight) \cap Outdated(s, Sight)) \cup Misread(s, Sight)
<1> USE RunState
<1>1. Sight = points \/ Sight = view
  BY DEF Sight
<1>2. ASSUME NEW k \in PageOf(s, Sight), k \in Outdated(s, Sight)
      PROVE  /\ k \in Keys /\ Uri[k] \in Reach[s]
             /\ k \in Misread(s, Sight) \/ (Settled[k] # None => Settled[k].hash # current[s][Uri[k]])
  <2>1. k \in Keys /\ Uri[k] \in Reach[s] /\ Sight[k].hash # current[s][Uri[k]]
    BY <1>1, <1>2, OwnedIsOutdated
  <2>2. k \in Rest(s, Sight) /\ k \in Owned(s, Sight) /\ k > cursor[s]
    BY <1>2 DEF PageOf, Rest
  <2>3. LastPage(s, Sight) \/ k <= Ahead(s, Sight)
    BY <1>2, <2>2, NextPage
  <2>4. CASE Sight[k] = points[k]
    BY <2>1, <2>4, SettledAt
  <2>5. CASE Sight[k] # points[k]
    BY <2>1, <2>2, <2>3, <2>5 DEF Misread, Paged
  <2> QED
    BY <2>1, <2>4, <2>5
<1>3. ASSUME NEW k \in Outdated(s, Settled), k > cursor[s], LastPage(s, Sight) \/ k <= Ahead(s, Sight),
             k \notin Misread(s, Sight)
      PROVE  k \in PageOf(s, Sight) \cap Outdated(s, Sight)
  <2>1. /\ k \in Keys /\ Settled[k] # None /\ Settled[k].source = s
        /\ Settled[k].hash # current[s][Uri[k]]
    BY DEF Outdated, Owned
  <2>2. points[k] = Settled[k]
    BY <2>1, SettledAt
  <2>3. k \in Owned(s, points) /\ k \in Paged(s, Sight)
    BY <1>3, <2>1, <2>2 DEF Owned, Paged
  <2>4. Sight[k] = points[k]
    BY <1>3, <2>3 DEF Misread
  <2>5. k \in Owned(s, Sight) /\ k \in Outdated(s, Sight)
    BY <2>1, <2>2, <2>4 DEF Owned, Outdated
  <2>6. k \in Rest(s, Sight)
    BY <1>3, <2>5 DEF Rest
  <2>7. k \in PageOf(s, Sight)
    BY <1>3, <2>6, NextPage, LastPageIsRest
  <2> QED
    BY <2>5, <2>7
<1> QED
  BY <1>2, <1>3

LEMMA ScanKeeps ==
  ASSUME Separate, SharedInv, NEW s \in Sources, Scan(s)
  PROVE  Acts(s) /\ SharedInv'
<1> USE RunState DEF Active
<1> DEFINE now == PageOf(s, Sight) \cap Outdated(s, Sight)
           wrong == Misread(s, Sight)
<1>1. /\ pc[s] = "prune" /\ backend # "pgvector" /\ exists
      /\ UNCHANGED <<backend, exists, points, doomed, view, current, pending>>
      /\ stale' = [stale EXCEPT ![s] = @ \cup now]
      /\ misread' = [misread EXCEPT ![s] = @ \cup wrong]
      /\ IF LastPage(s, Sight)
           THEN /\ pc' = [pc EXCEPT ![s] = IF stale'[s] = {} THEN "done" ELSE "delete"]
                /\ cursor' = cursor
           ELSE cursor' = [cursor EXCEPT ![s] = Ahead(s, Sight)] /\ pc' = pc
  BY DEF Scan, Goto, server
<1>2. pc' = [pc EXCEPT ![s] = pc'[s]] /\ pc'[s] \in {"prune", "delete", "done"}
  BY <1>1
<1>3. now \subseteq Keys /\ wrong \subseteq Keys
  BY DEF Outdated, Owned, Misread, Paged
<1>4. Misreads(s)
  BY <1>1, <1>3 DEF Misreads
<1>5. Acts(s) /\ Settled' = Settled
  BY <1>1, <1>2, <1>4, SameMoves DEF Acts
<1>6. cursor' \in [Sources -> 0..Last]
  BY <1>1, NextPage
<1>7. Frame(s)
  BY <1>1, <1>3, <1>6 DEF Frame
<1>8. Housed'
  BY <1>1, <1>2 DEF Housed
<1>9. misread'[s] = misread[s] \cup wrong /\ stale'[s] = stale[s] \cup now
  BY <1>1
<1>10. Written(s)'
  BY <1>1, <1>2, <1>5, <1>9 DEF Written, Current
<1>11. Noted(s)'
  <2>1. Outdated(s, Settled)' = Outdated(s, Settled)
    BY <1>1, <1>5 DEF Outdated, Owned
  <2>2. \A k \in stale'[s] : Disposable(s, k)'
    <3>1. \A k \in now : Uri[k] \in Reach[s] /\ (k \in wrong \/ (Settled[k] # None => Settled[k].hash # current[s][Uri[k]]))
      BY ScanSees
    <3> HIDE DEF now, wrong
    <3>2. \A k \in stale[s] : Disposable(s, k)
      BY <1>1 DEF Noted
    <3> QED
      BY <1>1, <1>5, <1>9, <3>1, <3>2 DEF Disposable
  <2>3. \A k \in Outdated(s, Settled) : k > cursor[s] \/ k <= cursor[s]
    BY SharedAssumption DEF Outdated, Owned, Keys
  <2>4. \A k \in Outdated(s, Settled) : k <= cursor[s] => k \in stale'[s] \cup misread'[s]
    BY <1>1, <1>9 DEF Noted
  <2>5. \A k \in Outdated(s, Settled) :
          k > cursor[s] /\ (LastPage(s, Sight) \/ k <= Ahead(s, Sight)) => k \in stale'[s] \cup misread'[s]
    BY <1>9, ScanSees
  <2>6. backend' # "elasticsearch" => misread'[s] = {}
    <3>1. backend # "elasticsearch" => wrong = {}
      BY DEF Misread, Sight
    <3> HIDE DEF wrong
    <3> QED
      BY <1>1, <1>9, <3>1 DEF Noted
  <2> HIDE DEF now, wrong
  <2>7. CASE LastPage(s, Sight)
    <3>1. Outdated(s, Settled) \subseteq stale'[s] \cup misread'[s]
      BY <2>3, <2>4, <2>5, <2>7
    <3>2. pc'[s] = IF stale'[s] = {} THEN "done" ELSE "delete"
      BY <1>1, <2>7
    <3> QED
      BY <2>1, <2>2, <2>6, <3>1, <3>2 DEF Noted
  <2>8. CASE ~LastPage(s, Sight)
    <3>1. cursor'[s] = Ahead(s, Sight) /\ pc'[s] = "prune"
      BY <1>1, <2>8
    <3>2. \A k \in Outdated(s, Settled) : k <= cursor'[s] => k \in stale'[s] \cup misread'[s]
      BY <2>3, <2>4, <2>5, <3>1
    <3> QED
      BY <2>1, <2>2, <2>6, <3>1, <3>2 DEF Noted
  <2> QED
    BY <2>7, <2>8
<1> QED
  BY <1>5, <1>7, <1>8, <1>10, <1>11, ActKeeps

LEMMA ScanNothingKeeps ==
  ASSUME Separate, SharedInv, NEW s \in Sources, ScanNothing(s)
  PROVE  Acts(s) /\ SharedInv'
<1> USE RunState DEF Active
<1>1. /\ pc[s] = "prune" /\ ~exists /\ UNCHANGED <<backend, server, runVars>>
      /\ pc' = [pc EXCEPT ![s] = pc'[s]] /\ pc'[s] \in {"done", "failed"}
  BY DEF ScanNothing, Goto
<1>2. Acts(s) /\ Settled' = Settled
  BY <1>1, SameMoves, SameMisreads DEF Acts, server, runVars
<1>3. Frame(s)
  BY <1>1 DEF Frame, server, runVars
<1>4. Housed'
  BY <1>1 DEF Housed, server
<1>5. Outdated(s, Settled) = {}
  BY <1>1, SettledAt DEF Housed, Outdated, Owned
<1>6. Outdated(s, Settled)' = Outdated(s, Settled)
  BY <1>1, <1>2 DEF Outdated, Owned, runVars
<1>7. Written(s)'
  BY <1>1, <1>2 DEF Written, Current, runVars
<1>8. Noted(s)'
  BY <1>1, <1>5, <1>6 DEF Noted, runVars
<1> QED
  BY <1>2, <1>3, <1>4, <1>7, <1>8, ActKeeps

\* Deleting what is noted, or outdated, touches nothing the run wants.
LEMMA DropKeepsWritten ==
  ASSUME SharedInv, NEW s \in Sources, NEW K \in SUBSET Keys,
         \A k \in Keys : Settled'[k] = IF k \in K THEN None ELSE Settled[k],
         \A k \in K : Disposable(s, k),
         pc[s] \in {"prune", "delete"}, current' = current, pending' = pending, misread' = misread
  PROVE  Written(s)'
<1>1. /\ pending[s] = {}
      /\ \A k \in Wanted(current[s]) : Settled[k] = Current(s, k) \/ k \in misread[s]
  BY DEF SharedInv, Written
<1>2. \A k \in Wanted(current[s]) : k \in Keys /\ Current(s, k) # None /\ Current(s, k).hash = current[s][Uri[k]]
  <2> SUFFICES ASSUME NEW k \in Wanted(current[s])
               PROVE  k \in Keys /\ Current(s, k) # None /\ Current(s, k).hash = current[s][Uri[k]]
    OBVIOUS
  <2>1. current[s] \in Docs(s)
    BY DEF SharedInv, TypeOK
  <2>2. k \in Keys /\ Current(s, k) \in Point
    BY <2>1, WantedKeys DEF Current
  <2> QED
    BY <2>2, SharedAssumption DEF Current
<1>3. \A k \in Wanted(current[s]) : k \in K => k \in misread[s]
  <2> SUFFICES ASSUME NEW k \in Wanted(current[s]), k \in K, k \notin misread[s] PROVE FALSE
    OBVIOUS
  <2>1. Settled[k] # None /\ Settled[k].hash = current[s][Uri[k]]
    BY <1>1, <1>2
  <2> QED
    BY <2>1 DEF Disposable
<1>4. \A k \in Wanted(current[s]) : Settled'[k] = Current(s, k) \/ k \in misread[s]
  BY <1>1, <1>2, <1>3
<1>5. Wanted(current[s])' = Wanted(current[s]) /\ \A k \in Keys : Current(s, k)' = Current(s, k)
  BY DEF Wanted, Current
<1> QED
  BY <1>1, <1>2, <1>4, <1>5 DEF Written

\* ... and what is left outdated was so before.
LEMMA DropOutdated ==
  ASSUME SharedInv, NEW s \in Sources, NEW K \in SUBSET Keys, current' = current,
         \A k \in Keys : Settled'[k] = IF k \in K THEN None ELSE Settled[k]
  PROVE  Outdated(s, Settled)' = Outdated(s, Settled) \ K
BY DEF Outdated, Owned

\* A delete request, answered or not.
LEMMA DropActs ==
  ASSUME SharedInv, NEW s \in Sources, pc[s] \in {"prune", "delete"},
         NEW K \in SUBSET Keys, Drop(K), \A k \in K : Disposable(s, k),
         NEW x \in Active \cup {"done", "failed"}, x # "write", pc' = [pc EXCEPT ![s] = x],
         UNCHANGED <<backend, exists, current, pending, misread>>
  PROVE  Acts(s) /\ Housed' /\ Written(s)'
<1> USE RunState DEF Active
<1>1. /\ points' \in [Keys -> Point \cup {None}] /\ doomed' \in SUBSET Keys
      /\ \A k \in Keys : Moves(s, k) /\ Stores(s, k)
      /\ \A k \in Keys : points'[k] = points[k] \/ points'[k] = None
      /\ \A k \in Keys : Settled'[k] = IF k \in K THEN None ELSE Settled[k]
  BY DropMoves
<1>2. Acts(s)
  BY <1>1, SameMisreads DEF Acts
<1>3. Housed'
  BY <1>1 DEF Housed
<1>4. Written(s)'
  BY <1>1, DropKeepsWritten
<1> QED
  BY <1>2, <1>3, <1>4

LEMMA DeleteKeeps ==
  ASSUME Separate, SharedInv, NEW s \in Sources, Delete(s)
  PROVE  Acts(s) /\ SharedInv'
<1> USE RunState DEF Active
<1>1. PICK K \in SUBSET stale[s] :
        /\ Drop(K)
        /\ stale' = [stale EXCEPT ![s] = @ \ K]
        /\ pc' = [pc EXCEPT ![s] = IF K = stale[s] THEN "done" ELSE "delete"]
  BY DEF Delete, Goto
<1>2. pc[s] = "delete" /\ UNCHANGED <<backend, exists, view, current, pending, cursor, misread>>
  BY DEF Delete
<1>3. K \in SUBSET Keys
  BY <1>1
<1>4. \A k \in stale[s] : Disposable(s, k)
  BY <1>2 DEF Noted
<1>5. Acts(s) /\ Housed' /\ Written(s)'
  <2>1. (IF K = stale[s] THEN "done" ELSE "delete") \in (Active \cup {"done", "failed"}) \ {"write"}
    OBVIOUS
  <2> QED
    BY <1>1, <1>2, <1>3, <1>4, <2>1, DropActs
<1>6. \A k \in Keys : Settled'[k] = IF k \in K THEN None ELSE Settled[k]
  BY <1>1, <1>3, <1>4, DropMoves
<1>7. Frame(s)
  BY <1>1, <1>2 DEF Frame
<1>8. Noted(s)'
  <2>1. stale'[s] = stale[s] \ K /\ pc'[s] \in {"done", "delete"}
    BY <1>1
  <2>2. \A k \in stale'[s] : Disposable(s, k)'
    BY <1>2, <1>3, <1>4, <1>6, <2>1 DEF Disposable
  <2>3. Outdated(s, Settled)' = Outdated(s, Settled) \ K
    BY <1>2, <1>3, <1>6, DropOutdated
  <2>4. Outdated(s, Settled) \subseteq stale[s] \cup misread[s]
    BY <1>2 DEF Noted
  <2>5. pc'[s] = "done" => K = stale[s]
    BY <1>1
  <2> QED
    BY <1>2, <2>1, <2>2, <2>3, <2>4, <2>5 DEF Noted
<1> QED
  BY <1>5, <1>7, <1>8, ActKeeps

\* What one DELETE statement removes.
LEMMA DropWhere ==
  ASSUME SharedInv, NEW s \in Sources
  PROVE  /\ Outdated(s, points) \in SUBSET Keys
         /\ \A k \in Outdated(s, points) : Disposable(s, k)
         /\ Outdated(s, Settled) \subseteq Outdated(s, points)
<1>1. \A k \in Outdated(s, points) :
        k \in Keys /\ Uri[k] \in Reach[s] /\ points[k].hash # current[s][Uri[k]]
  BY OwnedIsOutdated
<1>2. \A k \in Outdated(s, points) : Disposable(s, k)
  BY <1>1, SettledAt DEF Disposable
<1>3. Outdated(s, Settled) \subseteq Outdated(s, points)
  BY SettledAt DEF Outdated, Owned
<1> QED
  BY <1>1, <1>2, <1>3

LEMMA DeleteWhereKeeps ==
  ASSUME Separate, SharedInv, NEW s \in Sources, DeleteWhere(s)
  PROVE  Acts(s) /\ SharedInv'
<1> USE RunState DEF Active
<1>1. /\ pc[s] = "prune" /\ Drop(Outdated(s, points)) /\ pc' = [pc EXCEPT ![s] = "done"]
      /\ UNCHANGED <<backend, exists, view, current, pending, stale, cursor, misread>>
  BY DEF DeleteWhere, Goto, runVars
<1>2. Acts(s) /\ Housed' /\ Written(s)'
  BY <1>1, DropWhere, DropActs
<1>3. Frame(s)
  BY <1>1 DEF Frame
<1>4. \A k \in Keys : Settled'[k] = IF k \in Outdated(s, points) THEN None ELSE Settled[k]
  BY <1>1, DropWhere, DropMoves
<1>5. Outdated(s, Settled)' = {}
  <2>1. Outdated(s, points) \in SUBSET Keys /\ Outdated(s, Settled) \subseteq Outdated(s, points)
    BY DropWhere
  <2>2. Outdated(s, Settled)' = Outdated(s, Settled) \ Outdated(s, points)
    BY <1>1, <1>4, <2>1, DropOutdated
  <2> QED
    BY <2>1, <2>2
<1>6. Noted(s)'
  BY <1>1, <1>5 DEF Noted
<1> QED
  BY <1>2, <1>3, <1>6, ActKeeps

LEMMA LostKeeps ==
  ASSUME Separate, SharedInv, NEW s \in Sources, Lost(s)
  PROVE  Acts(s) /\ SharedInv'
<1> USE RunState DEF Active
<1>1. /\ UNCHANGED <<backend, view, current, pending, stale, cursor, misread>>
      /\ pc' = [pc EXCEPT ![s] = pc'[s]]
      /\ pc'[s] = "failed" \/ (backend # "pgvector" /\ pc'[s] = pc[s])
  BY DEF Lost, Goto, runVars
<1>2. Frame(s)
  BY <1>1 DEF Lost, Effect, Frame
<1>3. CASE exists' /\ UNCHANGED <<points, doomed>> /\ pc[s] \in {"ensure", "create"}
  <2>1. Acts(s) /\ Settled' = Settled
    BY <1>1, <1>3, SameMoves, SameMisreads DEF Acts
  <2>2. Housed'
    BY <1>1, <1>3 DEF Housed
  <2>3. Written(s)'
    BY <1>1, <1>3, <2>1 DEF Written, Current
  <2>4. Noted(s)'
    BY <1>1, <1>3 DEF Noted
  <2> QED
    BY <1>2, <2>1, <2>2, <2>3, <2>4, ActKeeps
<1>4. ASSUME pc[s] = "write", UNCHANGED exists, NEW K \in SUBSET pending[s], Put(s, K)
      PROVE  Acts(s) /\ SharedInv'
  <2>1. /\ points' \in [Keys -> Point \cup {None}] /\ doomed' \in SUBSET Keys
        /\ \A k \in Keys : Moves(s, k) /\ Stores(s, k)
        /\ \A k \in Keys : Settled'[k] = IF k \in K THEN Current(s, k) ELSE Settled[k]
    BY <1>4, PutMoves
  <2>2. Acts(s)
    BY <1>1, <1>4, <2>1, SameMisreads DEF Acts
  <2>3. Housed'
    BY <1>1, <1>4 DEF Housed
  <2>4. Written(s)'
    <3>1. \A k \in Keys : Current(s, k)' = Current(s, k)
      BY <1>1 DEF Current
    <3>2. Wanted(current[s])' = Wanted(current[s]) /\ Wanted(current[s]) \subseteq Keys
      BY <1>1 DEF Wanted
    <3>3. \A k \in Wanted(current[s]) \ pending[s] :
            pc[s] # "failed" => Settled'[k] = Current(s, k) \/ k \in misread[s]
      BY <2>1, <3>2 DEF Written
    <3> QED
      BY <1>1, <1>4, <3>1, <3>2, <3>3 DEF Written
  <2>5. Noted(s)'
    BY <1>1, <1>4 DEF Noted
  <2> QED
    BY <1>2, <2>2, <2>3, <2>4, <2>5, ActKeeps
<1>5. ASSUME pc[s] = "delete", UNCHANGED exists, NEW K \in SUBSET stale[s], Drop(K)
      PROVE  Acts(s) /\ SharedInv'
  <2>1. K \in SUBSET Keys /\ pc'[s] \in {"delete", "failed"}
    BY <1>1, <1>5
  <2>2. \A k \in stale[s] : Disposable(s, k)
    BY <1>5 DEF Noted
  <2>3. \A k \in Keys : Settled'[k] = IF k \in K THEN None ELSE Settled[k]
    BY <1>5, <2>1, <2>2, DropMoves
  <2>4. Acts(s) /\ Housed' /\ Written(s)'
    BY <1>1, <1>5, <2>1, <2>2, DropActs
  <2>5. \A k \in stale'[s] : Disposable(s, k)'
    BY <1>1, <2>1, <2>2, <2>3 DEF Disposable
  <2>6. Outdated(s, Settled)' \subseteq stale'[s] \cup misread'[s]
    BY <1>1, <1>5, <2>1, <2>3, DropOutdated DEF Noted
  <2>7. Noted(s)'
    BY <1>1, <1>5, <2>5, <2>6 DEF Noted
  <2> QED
    BY <1>2, <2>4, <2>7, ActKeeps
<1>6. CASE /\ pc[s] = "prune" /\ backend = "pgvector" /\ UNCHANGED exists
           /\ Drop(Outdated(s, points))
  <2>1. pc'[s] = "failed"
    BY <1>1, <1>6
  <2>2. Acts(s) /\ Housed' /\ Written(s)'
    BY <1>1, <1>6, <2>1, DropWhere, DropActs
  <2>3. Noted(s)'
    BY <1>1, <1>6 DEF Noted
  <2> QED
    BY <1>2, <2>2, <2>3, ActKeeps
<1> QED
  BY <1>3, <1>4, <1>5, <1>6 DEF Lost, Effect

LEMMA FailKeeps ==
  ASSUME Separate, SharedInv, NEW s \in Sources, Fail(s)
  PROVE  Acts(s) /\ SharedInv'
<1> USE RunState DEF Active
<1>1. Acts(s) /\ Frame(s) /\ Settled' = Settled
  BY SameMoves, SameMisreads DEF Fail, Goto, Acts, Frame, server, runVars
<1>2. Housed' /\ Written(s)' /\ Noted(s)'
  BY DEF Fail, Goto, Housed, Written, Noted, server, runVars
<1> QED
  BY <1>1, <1>2, ActKeeps

LEMMA ActiveStep ==
  ASSUME Separate, SharedInv, NEW s \in Sources, Progress(s) \/ Lost(s) \/ Fail(s)
  PROVE  Acts(s) /\ SharedInv'
BY EnsureKeeps, WriteKeeps, ScanKeeps, ScanNothingKeeps, DeleteKeeps, DeleteWhereKeeps, LostKeeps, FailKeeps
   DEF Progress

LEMMA BeginKeeps ==
  ASSUME Separate, SharedInv, NEW s \in Sources, Begin(s)
  PROVE  SharedInv'
<1> USE RunState DEF Active
<1>1. PICK docs \in Docs(s) :
        /\ current' = [current EXCEPT ![s] = docs]
        /\ pending' = [pending EXCEPT ![s] = Wanted(docs)]
        /\ pc' = [pc EXCEPT ![s] = IF Wanted(docs) = {} THEN "prune" ELSE "ensure"]
  BY DEF Begin, Goto
<1>2. /\ stale' = [stale EXCEPT ![s] = {}] /\ cursor' = [cursor EXCEPT ![s] = 0]
      /\ misread' = [misread EXCEPT ![s] = {}]
      /\ UNCHANGED <<backend, exists, points, doomed, view>>
  BY DEF Begin, server
<1>3. Wanted(docs) \subseteq Keys
  BY DEF Wanted
<1>4. \A t \in Sources : current'[t] = IF t = s THEN docs ELSE current[t]
  BY <1>1 DEF SharedInv, TypeOK
<1>5. Settled' = Settled
  BY <1>2, SettledSame
<1>6. TypeOK'
  <2>1. docs \in [Uris -> Hashes \cup {None}]
    BY DEF Docs
  <2>2. /\ current' \in [Sources -> [Uris -> Hashes \cup {None}]]
        /\ \A t \in Sources : current'[t] \in Docs(t)
    BY <1>1, <1>4, <2>1 DEF TypeOK, SharedInv
  <2> QED
    BY <1>1, <1>2, <1>3, <2>2, SharedAssumption DEF TypeOK, SharedInv
<1>7. Honest' /\ Housed'
  BY <1>1, <1>2 DEF Honest, HonestAt, Housed
<1>8. Written(s)'
  BY <1>1, <1>3, <1>4 DEF Written
<1>9. Noted(s)'
  <2>1. \A k \in Outdated(s, Settled)' : ~(k <= 0)
    BY SharedAssumption DEF Outdated, Owned, Keys
  <2>2. stale'[s] = {} /\ cursor'[s] = 0 /\ misread'[s] = {} /\ pc'[s] \in {"prune", "ensure"}
    BY <1>1, <1>2
  <2> QED
    BY <2>1, <2>2 DEF Noted
<1>10. ASSUME NEW t \in Sources, t # s PROVE Written(t)' /\ Noted(t)'
  BY <1>1, <1>2, <1>4, <1>5, <1>10, OthersKeep
<1> QED
  BY <1>6, <1>7, <1>8, <1>9, <1>10 DEF SharedInv

\* The server does what it has accepted, and refreshes: nothing that is to stay changes.
LEMMA ServerKeeps ==
  ASSUME SharedInv, Apply \/ Refresh
  PROVE  SharedInv' /\ Settled' = Settled /\ UNCHANGED <<current, pc, misread>>
<1>1. /\ UNCHANGED <<backend, exists, pc, current, pending, stale, cursor, misread>>
      /\ points' \in [Keys -> Point \cup {None}] /\ doomed' \in SUBSET Keys
      /\ view' \in [Keys -> Point \cup {None}]
      /\ \A k \in Keys : points'[k] = points[k] \/ points'[k] = None
  BY DEF Apply, Refresh, Without, runVars, SharedInv, TypeOK
<1>2. Settled' = Settled
  <2>1. CASE Apply
    <3>1. PICK K \in SUBSET doomed : points' = Without(K) /\ doomed' = doomed \ K
      BY <2>1 DEF Apply
    <3>2. \A k \in Keys : points'[k] = IF k \in K THEN None ELSE points[k]
      BY <3>1 DEF Without
    <3>3. \A k \in Keys : (IF k \in doomed' THEN None ELSE points'[k]) = (IF k \in doomed THEN None ELSE points[k])
      BY <3>1, <3>2
    <3> QED
      BY <3>3 DEF Settled
  <2>2. CASE Refresh
    BY <2>2, SettledSame DEF Refresh
  <2> QED
    BY <2>1, <2>2
<1>3. Honest'
  <2>1. view' = view \/ view' = points
    BY DEF Apply, Refresh
  <2>2. HonestAt(points)' /\ HonestAt(view)'
    BY <1>1, <2>1 DEF SharedInv, Honest, HonestAt
  <2> QED
    BY <2>2 DEF Honest
<1>4. TypeOK' /\ Housed'
  BY <1>1 DEF SharedInv, TypeOK, Housed
<1>5. ASSUME NEW s \in Sources PROVE Written(s)' /\ Noted(s)'
  BY <1>1, <1>2 DEF SharedInv, Written, Noted, Disposable, Outdated, Owned, Current
<1> QED
  BY <1>1, <1>2, <1>3, <1>4, <1>5 DEF SharedInv

-----------------------------------------------------------------------------
(* Every step, and what it comes to.                                       *)

LEMMA InitShared ==
  ASSUME Init PROVE SharedInv
<1> USE SharedAssumption DEF Init
<1>1. \A s \in Sources : Wanted(current[s]) = {}
  BY DEF Wanted, NoDocs
<1>2. \A s \in Sources : Outdated(s, Settled) = {}
  BY DEF Outdated, Owned, Settled
<1>3. TypeOK
  <2>1. \A s \in Sources : NoDocs \in Docs(s) /\ NoDocs \in [Uris -> Hashes \cup {None}]
    BY DEF NoDocs, Docs
  <2>2. points \in [Keys -> Point \cup {None}] /\ view \in [Keys -> Point \cup {None}]
    OBVIOUS
  <2>3. current \in [Sources -> [Uris -> Hashes \cup {None}]] /\ \A s \in Sources : current[s] \in Docs(s)
    BY <2>1
  <2>4. pc \in [Sources -> Active \cup {"done", "failed"}] /\ cursor \in [Sources -> 0..Last]
    OBVIOUS
  <2>5. /\ pending \in [Sources -> SUBSET Keys] /\ stale \in [Sources -> SUBSET Keys]
        /\ misread \in [Sources -> SUBSET Keys] /\ doomed \in SUBSET Keys
    OBVIOUS
  <2> HIDE DEF Init
  <2>6. backend \in Backends /\ exists \in BOOLEAN
    BY DEF Init
  <2> QED
    BY <2>2, <2>3, <2>4, <2>5, <2>6 DEF TypeOK
<1>4. Honest /\ Housed
  BY DEF Honest, HonestAt, Housed
<1>5. \A s \in Sources : Written(s) /\ Noted(s)
  BY <1>1, <1>2 DEF Written, Noted, Active
<1> QED
  BY <1>3, <1>4, <1>5 DEF SharedInv

LEMMA NextShared ==
  ASSUME Separate, SharedInv, [Next]_vars PROVE SharedInv'
<1>1. ASSUME NEW s \in Sources, Begin(s) PROVE SharedInv'
  BY <1>1, BeginKeeps
<1>2. ASSUME NEW s \in Sources, Progress(s) \/ Lost(s) \/ Fail(s) PROVE SharedInv'
  BY <1>2, ActiveStep
<1>3. CASE UNCHANGED vars
  <2> USE <1>3 DEF vars, server, runVars
  <2>1. TypeOK' /\ Honest' /\ Housed' /\ Settled' = Settled
    BY SettledSame DEF SharedInv, TypeOK, Honest, HonestAt, Housed
  <2>2. ASSUME NEW s \in Sources PROVE Written(s)' /\ Noted(s)'
    BY <2>1 DEF SharedInv, Written, Noted, Disposable, Outdated, Owned, Current
  <2> QED
    BY <2>1, <2>2 DEF SharedInv
<1> QED
  BY <1>1, <1>2, <1>3, ServerKeeps DEF Next

\* SharedInv is an invariant of separate sources.
LEMMA SharedInductive == ASSUME Separate PROVE Spec => []SharedInv
<1>1. Init => SharedInv
  BY InitShared
<1>2. SharedInv /\ [Next]_vars => SharedInv'
  BY NextShared
<1> QED
  BY <1>1, <1>2, PTL DEF Spec

\* Where a key was not misread, a run that ended well has what it wants, and
\* nothing else.
LEMMA DoneAt ==
  ASSUME SharedInv, NEW s \in Sources, pc[s] = "done"
  PROVE  /\ \A k \in Wanted(current[s]) \ misread[s] :
              k \in Owned(s, Settled) /\ Settled[k].hash = current[s][Uri[k]]
         /\ \A k \in Owned(s, Settled) \ misread[s] :
              k \in Wanted(current[s]) /\ Settled[k].hash = current[s][Uri[k]]
<1> USE RunState
<1>1. /\ \A k \in Wanted(current[s]) \ misread[s] : Settled[k] = Current(s, k)
      /\ Outdated(s, Settled) \subseteq misread[s]
  BY DEF Written, Noted
<1>2. ASSUME NEW k \in Wanted(current[s]), k \notin misread[s]
      PROVE  k \in Owned(s, Settled) /\ Settled[k].hash = current[s][Uri[k]]
  <2>1. k \in Keys /\ Current(s, k) \in Point
    BY WantedKeys DEF Current
  <2>2. Settled[k] = Current(s, k)
    BY <1>1, <1>2
  <2>3. Settled[k] # None /\ Settled[k].source = s /\ Settled[k].hash = current[s][Uri[k]]
    BY <2>1, <2>2, SharedAssumption DEF Current
  <2> QED
    BY <2>1, <2>3 DEF Owned
<1>3. ASSUME NEW k \in Owned(s, Settled), k \notin misread[s]
      PROVE  k \in Wanted(current[s]) /\ Settled[k].hash = current[s][Uri[k]]
  <2>1. k \in Keys /\ Settled[k] \in Point /\ Settled[k] # None
    BY SettledHonest DEF Owned
  <2>2. Settled[k].hash \in Hashes /\ Settled[k].hash = current[s][Uri[k]]
    BY <1>1, <1>3, <2>1 DEF Outdated, Point
  <2>3. Uri[k] \in Uris /\ k \in Chunks[Settled[k].hash]
    BY <2>1, SettledHonest, SharedAssumption DEF HonestAt
  <2> QED
    BY <2>1, <2>2, <2>3, SharedAssumption DEF Wanted
<1> QED
  BY <1>2, <1>3

\* Points of the index and points that are wanted are those of bodies.
LEMMA EntriesAt ==
  ASSUME SharedInv, NEW s \in Sources
  PROVE  /\ PointsOf(s, Settled) \subseteq Keys \X Hashes
         /\ GoalOf(current[s]) \subseteq Keys \X Hashes
<1>1. \A k \in Owned(s, Settled) : k \in Keys /\ Settled[k].hash \in Hashes
  BY SettledHonest DEF Owned, Point
<1>2. \A k \in Wanted(current[s]) : k \in Keys /\ current[s][Uri[k]] \in Hashes
  BY WantedKeys DEF SharedInv, TypeOK
<1> QED
  BY <1>1, <1>2 DEF PointsOf, GoalOf

LEMMA InvExact ==
  ASSUME SharedInv PROVE Exact
<1> SUFFICES ASSUME NEW s \in Sources, pc[s] = "done"
             PROVE  PointsOf(s, Settled) \ Blurred(s) = GoalOf(current[s]) \ Blurred(s)
  BY DEF Exact
<1>1. ASSUME NEW e \in PointsOf(s, Settled), e \notin Blurred(s) PROVE e \in GoalOf(current[s])
  <2>1. PICK k \in Owned(s, Settled) : e = <<k, Settled[k].hash>>
    BY DEF PointsOf
  <2>2. k \notin misread[s]
    BY <1>1, <2>1, EntriesAt DEF Blurred
  <2> QED
    BY <2>1, <2>2, DoneAt DEF GoalOf
<1>2. ASSUME NEW e \in GoalOf(current[s]), e \notin Blurred(s) PROVE e \in PointsOf(s, Settled)
  <2>1. PICK k \in Wanted(current[s]) : e = <<k, current[s][Uri[k]]>>
    BY DEF GoalOf
  <2>2. k \notin misread[s]
    BY <1>2, <2>1, EntriesAt DEF Blurred
  <2> QED
    BY <2>1, <2>2, DoneAt DEF PointsOf
<1> QED
  BY <1>1, <1>2

(* A run that ended well leaves its source with exactly the points of the  *)
(* documents it read, once the deletions that Qdrant has accepted are      *)
(* carried out and but for keys of which Elasticsearch showed it an older  *)
(* state, and other runs leave them so: for any sizes of pages and         *)
(* batches, with requests lost, repeated and refused, as long as the       *)
(* sources deliver no document twice.                                      *)
THEOREM SharedExact == ASSUME Separate PROVE Spec => []Exact
<1>1. SharedInv => Exact
  BY InvExact
<1> QED
  BY SharedInductive, <1>1, PTL

(* With Qdrant and pgvector there are no such keys: what a run that ended  *)
(* well leaves is exactly what it wanted.                                  *)
THEOREM SharedExactEverywhere ==
  ASSUME Separate
  PROVE  Spec => [](backend # "elasticsearch" =>
           \A s \in Sources : pc[s] = "done" => PointsOf(s, Settled) = GoalOf(current[s]))
<1>1. SharedInv /\ Exact => (backend # "elasticsearch" =>
        \A s \in Sources : pc[s] = "done" => PointsOf(s, Settled) = GoalOf(current[s]))
  <2> SUFFICES ASSUME SharedInv, Exact, backend # "elasticsearch", NEW s \in Sources, pc[s] = "done"
               PROVE  PointsOf(s, Settled) = GoalOf(current[s])
    OBVIOUS
  <2>1. Blurred(s) = {}
    BY DEF SharedInv, Noted, Blurred
  <2> QED
    BY <2>1 DEF Exact
<1> QED
  BY SharedInductive, SharedExact, <1>1, PTL

-----------------------------------------------------------------------------
(* The collection is to every source as an index of its own.               *)

own == [s \in Sources |-> PointsOf(s, Settled)]
wanted == [s \in Sources |-> GoalOf(current[s])]
blurred == [s \in Sources |-> Blurred(s)]
phase == [s \in Sources |-> IF pc[s] \in Active THEN "running" ELSE pc[s]]

\* A run adds points it wants.
LEMMA AddsWanted ==
  ASSUME SharedInv, NEW s \in Sources, Acts(s), NEW e \in own'[s], e \notin own[s]
  PROVE  e \in wanted[s]
<1>1. PICK k \in Owned(s, Settled)' : e = <<k, Settled'[k].hash>>
  BY DEF own, PointsOf
<1>2. k \in Keys /\ Settled'[k] # None /\ Settled'[k].source = s
  BY DEF Owned
<1>3. Settled'[k] # Settled[k]
  BY <1>1, <1>2 DEF own, PointsOf, Owned
<1>4. k \in Wanted(current[s]) /\ Settled'[k] = Current(s, k)
  BY <1>2, <1>3 DEF Acts, Moves
<1> QED
  BY <1>1, <1>4 DEF wanted, GoalOf, Current

\* It removes none of them that it was not shown otherwise.
LEMMA KeepsWanted ==
  ASSUME SharedInv, NEW s \in Sources, Acts(s), NEW e \in own[s], e \in wanted[s], e \notin blurred[s]
  PROVE  e \in own'[s]
<1> USE RunState
<1>1. PICK k \in Owned(s, Settled) : e = <<k, Settled[k].hash>>
  BY DEF own, PointsOf
<1>2. k \in Keys /\ Settled[k] # None /\ Settled[k].source = s
  BY DEF Owned
<1>3. k \in Wanted(current[s]) /\ Settled[k].hash = current[s][Uri[k]]
  BY <1>1 DEF wanted, GoalOf
<1>4. k \notin misread[s]
  <2>1. e \in Keys \X Hashes
    BY EntriesAt DEF own
  <2> QED
    BY <1>1, <2>1 DEF blurred, Blurred
<1>5. Settled'[k] # None /\ Settled'[k].source = s /\ Settled'[k].hash = Settled[k].hash
  <2>1. CASE Settled'[k] = Settled[k]
    BY <1>2, <2>1
  <2>2. CASE Settled'[k] = Current(s, k)
    <3>1. Current(s, k) \in Point
      BY <1>3, WantedKeys DEF Current
    <3> QED
      BY <1>3, <2>2, <3>1, SharedAssumption DEF Current
  <2>3. ~Disposable(s, k)
    BY <1>2, <1>3, <1>4 DEF Disposable
  <2> QED
    BY <1>2, <2>1, <2>2, <2>3 DEF Acts, Moves
<1>6. k \in Owned(s, Settled)'
  BY <1>2, <1>5 DEF Owned
<1> QED
  BY <1>1, <1>5, <1>6 DEF own, PointsOf

LEMMA WorkStep ==
  ASSUME Separate, SharedInv, Exact', NEW s \in Sources, Acts(s)
  PROVE  Private!Next
<1> DEFINE add == own'[s] \ own[s]
           drop == own[s] \ own'[s]
<1>1. /\ add \in SUBSET (wanted[s] \ own[s])
      /\ drop \in SUBSET (own[s] \ (wanted[s] \ blurred[s]))
  BY AddsWanted, KeepsWanted
<1>2. own' = [own EXCEPT ![s] = (@ \cup add) \ drop]
  <2>1. \A t \in Sources : t # s => own'[t] = own[t]
    BY OthersPoints DEF own
  <2>2. own'[s] = (own[s] \cup add) \ drop
    OBVIOUS
  <2> QED
    BY <2>1, <2>2 DEF own
<1>3. wanted' = wanted
  BY DEF Acts, wanted, GoalOf, Wanted
<1>4. blurred' = [blurred EXCEPT ![s] = @ \cup blurred'[s]]
  <2>1. blurred[s] \subseteq blurred'[s]
    BY DEF Acts, Misreads, blurred, Blurred
  <2>2. \A t \in Sources : t # s => blurred'[t] = blurred[t]
    BY DEF Acts, Misreads, blurred, Blurred
  <2> QED
    BY <2>1, <2>2 DEF blurred
<1>5. Private!Work(s)
  <2> HIDE DEF add, drop
  <2> QED
    BY <1>1, <1>2, <1>3, <1>4 DEF Private!Work, own, wanted, blurred
<1>6. phase[s] = "running"
  BY DEF Acts, phase
<1>7. PICK x \in Active \cup {"done", "failed"} : pc' = [pc EXCEPT ![s] = x]
  BY DEF Acts
<1>8. phase' = [phase EXCEPT ![s] = IF x \in Active THEN "running" ELSE x]
  BY <1>7, RunState DEF phase
<1>9. CASE x \in Active
  <2>1. phase' = phase
    BY <1>6, <1>8, <1>9 DEF phase
  <2> QED
    BY <1>5, <1>6, <2>1 DEF Private!Next, phase
<1>10. CASE x = "failed"
  <2>1. phase' = [phase EXCEPT ![s] = "failed"]
    BY <1>8, <1>10 DEF Active
  <2> QED
    BY <1>5, <1>6, <2>1 DEF Private!Next, Private!End, phase
<1>11. CASE x = "done"
  <2>1. phase' = [phase EXCEPT ![s] = "done"]
    BY <1>8, <1>11 DEF Active
  <2>2. pc'[s] = "done"
    BY <1>7, <1>11, RunState
  <2>3. own'[s] \ blurred'[s] = wanted[s] \ blurred'[s]
    BY <1>3, <2>2 DEF Exact, own, wanted, blurred
  <2> QED
    BY <1>5, <1>6, <2>1, <2>3 DEF Private!Next, Private!End, own, wanted, blurred, phase
<1> QED
  BY <1>7, <1>9, <1>10, <1>11

LEMMA BeginStep ==
  ASSUME SharedInv, NEW s \in Sources, Begin(s)
  PROVE  Private!Next
<1> USE RunState
<1>1. PICK docs \in Docs(s) :
        /\ current' = [current EXCEPT ![s] = docs]
        /\ pc' = [pc EXCEPT ![s] = IF Wanted(docs) = {} THEN "prune" ELSE "ensure"]
  BY DEF Begin, Goto
<1>2. own' = own
  BY SettledSame DEF Begin, server, own, PointsOf, Owned
<1>3. wanted' = [wanted EXCEPT ![s] = GoalOf(docs)]
  BY <1>1 DEF wanted, GoalOf, Wanted, SharedInv, TypeOK
<1>4. blurred' = [blurred EXCEPT ![s] = {}]
  BY DEF Begin, blurred, Blurred
<1>5. phase' = [phase EXCEPT ![s] = "running"]
  BY <1>1 DEF phase, Active
<1>6. phase[s] # "running"
  BY DEF Begin, phase, Active
<1>7. GoalOf(docs) \in UNION {{GoalOf(d) : d \in Docs(t)} : t \in Sources}
  OBVIOUS
<1>8. Private!Begin(s)
  BY <1>2, <1>3, <1>4, <1>5, <1>6, <1>7 DEF Private!Begin, own, wanted, blurred, phase
<1> QED
  BY <1>8 DEF Private!Next

LEMMA PrivateStep ==
  ASSUME Separate, SharedInv, Exact', [Next]_vars
  PROVE  [Private!Next]_<<own, wanted, blurred, phase>>
<1>1. ASSUME NEW s \in Sources, Begin(s) PROVE Private!Next
  BY <1>1, BeginStep
<1>2. ASSUME NEW s \in Sources, Progress(s) \/ Lost(s) \/ Fail(s) PROVE Private!Next
  BY <1>2, ActiveStep, WorkStep
<1>3. ASSUME Settled' = Settled, UNCHANGED <<current, pc, misread>>
      PROVE  UNCHANGED <<own, wanted, blurred, phase>>
  BY <1>3 DEF own, wanted, blurred, Blurred, phase, PointsOf, Owned, GoalOf, Wanted
<1>4. CASE Apply \/ Refresh
  BY <1>3, <1>4, ServerKeeps
<1>5. CASE UNCHANGED vars
  BY <1>3, <1>5, SettledSame DEF vars, server, runVars
<1> QED
  BY <1>1, <1>2, <1>4, <1>5 DEF Next

LEMMA PrivateInit ==
  ASSUME Init PROVE Private!Init
<1>1. \A s \in Sources : PointsOf(s, Settled) = {}
  BY DEF Init, PointsOf, Owned, Settled
<1>2. \A s \in Sources : GoalOf(current[s]) = {}
  BY SharedAssumption DEF Init, GoalOf, Wanted, NoDocs
<1>3. \A s \in Sources : Blurred(s) = {}
  BY DEF Init, Blurred
<1> QED
  BY <1>1, <1>2, <1>3 DEF Init, Private!Init, Active

(* The collection is to every source as an index of its own: its runs add  *)
(* what they want, remove what they do not or were shown otherwise, touch  *)
(* nothing of the others, and when they end well all is as they wanted but *)
(* for what they were shown otherwise.                                     *)
THEOREM SharedIsolated == ASSUME Separate PROVE Spec => Isolated
<1>1. Init => Private!Init
  BY PrivateInit
<1>2. SharedInv /\ Exact' /\ [Next]_vars => [Private!Next]_<<own, wanted, blurred, phase>>
  BY PrivateStep
<1> QED
  BY SharedInductive, SharedExact, <1>1, <1>2, PTL
     DEF Spec, Isolated, Private!Spec, own, wanted, blurred, phase
=============================================================================
