---------------------------- MODULE SessionProofs ----------------------------
(* Theorems about Session and the retrieval it composes, for every set of    *)
(* points, every acl and every invocation.                                   *)
EXTENDS Session, FiniteSetTheorems, WellFoundedInduction, TLAPS

-----------------------------------------------------------------------------
(***************************************************************************)
(* Sorting.  What has to be shown is that the order a search asks for      *)
(* exists: a finite set with a total and transitive order has a last       *)
(* member, and so, taking it away, a sequence in that order.  Both are     *)
(* shown on a least subset that would be an exception.                     *)
(***************************************************************************)
Total(S, order) == \A p, q \in S : p # q => <<p, q>> \in order \/ <<q, p>> \in order

Transitive(S, order) ==
  \A p, q, r \in S : <<p, q>> \in order /\ <<q, r>> \in order => <<p, r>> \in order

\* A family of subsets of a finite set has a least member.
LEMMA LeastSubset ==
  ASSUME NEW S, IsFiniteSet(S), NEW F, F \subseteq SUBSET S, F # {}
  PROVE  \E T \in F : \A U \in F : U \subseteq T => U = T
<1>1. IsWellFoundedOn(StrictSubsetOrdering(S), SUBSET S)
  BY FS_StrictSubsetOrderingWellFounded, FS_FiniteSubsetsOfFinite
<1>2. PICK T \in F : \A U \in F : <<U, T>> \notin StrictSubsetOrdering(S)
  BY <1>1, WFMin
<1>3. ASSUME NEW U \in F, U \subseteq T, U # T PROVE FALSE
  <2>1. <<U, T>> \in (SUBSET S) \X (SUBSET S)
    OBVIOUS
  <2> QED
    BY <1>2, <1>3, <2>1 DEF StrictSubsetOrdering
<1> QED
  BY <1>3

LastIn(T, order) == {m \in T : \A q \in T \ {m} : <<q, m>> \in order}

LEMMA LastExists ==
  ASSUME NEW S, IsFiniteSet(S), NEW order, Total(S, order), Transitive(S, order), S # {}
  PROVE  LastIn(S, order) # {}
<1> DEFINE F == {T \in SUBSET S : T # {} /\ LastIn(T, order) = {}}
<1> SUFFICES ASSUME LastIn(S, order) = {} PROVE FALSE
  OBVIOUS
<1>1. S \in F
  OBVIOUS
<1>2. PICK T \in F : \A U \in F : U \subseteq T => U = T
  <2>1. F \subseteq SUBSET S /\ F # {}
    BY <1>1
  <2> HIDE DEF F
  <2> QED
    BY <2>1, LeastSubset
<1>3. PICK x \in T : TRUE
  OBVIOUS
<1>4. T \ {x} \notin F /\ T \ {x} \in SUBSET S
  BY <1>2, <1>3
<1>5. CASE T \ {x} = {}
  <2>1. x \in LastIn(T, order)
    BY <1>5 DEF LastIn
  <2> QED
    BY <2>1
<1>6. CASE T \ {x} # {}
  <2>1. PICK m \in LastIn(T \ {x}, order) : TRUE
    BY <1>4, <1>6
  <2>2. m \in T /\ m # x /\ m \in S /\ x \in S
    BY <2>1 DEF LastIn
  <2>3. \A q \in T \ {x, m} : <<q, m>> \in order
    BY <2>1 DEF LastIn
  <2>4. CASE <<x, m>> \in order
    <3>1. m \in LastIn(T, order)
      BY <2>2, <2>3, <2>4 DEF LastIn
    <3> QED
      BY <3>1
  <2>5. CASE <<m, x>> \in order
    <3>1. \A q \in T \ {x} : <<q, x>> \in order
      BY <2>2, <2>3, <2>5 DEF Transitive
    <3>2. x \in LastIn(T, order)
      BY <3>1 DEF LastIn
    <3> QED
      BY <3>2
  <2> QED
    BY <2>2, <2>4, <2>5 DEF Total
<1> QED
  BY <1>5, <1>6

InOrder(s, order) == \A i, j \in DOMAIN s : i < j => <<s[i], s[j]>> \in order

\* A member that is last and the others in order.
LEMMA SortGrows ==
  ASSUME NEW T, IsFiniteSet(T), NEW order, NEW m \in LastIn(T, order),
         NEW s \in SetToSeqs(T \ {m}), InOrder(s, order)
  PROVE  \E t \in SetToSeqs(T) : InOrder(t, order)
<1> DEFINE n == Cardinality(T \ {m})
           t == [i \in 1..(n + 1) |-> IF i = n + 1 THEN m ELSE s[i]]
<1>1. m \in T /\ n \in Nat /\ Cardinality(T) = n + 1
  <2>1. m \in T /\ IsFiniteSet(T \ {m}) /\ Cardinality(T \ {m}) = Cardinality(T) - 1
    BY FS_RemoveElement DEF LastIn
  <2> QED
    BY <2>1, FS_CardinalityType
<1>2. s \in [1..n -> T \ {m}] /\ \A i, j \in 1..n : i # j => s[i] # s[j]
  BY DEF SetToSeqs
<1> HIDE DEF n
<1>3. \A i \in 1..(n + 1) : i # n + 1 => i \in 1..n
  BY <1>1
<1>4. t \in [1..(n + 1) -> T]
  BY <1>1, <1>2, <1>3
<1>5. \A i, j \in 1..(n + 1) : i # j => t[i] # t[j]
  BY <1>1, <1>2, <1>3
<1>6. t \in SetToSeqs(T)
  BY <1>1, <1>4, <1>5 DEF SetToSeqs
<1>7. ASSUME NEW i \in 1..(n + 1), NEW j \in 1..(n + 1), i < j PROVE <<t[i], t[j]>> \in order
  <2>1. i \in 1..n
    BY <1>1, <1>7
  <2>2. t[i] = s[i] /\ s[i] \in T \ {m}
    BY <1>1, <1>2, <2>1
  <2>3. CASE j = n + 1
    BY <2>2, <2>3 DEF LastIn
  <2>4. CASE j # n + 1
    <3>1. j \in 1..n /\ t[j] = s[j]
      BY <1>1, <2>4
    <3> QED
      BY <1>2, <1>7, <2>1, <2>2, <3>1 DEF InOrder
  <2> QED
    BY <2>3, <2>4
<1>8. InOrder(t, order)
  BY <1>7 DEF InOrder
<1> QED
  BY <1>6, <1>8

LEMMA SortExists ==
  ASSUME NEW S, IsFiniteSet(S), NEW order, Total(S, order), Transitive(S, order)
  PROVE  \E s \in SetToSeqs(S) : InOrder(s, order)
<1> DEFINE F == {T \in SUBSET S : \A s \in SetToSeqs(T) : ~InOrder(s, order)}
<1> SUFFICES ASSUME S \in F PROVE FALSE
  OBVIOUS
<1>1. PICK T \in F : \A U \in F : U \subseteq T => U = T
  <2>1. F \subseteq SUBSET S /\ F # {}
    OBVIOUS
  <2> HIDE DEF F
  <2> QED
    BY <2>1, LeastSubset
<1>2. T # {}
  <2> SUFFICES ASSUME T = {} PROVE FALSE
    OBVIOUS
  <2>1. << >> \in SetToSeqs(T)
    BY FS_EmptySet DEF SetToSeqs
  <2>2. InOrder(<< >>, order)
    BY DEF InOrder
  <2> QED
    BY <2>1, <2>2
<1>3. IsFiniteSet(T) /\ Total(T, order) /\ Transitive(T, order)
  <2>1. T \in SUBSET S
    OBVIOUS
  <2>2. IsFiniteSet(T)
    BY <2>1, FS_Subset
  <2> QED
    BY <2>1, <2>2 DEF Total, Transitive
<1>4. PICK m \in LastIn(T, order) : TRUE
  BY <1>2, <1>3, LastExists
<1>5. m \in T /\ T \ {m} \notin F /\ T \ {m} \in SUBSET S
  <2>1. m \in T
    BY DEF LastIn
  <2> QED
    BY <1>1, <2>1
<1>6. PICK s \in SetToSeqs(T \ {m}) : InOrder(s, order)
  BY <1>5
<1> QED
  BY <1>3, <1>6, SortGrows

\* Sorted is a sequence of every member of S, in the order.
LEMMA SortedInOrder ==
  ASSUME NEW S, IsFiniteSet(S), NEW order, Total(S, order), Transitive(S, order)
  PROVE  Sorted(S, order) \in SetToSeqs(S) /\ InOrder(Sorted(S, order), order)
BY SortExists DEF Sorted, InOrder

-----------------------------------------------------------------------------
(***************************************************************************)
(* Lists of hits: sequences of points in which none comes twice.           *)
(***************************************************************************)
Listing(s, S) == s \in Seq(S) /\ \A i, j \in DOMAIN s : s[i] = s[j] => i = j

Least(m, n) == IF m < n THEN m ELSE n

LEMMA ListingLen ==
  ASSUME NEW S, NEW s, Listing(s, S)
  PROVE  Len(s) \in Nat /\ DOMAIN s = 1..Len(s) /\ ToSet(s) \subseteq S
BY DEF Listing, ToSet

\* The number of points in a list is its length.
LEMMA ListingCardinality ==
  ASSUME NEW S, NEW s, Listing(s, S)
  PROVE  IsFiniteSet(ToSet(s)) /\ Cardinality(ToSet(s)) = Len(s)
<1>1. Len(s) \in Nat /\ DOMAIN s = 1..Len(s)
  BY ListingLen
<1>2. s \in Bijection(1..Len(s), ToSet(s))
  <2>1. s \in [1..Len(s) -> ToSet(s)]
    BY <1>1 DEF Listing, ToSet
  <2>2. \A t \in ToSet(s) : \E i \in 1..Len(s) : s[i] = t
    BY <1>1 DEF ToSet
  <2>3. \A i, j \in 1..Len(s) : s[i] = s[j] => i = j
    BY <1>1 DEF Listing
  <2> QED
    BY <2>1, <2>2, <2>3 DEF Bijection, Injection, Surjection, IsInjective
<1>3. ExistsBijection(1..Len(s), ToSet(s))
  BY <1>2 DEF ExistsBijection
<1>4. IsFiniteSet(1..Len(s)) /\ Cardinality(1..Len(s)) = Len(s)
  <2>1. 1 \in Int /\ Len(s) \in Int
    BY <1>1
  <2>2. IsFiniteSet(1..Len(s)) /\ Cardinality(1..Len(s)) = IF 1 > Len(s) THEN 0 ELSE Len(s) - 1 + 1
    BY <2>1, FS_Interval, Zenon
  <2> QED
    BY <1>1, <2>2
<1> QED
  BY <1>3, <1>4, FS_Bijection

\* A list of points of S is no longer than S.
LEMMA ListingBound ==
  ASSUME NEW S, IsFiniteSet(S), NEW s, Listing(s, S)
  PROVE  Len(s) \in Nat /\ Len(s) <= Cardinality(S)
<1>1. ToSet(s) \in SUBSET S
  BY ListingLen
<1> QED
  BY <1>1, ListingLen, ListingCardinality, FS_Subset

LEMMA OrdersAreListings ==
  ASSUME NEW S, IsFiniteSet(S), NEW s \in SetToSeqs(S)
  PROVE  Listing(s, S) /\ Len(s) = Cardinality(S) /\ ToSet(s) = S
<1>1. Cardinality(S) \in Nat
  BY FS_CardinalityType
<1>2. s \in [1..Cardinality(S) -> S] /\ \A i, j \in 1..Cardinality(S) : i # j => s[i] # s[j]
  BY DEF SetToSeqs
<1>3. Listing(s, S) /\ Len(s) = Cardinality(S)
  BY <1>1, <1>2 DEF Listing
<1>4. ToSet(s) \in SUBSET S /\ Cardinality(ToSet(s)) = Cardinality(S)
  BY <1>3, ListingLen, ListingCardinality
<1> QED
  BY <1>3, <1>4, FS_Subset

LEMMA TakeListing ==
  ASSUME NEW S, NEW s, Listing(s, S), NEW n \in Nat
  PROVE  Listing(Take(s, n), S) /\ Len(Take(s, n)) = Least(n, Len(s)) /\ ToSet(Take(s, n)) \subseteq ToSet(s)
<1>1. Len(s) \in Nat /\ DOMAIN s = 1..Len(s) /\ s \in Seq(S)
  BY ListingLen DEF Listing
<1> DEFINE m == Least(n, Len(s))
<1>2. m \in Nat /\ m <= Len(s)
  BY <1>1 DEF Least
<1>3. Take(s, n) = SubSeq(s, 1, m)
  BY DEF Take, Least
<1> HIDE DEF m
<1>4. /\ Take(s, n) \in Seq(S) /\ Len(Take(s, n)) = m
      /\ \A i \in 1..m : Take(s, n)[i] = s[i]
  BY <1>1, <1>2, <1>3
<1>5. DOMAIN Take(s, n) = 1..m /\ 1..m \subseteq DOMAIN s
  BY <1>1, <1>2, <1>4
<1>6. Listing(Take(s, n), S)
  BY <1>4, <1>5 DEF Listing
<1>7. ToSet(Take(s, n)) \subseteq ToSet(s)
  BY <1>4, <1>5 DEF ToSet
<1> QED
  BY <1>4, <1>6, <1>7 DEF m

-----------------------------------------------------------------------------
(***************************************************************************)
(* The searches.  Every index, in its own words, asks for points without   *)
(* an acl and points that share a principal, and, but for what is analysed *)
(* by Elasticsearch, for those whose value is the filter's.                *)
(***************************************************************************)
Visible(p, principals) ==
  principals # Anyone => Acl[p] = Absent \/ Acl[p] = {} \/ Acl[p] \cap principals # {}

LEMMA CandidatesVisible ==
  ASSUME NEW backend, NEW filter, NEW principals
  PROVE  /\ Candidates(backend, filter, principals) \subseteq Points
         /\ IsFiniteSet(Candidates(backend, filter, principals))
         /\ \A p \in Candidates(backend, filter, principals) : Visible(p, principals)
<1> DEFINE C == Candidates(backend, filter, principals)
<1>1. C \subseteq Points
  BY DEF Candidates, MemoryPoints, SqliteRows, PgRows, QdrantPoints, EsDocuments
<1>2. ASSUME NEW p, AclClause(p, principals) PROVE Visible(p, principals)
  BY <1>2 DEF AclClause, StoredAcl, Visible
<1>3. ASSUME NEW p, AclVisible(p, principals) PROVE Visible(p, principals)
  BY <1>3 DEF AclVisible, Visible
<1>4. \A p \in PgRows(filter, principals) : Visible(p, principals)
  BY DEF PgRows, Visible
<1>5. \A p \in C : Visible(p, principals)
  BY <1>2, <1>3, <1>4 DEF Candidates, MemoryPoints, SqliteRows, QdrantPoints, EsDocuments
<1>6. IsFiniteSet(C)
  <2>1. C \in SUBSET Points
    BY <1>1
  <2> QED
    BY <2>1, FS_Subset, RetrievalAssumption
<1> QED
  BY <1>1, <1>5, <1>6

\* What carries the value asked for, and may be seen, is a candidate, and no candidate
\* carries another, unless its value is analysed.
LEMMA CandidatesCarry ==
  ASSUME NEW p \in Points, cmd.backend \in Backends
  PROVE  LET C == Candidates(cmd.backend, cmd.filter, ask.principals)
         IN /\ MayBeSeen(p) /\ Carries(p) /\ ~Analysed(p) => p \in C
            /\ p \in C => cmd.filter = AnyValue \/ Value[p].text = cmd.filter \/ Analysed(p)
<1> USE DEF Candidates, Carries, MayBeSeen, Analysed
<1>1. CASE cmd.backend \in {"memory", "sqlite"}
  BY <1>1 DEF MemoryPoints, SqliteRows, MatchesText, AclVisible
<1>2. CASE cmd.backend = "pgvector"
  BY <1>2 DEF PgRows, MatchesExactly
<1>3. CASE cmd.backend = "qdrant"
  BY <1>3 DEF QdrantPoints, MatchesExactly, AclClause, StoredAcl
<1>4. CASE cmd.backend = "elasticsearch"
  BY <1>4 DEF EsDocuments, MatchesTerm, AclClause, StoredAcl
<1> QED
  BY <1>1, <1>2, <1>3, <1>4 DEF Backends

\* A sequence of all of S is a list.
LEMMA SortedListing ==
  ASSUME NEW S, IsFiniteSet(S), NEW order, Total(S, order), Transitive(S, order)
  PROVE  /\ Listing(Sorted(S, order), S) /\ Len(Sorted(S, order)) = Cardinality(S)
         /\ ToSet(Sorted(S, order)) = S
<1>1. Sorted(S, order) \in SetToSeqs(S)
  BY SortedInOrder
<1> QED
  BY <1>1, OrdersAreListings

\* The dense search finds the best k of the candidates.
LEMMA SearchListing ==
  ASSUME NEW backend, NEW k \in Nat, NEW filter, NEW principals
  PROVE  LET C == Candidates(backend, filter, principals)
             found == Search(backend, k, filter, principals)
         IN Listing(found, C) /\ Len(found) = Least(k, Cardinality(C))
<1> DEFINE C == Candidates(backend, filter, principals)
<1>1. C \subseteq Points /\ IsFiniteSet(C)
  BY CandidatesVisible
<1> HIDE DEF C
<1>2. \A p \in C : p \in Points /\ Likeness[p] \in Int
  BY <1>1, RetrievalAssumption
<1>3. \A p, q \in C : <<p, q>> \in Closer <=> Likeness[p] >= Likeness[q]
  BY <1>2 DEF Closer
<1>4. Total(C, Closer)
  BY <1>2, <1>3 DEF Total
<1>5. Transitive(C, Closer)
  BY <1>2, <1>3 DEF Transitive
<1>6. Listing(Sorted(C, Closer), C) /\ Len(Sorted(C, Closer)) = Cardinality(C)
  BY <1>1, <1>4, <1>5, SortedListing
<1> QED
  BY <1>6, TakeListing DEF Search, C

\* BM25 orders list the points they are given.
LEMMA Bm25Listing ==
  ASSUME NEW S \in SUBSET Points, NEW terms, NEW s \in Bm25Orders(S, terms)
  PROVE  Listing(s, S)
<1> DEFINE A == Scored(S, terms)
           B == S \ Scored(S, terms)
<1>1. A \subseteq S /\ B \subseteq S /\ A \cap B = {} /\ A \in SUBSET Points /\ B \in SUBSET Points
  BY DEF Scored
<1>2. PICK a \in SetToSeqs(A) : s = a \o Sorted(B, Inserted)
  BY DEF Bm25Orders
<1> HIDE DEF A, B
<1> DEFINE b == Sorted(B, Inserted)
<1>3. IsFiniteSet(A) /\ IsFiniteSet(B)
  BY <1>1, FS_Subset, RetrievalAssumption
<1>4. Listing(a, A)
  BY <1>2, <1>3, OrdersAreListings
<1>5. (\A p \in B : p \in Nat) /\ (\A p, q \in B : <<p, q>> \in Inserted <=> p <= q)
  BY <1>1, RetrievalAssumption DEF Inserted
<1>6. Total(B, Inserted) /\ Transitive(B, Inserted)
  <2>1. Total(B, Inserted)
    BY <1>5 DEF Total
  <2>2. ASSUME NEW p \in B, NEW q \in B, NEW r \in B, p <= q, q <= r PROVE p <= r
    BY <1>5, <2>2
  <2>3. Transitive(B, Inserted)
    BY <1>5, <2>2 DEF Transitive
  <2> QED
    BY <2>1, <2>3
<1>7. Listing(b, B)
  BY <1>3, <1>6, SortedListing
<1> HIDE DEF b
<1>8. a \in Seq(S) /\ b \in Seq(S) /\ Len(a) \in Nat /\ Len(b) \in Nat
  <2>1. a \in Seq(A) /\ b \in Seq(B)
    BY <1>4, <1>7 DEF Listing
  <2> QED
    BY <1>1, <2>1
<1>9. s = a \o b
  BY <1>2 DEF b
<1>10. s \in Seq(S) /\ DOMAIN s = 1..(Len(a) + Len(b))
  BY <1>8, <1>9
<1>11. \A i \in DOMAIN s :
          \/ i \in DOMAIN a /\ s[i] = a[i]
          \/ i - Len(a) \in DOMAIN b /\ i \notin DOMAIN a /\ s[i] = b[i - Len(a)]
  <2> SUFFICES ASSUME NEW i \in 1..(Len(a) + Len(b))
               PROVE  \/ i \in DOMAIN a /\ s[i] = a[i]
                      \/ i - Len(a) \in DOMAIN b /\ i \notin DOMAIN a /\ s[i] = b[i - Len(a)]
    BY <1>10
  <2>1. DOMAIN a = 1..Len(a) /\ DOMAIN b = 1..Len(b)
    BY <1>8
  <2>2. CASE i <= Len(a)
    <3>1. i \in 1..Len(a)
      BY <1>8, <2>2
    <3>2. (a \o b)[i] = a[i]
      BY <1>8, <3>1
    <3> QED
      BY <1>9, <2>1, <3>1, <3>2
  <2>3. CASE ~(i <= Len(a))
    <3>1. (a \o b)[i] = b[i - Len(a)]
      BY <1>8, <2>3
    <3>2. i - Len(a) \in 1..Len(b)
      BY <1>8, <2>3
    <3> QED
      BY <1>9, <2>1, <2>3, <3>1, <3>2
  <2> QED
    BY <2>2, <2>3
<1>12. (\A i \in DOMAIN a : a[i] \in A) /\ (\A i \in DOMAIN b : b[i] \in B)
  BY <1>4, <1>7 DEF Listing
<1>13. ASSUME NEW i \in DOMAIN s, NEW j \in DOMAIN s, s[i] = s[j] PROVE i = j
  <2>1. CASE i \in DOMAIN a /\ j \in DOMAIN a
    BY <1>4, <1>11, <1>8, <1>13, <2>1 DEF Listing
  <2>2. CASE i \notin DOMAIN a /\ j \notin DOMAIN a
    <3>1. i - Len(a) \in DOMAIN b /\ j - Len(a) \in DOMAIN b /\ b[i - Len(a)] = b[j - Len(a)]
      BY <1>11, <1>13, <2>2
    <3>2. i - Len(a) = j - Len(a)
      BY <1>7, <3>1 DEF Listing
    <3> QED
      BY <1>8, <1>10, <3>2
  <2>3. CASE ~(i \in DOMAIN a <=> j \in DOMAIN a)
    BY <1>1, <1>11, <1>12, <1>13, <2>3
  <2> QED
    BY <2>1, <2>2, <2>3
<1> QED
  BY <1>10, <1>13 DEF Listing

\* A prefix of an order of some of the candidates lists candidates.
LEMMA OrderTaken ==
  ASSUME NEW C \in SUBSET Points, NEW S \in SUBSET C, NEW terms, NEW s \in Bm25Orders(S, terms), NEW k \in Nat
  PROVE  Listing(Take(s, k), C)
<1>1. Listing(s, S)
  BY Bm25Listing
<1>2. Listing(s, C)
  BY <1>1 DEF Listing
<1> QED
  BY <1>2, TakeListing

\* The keyword search of every index lists candidates of its dense search.
LEMMA KeywordListing ==
  ASSUME NEW backend, NEW k \in Nat, NEW terms, NEW filter, NEW principals,
         NEW found \in KeywordResults(backend, k, terms, filter, principals)
  PROVE  Listing(found, Candidates(backend, filter, principals))
<1> DEFINE C == Candidates(backend, filter, principals)
<1>1. C \in SUBSET Points
  BY CandidatesVisible
<1>2. found \in KeywordOf(backend, k, terms, C)
  BY DEF KeywordResults
<1> HIDE DEF C
<1> SUFFICES \E S \in SUBSET C : \E s \in Bm25Orders(S, terms) : found = Take(s, k)
  BY <1>1, OrderTaken DEF C
<1>3. CASE found \in MemoryKeyword(k, terms, C) \cup SqliteKeyword(k, terms, C)
  BY <1>3 DEF MemoryKeyword, SqliteKeyword
<1>4. CASE found \in PgKeyword(k, terms, C)
  BY <1>4 DEF PgKeyword
<1>5. CASE found \in QdrantKeyword(k, terms, C)
  <2>1. PICK T \in SUBSET Scored(C, terms) : found \in {Take(s, k) : s \in Bm25Orders(T, terms)}
    BY <1>5 DEF QdrantKeyword, kSubset
  <2>2. T \in SUBSET C
    BY DEF Scored
  <2> QED
    BY <2>1, <2>2
<1>6. CASE found \in EsKeyword(k, terms, C)
  BY <1>6 DEF EsKeyword, Scored
<1> QED
  BY <1>2, <1>3, <1>4, <1>5, <1>6 DEF KeywordOf

-----------------------------------------------------------------------------
(***************************************************************************)
(* Fusion.  Fractions with positive denominators are compared by their     *)
(* cross products; with the place as the second key that is a total order. *)
(***************************************************************************)
Positive == Nat \ {0}

LEMMA ProductMono ==
  ASSUME NEW x \in Nat, NEW y \in Nat, NEW z \in Positive
  PROVE  (x >= y <=> x * z >= y * z) /\ x * z \in Nat
<1>1. x >= y => x * z >= y * z
  BY DEF Positive
<1>2. x < y => x * z < y * z
  <2> SUFFICES ASSUME x < y PROVE x * z < y * z
    OBVIOUS
  <2>1. PICK d \in Positive : y = x + d
    <3>1. y - x \in Positive /\ y = x + (y - x)
      BY DEF Positive
    <3> QED
      BY <3>1
  <2>2. y * z = x * z + d * z
    BY <2>1 DEF Positive
  <2>3. d * z > 0
    BY <2>1 DEF Positive
  <2> QED
    BY <2>2, <2>3 DEF Positive
<1>3. x * z \in Nat /\ y * z \in Nat
  BY DEF Positive
<1> QED
  BY <1>1, <1>2, <1>3

Fractions == [num : Positive, den : Positive]

\* One that is not below the second, and the second not below the third.
LEMMA AboveTransitive ==
  ASSUME NEW x \in Fractions, NEW y \in Fractions, NEW z \in Fractions, ~Above(y, x), ~Above(z, y)
  PROVE  ~Above(z, x) /\ (Above(x, y) \/ Above(y, z) => Above(x, z))
<1> DEFINE a == x.num  b == x.den  c == y.num  d == y.den  e == z.num  f == z.den
<1>1. a \in Positive /\ b \in Positive /\ c \in Positive /\ d \in Positive /\ e \in Positive /\ f \in Positive
  BY DEF Fractions
<1>2. /\ Above(y, x) <=> c * b > a * d
      /\ Above(z, y) <=> e * d > c * f
      /\ Above(z, x) <=> e * b > a * f
      /\ Above(x, y) <=> a * d > c * b
      /\ Above(y, z) <=> c * f > e * d
      /\ Above(x, z) <=> a * f > e * b
  BY DEF Above
<1> HIDE DEF a, b, c, d, e, f
<1>3. /\ a * d \in Nat /\ c * b \in Nat /\ c * f \in Nat /\ e * d \in Nat /\ a * f \in Nat /\ e * b \in Nat
  BY <1>1 DEF Positive
<1>4. /\ (a * d >= c * b <=> (a * d) * f >= (c * b) * f)
      /\ (c * b >= a * d <=> (c * b) * f >= (a * d) * f)
  BY <1>1, <1>3, ProductMono
<1>5. /\ (c * f >= e * d <=> (c * f) * b >= (e * d) * b)
      /\ (e * d >= c * f <=> (e * d) * b >= (c * f) * b)
  BY <1>1, <1>3, ProductMono
<1>6. /\ (a * f >= e * b <=> (a * f) * d >= (e * b) * d)
      /\ (e * b >= a * f <=> (e * b) * d >= (a * f) * d)
  BY <1>1, <1>3, ProductMono
<1>7. /\ (a * d) * f = (a * f) * d /\ (c * b) * f = (c * f) * b /\ (e * d) * b = (e * b) * d
  BY <1>1 DEF Positive
<1>8. /\ (a * d) * f \in Nat /\ (c * b) * f \in Nat /\ (e * d) * b \in Nat
  BY <1>1, <1>3 DEF Positive
<1> DEFINE P == (a * d) * f  Q == (c * b) * f  R == (e * d) * b
<1>9. P >= Q /\ Q >= R
  BY <1>2, <1>3, <1>4, <1>5, <1>7
<1>10. P >= R /\ (P > Q \/ Q > R => P > R)
  BY <1>8, <1>9
<1> QED
  BY <1>2, <1>3, <1>4, <1>5, <1>6, <1>7, <1>8, <1>9, <1>10

LEMMA AboveAsymmetric ==
  ASSUME NEW x \in Fractions, NEW y \in Fractions, Above(x, y)
  PROVE  ~Above(y, x)
<1>1. x.num \in Nat /\ x.den \in Nat /\ y.num \in Nat /\ y.den \in Nat
  BY DEF Fractions, Positive
<1>2. x.num * y.den \in Nat /\ y.num * x.den \in Nat
  BY <1>1
<1> QED
  BY <1>2 DEF Above

LEMMA RankOfListed ==
  ASSUME NEW S, NEW s, Listing(s, S), NEW p
  PROVE  /\ Contains(s, p) <=> p \in ToSet(s)
         /\ IF p \in ToSet(s) THEN RankIn(s, p) \in 1..Len(s) ELSE RankIn(s, p) = 0
<1>1. Len(s) \in Nat /\ DOMAIN s = 1..Len(s)
  BY ListingLen
<1>2. Contains(s, p) <=> p \in ToSet(s)
  BY <1>1 DEF Contains, ToSet
<1> QED
  BY <1>1, <1>2 DEF RankIn, ToSet

LEMMA FusedIsFraction ==
  ASSUME NEW S, NEW d, Listing(d, S), NEW k, Listing(k, S), NEW p \in ToSet(d) \cup ToSet(k)
  PROVE  Fused(d, k, p) \in Fractions
<1> DEFINE a == RankIn(d, p)  b == RankIn(k, p)
<1>1. a \in Nat /\ b \in Nat /\ (a # 0 \/ b # 0)
  BY RankOfListed, ListingLen
<1>2. Fused(d, k, p) = CASE a = 0 -> [num |-> 1, den |-> K + b]
                         [] b = 0 -> [num |-> 1, den |-> K + a]
                         [] OTHER -> [num |-> 2 * K + a + b, den |-> (K + a) * (K + b)]
  BY DEF Fused
<1> HIDE DEF a, b
<1>3. K + a \in Positive /\ K + b \in Positive /\ 2 * K + a + b \in Positive /\ 1 \in Positive
  BY <1>1 DEF K, Positive
<1>4. \A x, y \in Positive : x * y \in Positive
  <2> SUFFICES ASSUME NEW x \in Positive, NEW y \in Positive PROVE x * y \in Positive
    OBVIOUS
  <2>1. 0 * y = 0 /\ x \in Nat /\ ~(0 >= x)
    BY DEF Positive
  <2>2. x * y \in Nat /\ ~(0 * y >= x * y)
    BY <2>1, ProductMono
  <2> QED
    BY <2>1, <2>2 DEF Positive
<1>5. (K + a) * (K + b) \in Positive
  BY <1>3, <1>4
<1> QED
  BY <1>2, <1>3, <1>5 DEF Fractions

\* The places at which hits are first named are numbers.
LEMMA PlaceIsNumber ==
  ASSUME NEW S, NEW d, Listing(d, S), NEW k, Listing(k, S), NEW p
  PROVE  Place(d, k, p) \in Nat
<1>1. RankIn(d, p) \in Nat /\ RankIn(k, p) \in Nat /\ Len(d) \in Nat
  BY RankOfListed, ListingLen
<1> QED
  BY <1>1 DEF Place

LEMMA BetterOrders ==
  ASSUME NEW C \in SUBSET Points, NEW d, Listing(d, C), NEW k, Listing(k, C)
  PROVE  /\ Total(ToSet(d) \cup ToSet(k), Better(d, k))
         /\ Transitive(ToSet(d) \cup ToSet(k), Better(d, k))
<1> DEFINE found == ToSet(d) \cup ToSet(k)
           F(p) == Fused(d, k, p)
           Pl(p) == Place(d, k, p)
<1>1. found \subseteq Points
  BY ListingLen
<1>2. \A p \in found : F(p) \in Fractions /\ Pl(p) \in Nat
  BY FusedIsFraction, PlaceIsNumber
<1>3. \A p, q \in found :
        <<p, q>> \in Better(d, k) <=> Above(F(p), F(q)) \/ (~Above(F(q), F(p)) /\ Pl(p) <= Pl(q))
  BY <1>1 DEF Better
<1> HIDE DEF found, F, Pl
<1>4. Total(found, Better(d, k))
  BY <1>2, <1>3 DEF Total
<1>5. ASSUME NEW p \in found, NEW q \in found, NEW r \in found,
             <<p, q>> \in Better(d, k), <<q, r>> \in Better(d, k)
      PROVE  <<p, r>> \in Better(d, k)
  <2>1. ~Above(F(q), F(p)) /\ ~Above(F(r), F(q))
    BY <1>2, <1>3, <1>5, AboveAsymmetric
  <2>2. ~Above(F(r), F(p)) /\ (Above(F(p), F(q)) \/ Above(F(q), F(r)) => Above(F(p), F(r)))
    BY <1>2, <2>1, AboveTransitive
  <2>3. CASE Above(F(p), F(q)) \/ Above(F(q), F(r))
    BY <1>3, <2>2, <2>3
  <2>4. CASE ~(Above(F(p), F(q)) \/ Above(F(q), F(r)))
    <3>1. Pl(p) <= Pl(q) /\ Pl(q) <= Pl(r)
      BY <1>3, <1>5, <2>4
    <3>2. Pl(p) <= Pl(r)
      BY <1>2, <3>1
    <3> QED
      BY <1>3, <2>2, <3>2
  <2> QED
    BY <2>3, <2>4
<1>6. Transitive(found, Better(d, k))
  BY <1>5 DEF Transitive
<1> QED
  BY <1>4, <1>6 DEF found

\* Fusion loses no hit of either ranking, and has each once.
LEMMA FuseListing ==
  ASSUME NEW C \in SUBSET Points, NEW d, Listing(d, C), NEW k, Listing(k, C)
  PROVE  /\ Listing(Fuse(d, k), C)
         /\ ToSet(Fuse(d, k)) = ToSet(d) \cup ToSet(k)
         /\ Len(d) <= Len(Fuse(d, k))
<1> DEFINE found == ToSet(d) \cup ToSet(k)
<1>1. found \in SUBSET C /\ ToSet(d) \in SUBSET found
  BY ListingLen
<1>2. IsFiniteSet(found)
  <2>1. found \in SUBSET Points
    BY <1>1
  <2> QED
    BY <2>1, FS_Subset, RetrievalAssumption
<1>3. Total(found, Better(d, k)) /\ Transitive(found, Better(d, k))
  BY BetterOrders
<1>4. Len(d) = Cardinality(ToSet(d))
  BY ListingCardinality
<1> HIDE DEF found
<1>5. Listing(Sorted(found, Better(d, k)), found) /\ Len(Sorted(found, Better(d, k))) = Cardinality(found)
      /\ ToSet(Sorted(found, Better(d, k))) = found
  BY <1>2, <1>3, SortedListing
<1>6. Cardinality(ToSet(d)) <= Cardinality(found)
  BY <1>1, <1>2, FS_Subset
<1>7. Fuse(d, k) = Sorted(found, Better(d, k))
  BY DEF Fuse, found
<1>8. Listing(Fuse(d, k), C)
  BY <1>1, <1>5, <1>7 DEF Listing
<1> QED
  BY <1>4, <1>5, <1>6, <1>7, <1>8 DEF found

-----------------------------------------------------------------------------
(***************************************************************************)
(* Reranking.  Numbers that are as many as the hits and name every one of  *)
(* them name none twice: the reply is a permutation, or it is not used.    *)
(***************************************************************************)
LEMMA RepliesAreNumbers ==
  ASSUME NEW n \in Nat \ {0}, NEW numbers \in Replies(n)
  PROVE  numbers \in Seq(Nat)
<1>1. CASE numbers \in [1..n -> 1..n]
  BY <1>1
<1>2. CASE numbers = [i \in 1..(n - 1) |-> i]
  BY <1>2
<1>3. CASE numbers = [i \in 1..n |-> 1]
  BY <1>3
<1> QED
  BY <1>1, <1>2, <1>3 DEF Replies

LEMMA OrderIsInjective ==
  ASSUME NEW n \in Nat, NEW numbers \in Seq(Nat), IsOrder(numbers, n)
  PROVE  numbers \in [1..n -> 1..n] /\ \A i, j \in 1..n : numbers[i] = numbers[j] => i = j
<1>1. DOMAIN numbers = 1..n /\ ToSet(numbers) = 1..n
  BY DEF IsOrder
<1>2. numbers \in [1..n -> 1..n]
  BY <1>1 DEF ToSet
<1>3. numbers \in Surjection(1..n, 1..n)
  BY <1>1, <1>2 DEF Surjection, ToSet
<1>4. IsFiniteSet(1..n)
  <2>1. 1 \in Int /\ n \in Int
    OBVIOUS
  <2> QED
    BY <2>1, FS_Interval
<1>5. numbers \in Injection(1..n, 1..n)
  BY <1>3, <1>4, FS_SurjSameCardinalityImpliesInj
<1> QED
  BY <1>2, <1>5 DEF Injection, IsInjective

\* Whatever a model sends back, the hits are those there were, up to top_k.
LEMMA RerankedListing ==
  ASSUME NEW S, NEW h, Listing(h, S), NEW numbers \in Seq(Nat), NEW k \in Nat
  PROVE  Listing(Reranked(h, numbers, k), S) /\ Len(Reranked(h, numbers, k)) = Least(k, Len(h))
<1>1. Len(h) \in Nat /\ DOMAIN h = 1..Len(h) /\ h \in Seq(S)
  BY ListingLen DEF Listing
<1>2. CASE ~IsOrder(numbers, Len(h))
  BY <1>2, TakeListing DEF Reranked
<1>3. CASE IsOrder(numbers, Len(h))
  <2> DEFINE n == Len(h)
             r == [i \in DOMAIN numbers |-> h[numbers[i]]]
  <2>1. numbers \in [1..n -> 1..n] /\ \A i, j \in 1..n : numbers[i] = numbers[j] => i = j
    BY <1>1, <1>3, OrderIsInjective
  <2>2. r \in [1..n -> S]
    BY <1>1, <2>1
  <2>3. r \in Seq(S) /\ Len(r) = n
    BY <1>1, <2>2
  <2>4. ASSUME NEW i \in 1..n, NEW j \in 1..n, r[i] = r[j] PROVE i = j
    <3>1. numbers[i] \in DOMAIN h /\ numbers[j] \in DOMAIN h /\ h[numbers[i]] = h[numbers[j]]
      BY <1>1, <2>1, <2>4
    <3>2. numbers[i] = numbers[j]
      BY <3>1 DEF Listing
    <3> QED
      BY <2>1, <3>2
  <2>5. Listing(r, S)
    BY <2>2, <2>3, <2>4 DEF Listing
  <2> QED
    BY <1>3, <2>3, <2>5, TakeListing DEF Reranked
<1> QED
  BY <1>2, <1>3

-----------------------------------------------------------------------------
(***************************************************************************)
(* Where an invocation may be.                                             *)
(***************************************************************************)
Question == {"embed", "dense", "keyword", "rerank", "release", "outcome", "answer", "score"}

Control ==
  /\ cmd \in Commands
  /\ pc \in {"start", "prompt", "close", "count", "ended"} \cup Question
  /\ turn \in 0..(IF cmd.verb = "eval" THEN Len(Cases) ELSE MaxTurns)
  /\ error \in {"none", "config", "source", "other"}
  /\ exit \in {"no", "ok", "one", "crash"}
  /\ exit # "no" <=> pc = "ended"
  /\ pc \in Question => turn > 0
  /\ pc = "start" => turn = 0
  /\ pc = "answer" => cmd.verb \in {"answer", "chat", "caller"} /\ error = "none"
  /\ pc = "score" => cmd.verb = "eval"
  /\ cmd.verb = "status" => pc \in {"start", "count", "ended"}
  /\ pc = "count" => cmd.verb = "status"

\* What query_async closes before it returns.
Returned == IF OwnsIndexer THEN {"embedder", "indexer"} ELSE {"embedder"}

(* The clients: an index in memory is never opened; a caller's indexer is, by *)
(* the search; the indexer of a caller and the index of an empty memory are  *)
(* never opened by query_async, a judge is built by eval only, and a client   *)
(* of the program's own is closed in its last step.                           *)
Connections ==
  /\ open \subseteq Clients /\ closed \subseteq Clients
  /\ pc = "start" => open = {} /\ closed = {}
  /\ cmd.verb # "status" /\ pc \notin {"dense", "keyword", "rerank", "release"} =>
       open \cap (IF cmd.backend = "sqlite" THEN {"embedder"} ELSE Returned) = {}
  /\ cmd.backend = "memory" => "indexer" \notin open
  /\ "judge" \in open => cmd.verb = "eval"
  /\ pc # "ended" => closed \cap Owned = {}
  /\ cmd.verb = "caller" => closed \cap (Owned \cup {"indexer"}) = {}
  /\ /\ cmd.verb = "caller" /\ cmd.backend # "memory"
     /\ pc \in {"keyword", "rerank"} \/ (pc \in {"release", "outcome"} /\ error = "none")
     => "indexer" \in open
  /\ pc = "ended" /\ cmd.verb \notin {"status", "caller"} => open \cap Owned = {}
  /\ closed \cap open \cap Owned = {}

Here == Candidates(cmd.backend, cmd.filter, ask.principals)

(* The hits list candidates of the question under way, before the reranking   *)
(* no fewer than will be asked for, after it as many as are asked for.        *)
Found ==
  /\ Listing(hits, Here)
  /\ dense # NoHits => Listing(dense, Here)
  /\ pc = "keyword" => /\ Listing(dense, Here)
                       /\ Populated => Len(dense) = Least(CandidateK, Cardinality(Here))
  /\ pc = "rerank" /\ Populated => Len(hits) >= Least(cmd.topk, Cardinality(Here))
  /\ pc \in {"release", "outcome"} /\ error = "none" /\ Populated =>
       Len(hits) = Least(cmd.topk, Cardinality(Here))

PrincipalsOf(i) == IF Cases[i].principals # Anyone THEN Cases[i].principals ELSE cmd.principals

Answers == [by : {"none", "excerpts", "model"}, cites : SUBSET (Nat \X Points)]
Turns == [text : Questions \cup {Blank}, answer : Answers]

(* Who asks, what an answer cites, and the answered turns of a chat, one less *)
(* than those begun while a question is under way.                            *)
Told ==
  /\ ask.text \in Questions \cup {Blank}
  /\ turn > 0 => ask.principals = IF cmd.verb = "eval" THEN PrincipalsOf(turn) ELSE cmd.principals
  /\ answer \in Answers
  /\ \A c \in answer.cites : cmd.verb # "eval" /\ Visible(c[2], cmd.principals)
  /\ history \in Seq(Turns)
  /\ history # << >> => cmd.verb = "chat"
  /\ Len(history) <= turn
  /\ pc \in Question => Len(history) < turn

ResultType == [rank : Nat, hits : Seq(Points), judged : {"no", "scored", "zero"}]

Reported(i) ==
  /\ results[i].rank # 0 <=> \E p \in ToSet(results[i].hits) : Uri[p] = Cases[i].wants
  /\ \A p \in ToSet(results[i].hits) : Visible(p, PrincipalsOf(i))

(* One result for each case that was scored; without an error there is one    *)
(* for each case before an evaluation closes its clients.                     *)
Report ==
  cmd.verb = "eval" =>
    /\ results \in Seq(ResultType)
    /\ \A i \in DOMAIN results : Reported(i)
    /\ pc = "start" => results = << >>
    /\ pc = "prompt" => Len(results) = turn
    /\ pc \in Question => Len(results) + 1 = turn
    /\ pc \in {"close", "ended"} => \/ error # "none"
                                    \/ Len(results) = Len(Cases)
    /\ pc = "ended" => \/ Cases = << >>
                       \/ exit = EvalExit

-----------------------------------------------------------------------------
(***************************************************************************)
(* The control: every action moves from one place to the next.             *)
(***************************************************************************)
LEMMA CommandFields ==
  ASSUME NEW c \in Commands
  PROVE  /\ c.verb \in {"query", "answer", "chat", "eval", "status", "caller"}
         /\ c.backend \in Backends
         /\ c.topk \in Nat
BY SessionAssumption DEF CommandType

LEMMA Bounds == Len(Cases) \in Nat /\ DOMAIN Cases = 1..Len(Cases) /\ MaxTurns \in Nat
BY SessionAssumption

LEMMA ControlInit == Init => Control
BY Bounds DEF Init, Control, Question

LEMMA ControlInductive == Control /\ [Next]_vars => Control'
<1> SUFFICES ASSUME Control, [Next]_vars PROVE Control'
  OBVIOUS
<1> USE DEF Control, Question
<1>1. CASE StartQuery \/ StartChat \/ StartEval \/ StartCaller
  BY <1>1 DEF StartQuery, StartChat, StartEval, StartCaller, ParseFilters, Begin, Refuse, Waiting
<1>2. ASSUME NEW q \in Questions \cup {Blank}, Ask(q) PROVE Control'
  <2>1. /\ pc = "prompt" /\ pc' = "embed" /\ turn' = turn + 1 /\ error' = "none" /\ UNCHANGED <<cmd, exit>>
        /\ turn < (IF cmd.verb = "eval" THEN Len(Cases) ELSE MaxTurns)
    BY <1>2 DEF Ask
  <2> QED
    BY <2>1, Bounds
<1>3. CASE Leave
  BY <1>3 DEF Leave
<1>4. CASE Embed \/ Dense \/ Keyword \/ Rerank \/ Release
  <2>1. /\ pc \in {"embed", "dense", "keyword", "rerank", "release"}
        /\ pc' \in {"dense", "keyword", "rerank", "release", "outcome"}
        /\ UNCHANGED <<cmd, turn, exit>>
    BY <1>4 DEF Embed, Dense, Keyword, Rerank, Release, Fail
  <2>2. error' \in {"none", "config", "source", "other"}
    BY <1>4 DEF Embed, Dense, Keyword, Rerank, Release, Fail
  <2> QED
    BY <2>1, <2>2
<1>5. CASE Outcome
  <2>1. cmd.verb \in {"query", "answer", "chat", "eval", "status", "caller"}
    BY CommandFields
  <2>2. pc = "outcome" /\ cmd.verb # "status" /\ UNCHANGED <<cmd, turn, error, exit>>
    BY <1>5 DEF Outcome
  <2>3. /\ pc' \in {"close", "score", "answer", "prompt"}
        /\ pc' = "score" => cmd.verb = "eval"
        /\ pc' = "answer" => cmd.verb \notin {"query", "eval"} /\ error = "none"
    <3>1. CASE error = "none" /\ cmd.verb = "query"
      BY <1>5, <3>1 DEF Outcome
    <3>2. CASE error = "none" /\ cmd.verb = "eval"
      BY <1>5, <3>2 DEF Outcome
    <3>3. CASE error = "none" /\ cmd.verb \notin {"query", "eval"}
      BY <1>5, <3>3 DEF Outcome
    <3>4. CASE error # "none"
      BY <1>5, <3>4 DEF Outcome
    <3> QED
      BY <3>1, <3>2, <3>3, <3>4
  <2> QED
    BY <2>1, <2>2, <2>3
<1>6. CASE Answer
  <2>1. pc = "answer" /\ pc' \in {"prompt", "close"} /\ error' \in {error, "other"} /\ UNCHANGED <<cmd, turn, exit>>
    BY <1>6 DEF Answer, Said
  <2> QED
    BY <2>1
<1>7. CASE Score \/ ScoreCrash
  BY <1>7 DEF Score, ScoreCrash
<1>8. CASE CloseQuery \/ CloseChat \/ CloseEval \/ CloseCaller
  <2>1. ExitOf \in {"ok", "one", "crash"} /\ EvalExit \in {"ok", "one", "crash"}
    BY DEF ExitOf, EvalExit
  <2> QED
    BY <1>8, <2>1 DEF CloseQuery, CloseChat, CloseEval, CloseCaller, Closing
<1>9. CASE StatusSource \/ StatusIndex
  BY <1>9 DEF StatusSource, StatusIndex
<1>10. CASE UNCHANGED vars
  BY <1>10 DEF vars
<1> QED
  BY <1>1, <1>2, <1>3, <1>4, <1>5, <1>6, <1>7, <1>8, <1>9, <1>10 DEF Next

LEMMA Controlled == Spec => []Control
BY ControlInit, ControlInductive, PTL DEF Spec

-----------------------------------------------------------------------------
(***************************************************************************)
(* The connections.                                                        *)
(***************************************************************************)
\* A step that connects and closes nothing.
LEMMA ConnectionsKept ==
  ASSUME Connections, UNCHANGED <<cmd, open, closed>>,
         pc' \in {"start", "dense", "keyword", "rerank", "release"} => pc' = pc,
         pc \in {"dense", "keyword", "rerank", "release"} => pc' = pc,
         pc = "ended" => pc' = "ended",
         pc' = "ended" /\ pc # "ended" => pc = "start",
         pc' \in {"release", "outcome"} /\ error' = "none" => pc = pc' /\ error = "none"
  PROVE  Connections'
BY DEF Connections, Returned, OwnsIndexer, Owned

LEMMA ConnectionsInit == Init => Connections
BY DEF Init, Connections, Clients, Owned

LEMMA ConnectionsInductive == Control /\ Connections /\ [Next]_vars => Connections'
<1> SUFFICES ASSUME Control, Connections, [Next]_vars PROVE Connections'
  OBVIOUS
<1>1. CASE StartQuery \/ StartChat \/ StartEval \/ StartCaller
  BY <1>1, ConnectionsKept
     DEF StartQuery, StartChat, StartEval, StartCaller, ParseFilters, Begin, Refuse, Waiting
<1>2. ASSUME NEW q \in Questions \cup {Blank}, Ask(q) PROVE Connections'
  BY <1>2, ConnectionsKept DEF Ask
<1>3. CASE Leave
  BY <1>3, ConnectionsKept DEF Leave
<1>4. CASE Embed
  <2>1. /\ pc = "embed" /\ UNCHANGED <<cmd, closed>>
        /\ \/ UNCHANGED open /\ pc' = "outcome" /\ error' = "config"
           \/ open' \in {open, open \cup {"embedder"}} /\ pc' = "dense"
           \/ open' \in {open, open \cup {"embedder"}} /\ pc' = "release" /\ error' = "source"
    BY <1>4 DEF Embed
  <2> QED
    BY <2>1 DEF Connections, Returned, OwnsIndexer, Owned, Clients
<1>5. CASE Dense
  <2>1. /\ pc = "dense" /\ UNCHANGED <<cmd, closed>> /\ pc' \in {"keyword", "release"}
        /\ open' = IF cmd.backend = "memory" THEN open ELSE open \cup {"indexer"}
    BY <1>5 DEF Dense, OpensIndexer, Fail
  <2> QED
    BY <2>1 DEF Connections, Returned, OwnsIndexer, Owned, Clients
<1>6. CASE Keyword
  <2>1. pc = "keyword" /\ UNCHANGED <<cmd, open, closed>> /\ pc' \in {"rerank", "release"}
    BY <1>6 DEF Keyword, Fail
  <2> QED
    BY <2>1 DEF Connections, Returned, OwnsIndexer, Owned
<1>7. CASE Rerank
  <2>1. pc = "rerank" /\ UNCHANGED <<cmd, closed, error>> /\ pc' = "release" /\ open' \in {open, open \cup {"reranker"}}
    BY <1>7 DEF Rerank
  <2> QED
    BY <2>1 DEF Connections, Returned, OwnsIndexer, Owned, Clients
<1>8. CASE Release
  <2> DEFINE shut == IF OwnsIndexer THEN Closable ELSE {"embedder"}
  <2>1. pc = "release" /\ pc' = "outcome" /\ UNCHANGED <<cmd, error>> /\ open' = open \ shut /\ closed' = closed \cup shut
    BY <1>8 DEF Release, Shut
  <2>2. /\ shut \subseteq {"embedder", "indexer"} /\ "embedder" \in shut
        /\ cmd.verb = "caller" => shut = {"embedder"}
        /\ OwnsIndexer /\ cmd.backend \notin {"sqlite", "memory"} => shut = {"embedder", "indexer"}
    BY DEF Closable, OwnsIndexer
  <2> HIDE DEF shut
  <2>3. open' \cap (IF cmd.backend = "sqlite" THEN {"embedder"} ELSE Returned) = {}
    BY <2>1, <2>2 DEF Connections, Returned, OwnsIndexer
  <2> QED
    BY <2>1, <2>2, <2>3 DEF Connections, Returned, OwnsIndexer, Owned, Clients
<1>9. CASE Outcome
  BY <1>9, ConnectionsKept DEF Outcome
<1>10. CASE Answer
  <2>1. /\ pc = "answer" /\ UNCHANGED <<cmd, closed>> /\ pc' \in {"prompt", "close"}
        /\ open' \in {open, open \cup {"llm"}}
    BY <1>10 DEF Answer, Said
  <2> QED
    BY <2>1 DEF Connections, Returned, OwnsIndexer, Owned, Clients
<1>11. CASE Score \/ ScoreCrash
  <2>1. /\ pc = "score" /\ UNCHANGED <<cmd, closed>> /\ pc' \in {"prompt", "close"}
        /\ open' \in {open, open \cup {"llm"}, open \cup {"llm", "judge"}}
    BY <1>11 DEF Score, ScoreCrash
  <2>2. cmd.verb = "eval"
    BY <2>1 DEF Control
  <2> QED
    BY <2>1, <2>2 DEF Connections, Returned, OwnsIndexer, Owned, Clients
<1>12. CASE CloseQuery \/ CloseChat \/ CloseEval \/ CloseCaller
  <2>1. PICK shut \in {{"llm", "reranker"}, {"reranker", "llm", "judge"}, {}} :
          /\ pc = "close" /\ pc' = "ended" /\ cmd' = cmd /\ open' = open \ shut /\ closed' = closed \cup shut
          /\ cmd.verb = "caller" => shut = {}
          /\ cmd.verb = "eval" => shut = {"reranker", "llm", "judge"}
          /\ cmd.verb \in {"query", "answer", "chat"} => shut = {"llm", "reranker"}
          /\ cmd.verb # "status"
    BY <1>12 DEF CloseQuery, CloseChat, CloseEval, CloseCaller, Closing, Shut
  <2>2. cmd.verb \in {"query", "answer", "chat", "eval", "status", "caller"}
    BY CommandFields DEF Control
  <2> QED
    BY <2>1, <2>2 DEF Connections, Returned, OwnsIndexer, Owned, Clients
<1>13. CASE StatusSource \/ StatusIndex
  <2>1. /\ cmd.verb = "status" /\ UNCHANGED <<cmd, closed>> /\ pc \in {"start", "count"} /\ pc' \in {"count", "ended"}
        /\ open' \in {open, open \cup {"source"}, OpensIndexer}
    BY <1>13 DEF StatusSource, StatusIndex, Control
  <2>2. open' \in {open, open \cup {"source"}, open \cup {"indexer"}} /\ (cmd.backend = "memory" => "indexer" \notin open')
    BY <2>1 DEF OpensIndexer, Connections
  <2> QED
    BY <2>1, <2>2 DEF Connections, Returned, OwnsIndexer, Owned, Clients
<1>14. CASE UNCHANGED vars
  BY <1>14, ConnectionsKept DEF vars
<1> QED
  BY <1>1, <1>2, <1>3, <1>4, <1>5, <1>6, <1>7, <1>8, <1>9, <1>10, <1>11, <1>12, <1>13, <1>14 DEF Next

\* query_async leaves nothing of its own connected, whatever failed in it,
\* and a program that has ended has closed its clients (AllClosed).
THEOREM NothingLeftOpen == Spec => []AllClosed
<1>1. Control /\ Connections => AllClosed
  <2> SUFFICES ASSUME Control, Connections PROVE AllClosed
    OBVIOUS
  <2> QED
    BY DEF Connections, AllClosed, Returned
<1> QED
  BY <1>1, ConnectionsInit, ConnectionsInductive, Controlled, PTL DEF Spec

\* What a caller has passed in stays connected, and no client is used after
\* it has been closed (OnlyOwnClosed).
THEOREM BorrowedStaysOpen == Spec => []OnlyOwnClosed
<1>1. Connections => OnlyOwnClosed
  BY DEF Connections, OnlyOwnClosed
<1> QED
  BY <1>1, ConnectionsInit, ConnectionsInductive, Controlled, PTL DEF Spec

-----------------------------------------------------------------------------
(***************************************************************************)
(* What a question finds.                                                  *)
(***************************************************************************)
\* The candidates of a question do not change while it is under way.
LEMMA FoundKept ==
  ASSUME Found, UNCHANGED <<cmd, ask, hits, dense>>,
         pc' \in {"release", "outcome"} /\ error' = "none" => pc \in {"release", "outcome"} /\ error = "none",
         pc' \in {"keyword", "rerank"} => pc' = pc
  PROVE  Found'
<1>1. Here' = Here /\ Populated' = Populated /\ CandidateK' = CandidateK
  BY DEF Here, Populated, OwnsIndexer, CandidateK, UsesReranker
<1> QED
  BY <1>1 DEF Found

LEMMA HereIsFinite == Here \in SUBSET Points /\ IsFiniteSet(Here) /\ Cardinality(Here) \in Nat
BY CandidatesVisible, FS_CardinalityType DEF Here

LEMMA EmptyListing == ASSUME NEW S PROVE Listing(<< >>, S) /\ Len(<< >>) = 0
BY DEF Listing

\* As many candidates are searched for as will be asked for, or more.
LEMMA CandidateKBound ==
  ASSUME Control
  PROVE  CandidateK \in Nat /\ CandidateK >= cmd.topk /\ cmd.topk \in Nat
<1>1. cmd.topk \in Nat /\ CandidateFactor \in Positive
  BY CommandFields, SessionAssumption DEF Control, Positive
<1>2. CandidateFactor * cmd.topk \in Nat /\ CandidateFactor * cmd.topk >= cmd.topk
  <2>1. CASE cmd.topk = 0
    BY <1>1, <2>1 DEF Positive
  <2>2. CASE cmd.topk # 0
    <3>1. CandidateFactor \in Nat /\ CandidateFactor >= 1 /\ 1 \in Nat /\ cmd.topk \in Positive
      BY <1>1, <2>2 DEF Positive
    <3>2. CandidateFactor * cmd.topk \in Nat /\ CandidateFactor * cmd.topk >= 1 * cmd.topk
      BY <3>1, ProductMono
    <3> QED
      BY <1>1, <3>2
  <2> QED
    BY <2>1, <2>2
<1> QED
  BY <1>1, <1>2 DEF CandidateK

LEMMA FoundInit == Init => Found
BY EmptyListing DEF Init, Found

LEMMA DenseFinds ==
  ASSUME Control, Found, Dense
  PROVE  Found'
<1>1. /\ pc = "dense" /\ pc' \in {"keyword", "release"} /\ UNCHANGED <<cmd, ask, hits>>
  BY DEF Dense, Fail
<1>2. Here' = Here /\ Populated' = Populated /\ CandidateK' = CandidateK
  BY <1>1 DEF Here, Populated, OwnsIndexer, CandidateK, UsesReranker
<1>3. CASE pc' = "release"
  <2>1. dense' = dense /\ error' # "none"
    BY <1>3 DEF Dense, Fail
  <2> QED
    BY <1>1, <1>3, <2>1, FoundKept
<1>4. CASE pc' = "keyword" /\ Populated
  <2>1. dense' = Search(cmd.backend, CandidateK, cmd.filter, ask.principals)
    BY <1>4 DEF Dense, Fail
  <2>2. Listing(dense', Here) /\ Len(dense') = Least(CandidateK, Cardinality(Here))
    BY <2>1, SearchListing, CandidateKBound DEF Here
  <2> QED
    BY <1>1, <1>2, <1>4, <2>2 DEF Found
<1>5. CASE pc' = "keyword" /\ ~Populated
  <2>1. dense' = << >>
    BY <1>5 DEF Dense, Fail
  <2>2. Listing(dense', Here)
    BY <2>1, EmptyListing
  <2> QED
    BY <1>1, <1>2, <1>5, <2>2 DEF Found
<1> QED
  BY <1>1, <1>3, <1>4, <1>5

LEMMA KeywordFinds ==
  ASSUME Control, Found, Keyword
  PROVE  Found'
<1>1. pc = "keyword" /\ pc' \in {"rerank", "release"} /\ UNCHANGED <<cmd, ask, dense>>
  BY DEF Keyword, Fail
<1>2. Here' = Here /\ Populated' = Populated /\ CandidateK' = CandidateK
  BY <1>1 DEF Here, Populated, OwnsIndexer, CandidateK, UsesReranker
<1>3. Listing(dense, Here) /\ (Populated => Len(dense) = Least(CandidateK, Cardinality(Here)))
  BY <1>1 DEF Found
<1>4. CASE pc' = "release"
  <2>1. hits' = hits /\ error' # "none"
    BY <1>4 DEF Keyword, Fail
  <2> QED
    BY <1>1, <1>4, <2>1, FoundKept
<1>5. CASE pc' = "rerank"
  <2>1. Listing(hits', Here) /\ Len(dense) <= Len(hits')
    <3>1. CASE hits' = dense
      BY <1>3, <3>1, ListingLen
    <3>2. ASSUME NEW found \in KeywordResults(cmd.backend, CandidateK, Terms[ask.text], cmd.filter, ask.principals),
                 hits' = Fuse(dense, found)
          PROVE  Listing(hits', Here) /\ Len(dense) <= Len(hits')
      <4>1. Listing(found, Here)
        BY KeywordListing, CandidateKBound DEF Here
      <4> QED
        BY <1>3, <3>2, <4>1, HereIsFinite, FuseListing
    <3>3. CASE hits' = Fuse(dense, << >>)
      BY <1>3, <3>3, EmptyListing, HereIsFinite, FuseListing
    <3> QED
      BY <1>5, <3>1, <3>2, <3>3 DEF Keyword, Fail
  <2>2. Len(dense) \in Nat /\ Len(hits') \in Nat
    BY <1>3, <2>1, ListingLen
  <2>3. Populated => Len(hits') >= Least(cmd.topk, Cardinality(Here))
    BY <1>3, <2>1, <2>2, CandidateKBound, HereIsFinite DEF Least
  <2> QED
    BY <1>1, <1>2, <1>5, <2>1, <2>3 DEF Found
<1> QED
  BY <1>1, <1>4, <1>5

LEMMA RerankFinds ==
  ASSUME Control, Found, Rerank
  PROVE  Found'
<1>1. pc = "rerank" /\ pc' = "release" /\ UNCHANGED <<cmd, ask, dense, error>>
  BY DEF Rerank
<1>2. Here' = Here /\ Populated' = Populated /\ CandidateK' = CandidateK
  BY <1>1 DEF Here, Populated, OwnsIndexer, CandidateK, UsesReranker
<1>3. /\ Listing(hits, Here) /\ Len(hits) \in Nat /\ Len(hits) <= Cardinality(Here) /\ cmd.topk \in Nat
      /\ Populated => Len(hits) >= Least(cmd.topk, Cardinality(Here))
  BY <1>1, HereIsFinite, ListingBound, CandidateKBound DEF Found
<1>4. Listing(hits', Here) /\ (Len(hits') = Least(cmd.topk, Len(hits)) \/ (hits' = hits /\ Len(hits) = 0))
  <2>1. CASE hits' = Take(hits, cmd.topk)
    BY <1>3, <2>1, TakeListing
  <2>2. CASE hits = << >> /\ hits' = hits
    BY <1>3, <2>2
  <2>3. ASSUME hits # << >>, NEW numbers \in Replies(Len(hits)), hits' = Reranked(hits, numbers, cmd.topk)
        PROVE  Listing(hits', Here) /\ Len(hits') = Least(cmd.topk, Len(hits))
    <3>1. Len(hits) # 0
      BY <2>3, <1>3 DEF Listing
    <3>2. numbers \in Seq(Nat)
      BY <1>3, <3>1, RepliesAreNumbers
    <3> QED
      BY <1>3, <2>3, <3>2, RerankedListing
  <2> QED
    BY <2>1, <2>2, <2>3 DEF Rerank
<1>5. Populated => Len(hits') = Least(cmd.topk, Cardinality(Here))
  BY <1>3, <1>4, HereIsFinite DEF Least
<1> QED
  BY <1>1, <1>2, <1>4, <1>5 DEF Found

LEMMA FoundInductive == Control /\ Found /\ [Next]_vars => Found'
<1> SUFFICES ASSUME Control, Found, [Next]_vars PROVE Found'
  OBVIOUS
<1>1. CASE StartQuery \/ StartChat \/ StartEval \/ StartCaller
  BY <1>1, FoundKept DEF StartQuery, StartChat, StartEval, StartCaller, ParseFilters, Begin, Refuse, Waiting
<1>2. ASSUME NEW q \in Questions \cup {Blank}, Ask(q) PROVE Found'
  <2>1. hits' = << >> /\ dense' = NoHits /\ pc' = "embed"
    BY <1>2 DEF Ask
  <2> QED
    BY <2>1, EmptyListing DEF Found
<1>3. CASE Leave
  BY <1>3, FoundKept DEF Leave
<1>4. CASE Embed
  BY <1>4, FoundKept DEF Embed
<1>5. CASE Release \/ Outcome
  <2>1. CASE Release
    BY <2>1, FoundKept DEF Release
  <2>2. CASE Outcome
    <3>1. pc' \notin {"keyword", "rerank", "release", "outcome"} /\ UNCHANGED <<cmd, ask, hits, dense>>
      BY <2>2 DEF Outcome
    <3> QED
      BY <3>1, FoundKept
  <2> QED
    BY <1>5, <2>1, <2>2
<1>6. CASE Answer \/ Score \/ ScoreCrash
  <2>1. pc' \in {"prompt", "close"} /\ UNCHANGED <<cmd, ask, hits, dense>>
    BY <1>6 DEF Answer, Said, Score, ScoreCrash
  <2> QED
    BY <2>1, FoundKept
<1>7. CASE CloseQuery \/ CloseChat \/ CloseEval \/ CloseCaller
  BY <1>7, FoundKept DEF CloseQuery, CloseChat, CloseEval, CloseCaller, Closing
<1>8. CASE StatusSource \/ StatusIndex
  BY <1>8, FoundKept DEF StatusSource, StatusIndex
<1>9. CASE UNCHANGED vars
  BY <1>9, FoundKept DEF vars
<1> QED
  BY <1>1, <1>2, <1>3, <1>4, <1>5, <1>6, <1>7, <1>8, <1>9, DenseFinds, KeywordFinds, RerankFinds DEF Next

LEMMA FoundAlways == Spec => []Found
BY FoundInit, FoundInductive, Controlled, PTL DEF Spec

\* No hit that carries the value asked for is lost, none comes twice and
\* none carries another, whatever the fusion and the reranking model make of
\* them, but for the values that Elasticsearch has analysed (NoHitLost).
THEOREM HitsComplete == Spec => []NoHitLost
<1>1. Control /\ Found => NoHitLost
  <2> SUFFICES ASSUME Control, Found, pc = "outcome", error = "none"
               PROVE  /\ \A i, j \in DOMAIN hits : hits[i] = hits[j] => i = j
                      /\ Populated =>
                           \/ Len(hits) = cmd.topk
                           \/ /\ Len(hits) < cmd.topk
                              /\ {p \in Points : MayBeSeen(p) /\ Carries(p) /\ ~Analysed(p)} \subseteq ToSet(hits)
                      /\ \A p \in ToSet(hits) :
                           cmd.filter = AnyValue \/ Value[p].text = cmd.filter \/ Analysed(p)
    BY DEF NoHitLost
  <2>1. \A i, j \in DOMAIN hits : hits[i] = hits[j] => i = j
    BY DEF Found, Listing
  <2>2. Populated => Len(hits) = Least(cmd.topk, Cardinality(Here))
    BY DEF Found
  <2>3. cmd.topk \in Nat /\ Cardinality(Here) \in Nat /\ Here \in SUBSET Points /\ IsFiniteSet(Here)
    BY CandidateKBound, HereIsFinite
  <2>4. ToSet(hits) \in SUBSET Here /\ Cardinality(ToSet(hits)) = Len(hits)
    BY ListingLen, ListingCardinality DEF Found
  <2>5. Populated /\ Len(hits) # cmd.topk => Len(hits) < cmd.topk /\ Len(hits) = Cardinality(Here)
    BY <2>2, <2>3 DEF Least
  <2>6. Len(hits) = Cardinality(Here) => ToSet(hits) = Here
    BY <2>3, <2>4, FS_Subset
  <2>7. \A p \in Points :
          /\ MayBeSeen(p) /\ Carries(p) /\ ~Analysed(p) => p \in Here
          /\ p \in Here => cmd.filter = AnyValue \/ Value[p].text = cmd.filter \/ Analysed(p)
    BY CandidatesCarry, CommandFields DEF Here, Control
  <2>8. Populated /\ Len(hits) # cmd.topk =>
          {p \in Points : MayBeSeen(p) /\ Carries(p) /\ ~Analysed(p)} \subseteq ToSet(hits)
    BY <2>5, <2>6, <2>7
  <2>9. \A p \in ToSet(hits) : cmd.filter = AnyValue \/ Value[p].text = cmd.filter \/ Analysed(p)
    BY <2>3, <2>4, <2>7
  <2> QED
    BY <2>1, <2>5, <2>8, <2>9
<1> QED
  BY <1>1, FoundAlways, Controlled, PTL

-----------------------------------------------------------------------------
(***************************************************************************)
(* What is told: to whom, with which citations, after which history.       *)
(***************************************************************************)
LEMMA ToldKept ==
  ASSUME Told, UNCHANGED <<cmd, turn, ask, answer, history>>, pc' \in Question => pc \in Question
  PROVE  Told'
BY DEF Told, PrincipalsOf, Visible

LEMMA ToldInit == Init => Told
<1> SUFFICES ASSUME Init PROVE Told
  OBVIOUS
<1>1. answer = [by |-> "none", cites |-> {}] /\ answer \in Answers
  BY DEF Init, None, Answers
<1>2. history = << >> /\ turn = 0 /\ ask.text = Blank /\ pc = "start"
  BY DEF Init
<1> QED
  BY <1>1, <1>2 DEF Told, Question

LEMMA AskTells ==
  ASSUME Control, Told, NEW q \in Questions \cup {Blank}, Ask(q)
  PROVE  Told'
<1>1. /\ turn' = turn + 1 /\ turn \in Nat /\ UNCHANGED <<cmd, answer, history>>
      /\ ask' = [text |-> q,
                 principals |-> IF cmd.verb = "eval" /\ Cases[turn + 1].principals # Anyone
                                  THEN Cases[turn + 1].principals ELSE cmd.principals]
  BY Bounds DEF Ask, Control
<1>2. ask'.text \in Questions \cup {Blank}
  BY <1>1
<1>3. ask'.principals = IF cmd'.verb = "eval" THEN PrincipalsOf(turn)' ELSE cmd'.principals
  BY <1>1 DEF PrincipalsOf
<1>4. Len(history') \in Nat /\ Len(history') <= turn /\ history' \in Seq(Turns)
  BY <1>1 DEF Told
<1> QED
  BY <1>1, <1>2, <1>3, <1>4 DEF Told, Visible

\* A citation is of a hit, and so of a point the one who asks may see.
LEMMA CitesVisible ==
  ASSUME Control, Found, Told, pc = "answer", NEW numbers
  PROVE  /\ Cited(numbers) \in SUBSET (Nat \X Points)
         /\ \A c \in Cited(numbers) : Visible(c[2], cmd.principals)
<1>1. cmd.verb # "eval" /\ ask.principals = cmd.principals
  <2>1. cmd.verb \in {"answer", "chat", "caller"} /\ turn > 0
    BY DEF Control, Question
  <2> QED
    BY <2>1 DEF Told
<1>2. \A i \in DOMAIN hits : i \in Nat /\ hits[i] \in Here
  BY ListingLen DEF Found, Listing
<1>3. \A p \in Here : p \in Points /\ Visible(p, cmd.principals)
  BY <1>1, CandidatesVisible DEF Here
<1> QED
  BY <1>2, <1>3 DEF Cited

LEMMA SaidTells ==
  ASSUME Control, Found, Told, pc = "answer", UNCHANGED <<cmd, turn, ask>>,
         NEW numbers, NEW by \in {"excerpts", "model"}, Said([by |-> by, cites |-> Cited(numbers)])
  PROVE  Told'
<1> DEFINE a == [by |-> by, cites |-> Cited(numbers)]
<1>1. /\ Cited(numbers) \in SUBSET (Nat \X Points)
      /\ \A c \in Cited(numbers) : Visible(c[2], cmd.principals)
  BY CitesVisible
<1>2. a \in Answers
  BY <1>1 DEF Answers
<1>3. a.cites = Cited(numbers)
  OBVIOUS
<1>4. answer' = a /\ pc' \in {"close", "prompt"}
  BY DEF Said
<1>5. history' = IF cmd.verb = "chat" THEN Append(history, [text |-> ask.text, answer |-> a]) ELSE history
  BY DEF Said
<1> HIDE DEF a
<1>6. [text |-> ask.text, answer |-> a] \in Turns
  BY <1>2 DEF Told, Turns
<1>7. history \in Seq(Turns) /\ Len(history) \in Nat /\ Len(history) < turn /\ turn \in Nat
  BY Bounds DEF Told, Question, Control
<1>8. history' \in Seq(Turns) /\ Len(history') <= turn /\ (history' # << >> => cmd.verb = "chat")
  <2>1. CASE cmd.verb = "chat"
    BY <1>5, <1>6, <1>7, <2>1
  <2>2. CASE cmd.verb # "chat"
    BY <1>5, <1>7, <2>2 DEF Told
  <2> QED
    BY <2>1, <2>2
<1>9. cmd.verb # "eval"
  BY DEF Control
<1>10. \A c \in answer'.cites : cmd.verb # "eval" /\ Visible(c[2], cmd.principals)
  BY <1>1, <1>3, <1>4, <1>9
<1>11. ask.principals = cmd.principals
  BY <1>7, <1>9 DEF Told
<1>12. answer' \in Answers
  BY <1>2, <1>4
<1>13. ask.text \in Questions \cup {Blank}
  BY DEF Told
<1> QED
  BY <1>4, <1>8, <1>9, <1>10, <1>11, <1>12, <1>13 DEF Told, Visible, Question

LEMMA ToldInductive == Control /\ Found /\ Told /\ [Next]_vars => Told'
<1> SUFFICES ASSUME Control, Found, Told, [Next]_vars PROVE Told'
  OBVIOUS
<1>1. CASE StartQuery \/ StartChat \/ StartEval \/ StartCaller
  BY <1>1, ToldKept
     DEF StartQuery, StartChat, StartEval, StartCaller, ParseFilters, Begin, Refuse, Waiting, Question
<1>2. ASSUME NEW q \in Questions \cup {Blank}, Ask(q) PROVE Told'
  BY <1>2, AskTells
<1>3. CASE Leave
  BY <1>3, ToldKept DEF Leave, Question
<1>4. CASE Embed \/ Dense \/ Keyword \/ Rerank \/ Release \/ Outcome
  <2>1. pc \in Question /\ UNCHANGED <<cmd, turn, ask, answer, history>>
    BY <1>4 DEF Embed, Dense, Keyword, Rerank, Release, Outcome, Question
  <2> QED
    BY <2>1, ToldKept
<1>5. CASE Answer
  <2>1. pc = "answer" /\ UNCHANGED <<cmd, turn, ask>>
    BY <1>5 DEF Answer
  <2>2. CASE Said(CitationAnswer)
    BY <2>1, <2>2, SaidTells DEF CitationAnswer
  <2>3. ASSUME NEW numbers \in Markers, Said(BuildAnswer(numbers)) PROVE Told'
    BY <2>1, <2>3, SaidTells DEF BuildAnswer
  <2>4. CASE UNCHANGED <<answer, history>> /\ pc' \in {"prompt", "close"}
    BY <2>1, <2>4, ToldKept DEF Question
  <2> QED
    BY <1>5, <2>2, <2>3, <2>4 DEF Answer
<1>6. CASE Score \/ ScoreCrash
  BY <1>6, ToldKept DEF Score, ScoreCrash, Question
<1>7. CASE CloseQuery \/ CloseChat \/ CloseEval \/ CloseCaller
  BY <1>7, ToldKept DEF CloseQuery, CloseChat, CloseEval, CloseCaller, Closing, Question
<1>8. CASE StatusSource \/ StatusIndex
  BY <1>8, ToldKept DEF StatusSource, StatusIndex, Question
<1>9. CASE UNCHANGED vars
  BY <1>9, ToldKept DEF vars
<1> QED
  BY <1>1, <1>2, <1>3, <1>4, <1>5, <1>6, <1>7, <1>8, <1>9 DEF Next

LEMMA ToldAlways == Spec => []Told
BY ToldInit, ToldInductive, Controlled, FoundAlways, PTL DEF Spec

\* No search, fusion, reranking or citation shows a point to someone without
\* one of its principals, in any index (NothingInvisible).
THEOREM OnlyVisible == Spec => []NothingInvisible
<1>1. Control /\ Found /\ Told => NothingInvisible
  <2> SUFFICES ASSUME Control, Found, Told, ask.principals # Anyone,
                      NEW p \in ToSet(hits) \cup (IF dense = NoHits THEN {} ELSE ToSet(dense))
                                \cup (IF pc \in {"prompt", "close"} /\ error = "none" /\ turn > 0
                                        THEN {c[2] : c \in answer.cites} ELSE {})
               PROVE  Acl[p] = Absent \/ Acl[p] = {} \/ Acl[p] \cap ask.principals # {}
    BY DEF NothingInvisible
  <2> SUFFICES Visible(p, ask.principals)
    BY DEF Visible
  <2>1. CASE p \in Here
    BY <2>1, CandidatesVisible DEF Here
  <2>2. ASSUME turn > 0, NEW c \in answer.cites, p = c[2] PROVE Visible(p, ask.principals)
    BY <2>2 DEF Told
  <2>3. ToSet(hits) \subseteq Here /\ (dense # NoHits => ToSet(dense) \subseteq Here)
    BY ListingLen DEF Found
  <2> QED
    BY <2>1, <2>2, <2>3
<1> QED
  BY <1>1, FoundAlways, ToldAlways, Controlled, PTL

\* The types, and how long a history may be (TypeOK).
THEOREM SessionTypes == Spec => []TypeOK
<1>1. Control /\ Connections /\ Found /\ Told => TypeOK
  <2> SUFFICES ASSUME Control, Connections, Found, Told PROVE TypeOK
    OBVIOUS
  <2>1. cmd \in CommandType
    BY SessionAssumption DEF Control
  <2>2. turn \in 0..(MaxTurns + Len(Cases))
    BY Bounds DEF Control
  <2>3. ToSet(hits) \subseteq Points
    BY ListingLen, HereIsFinite DEF Found
  <2> QED
    BY <2>1, <2>2, <2>3 DEF TypeOK, Control, Connections, Told
<1> QED
  BY <1>1, ConnectionsInit, ConnectionsInductive, FoundAlways, ToldAlways, Controlled, PTL DEF Spec

\* A chat's history grows by answered turns only, and the model is given it
\* as it was before (HistoryFollows).
THEOREM HistoryIsAnswers == Spec => HistoryFollows
<1> DEFINE Follows ==
      /\ history' # history =>
           /\ history' = Append(history, [text |-> ask.text, answer |-> answer'])
           /\ error' = "none"
           /\ \A c \in answer'.cites : c[1] \in DOMAIN hits /\ c[2] = hits[c[1]]
           /\ sent' \in {sent, history}
      /\ sent' # sent => sent' = history
<1>1. ASSUME Control, [Next]_vars PROVE [Follows]_vars
  <2>1. CASE Answer
    <3>1. error = "none"
      BY <1>1, <2>1 DEF Answer, Control
    <3> DEFINE Own(a) == \A c \in a.cites : c[1] \in DOMAIN hits /\ c[2] = hits[c[1]]
    <3>2. ASSUME NEW numbers, Said(BuildAnswer(numbers)) \/ Said(CitationAnswer)
          PROVE  /\ history' # history =>
                      history' = Append(history, [text |-> ask.text, answer |-> answer'])
                 /\ error' = error
                 /\ Own(answer')
      <4>1. Own(BuildAnswer(numbers)) /\ Own(CitationAnswer)
        BY DEF BuildAnswer, CitationAnswer, Cited
      <4>2. answer' = BuildAnswer(numbers) \/ answer' = CitationAnswer
        BY <3>2 DEF Said
      <4>3. Own(answer')
        BY <4>1, <4>2
      <4> QED
        BY <3>2, <4>3 DEF Said
    <3>3. history' # history =>
            /\ history' = Append(history, [text |-> ask.text, answer |-> answer'])
            /\ error' = error
            /\ Own(answer')
      BY <2>1, <3>2 DEF Answer
    <3>4. sent' \in {sent, history}
      BY <2>1 DEF Answer
    <3> QED
      BY <3>1, <3>3, <3>4
  <2>2. CASE UNCHANGED <<history, sent>>
    BY <2>2
  <2>3. \/ Answer \/ UNCHANGED <<history, sent>>
    <3>1. CASE StartQuery \/ StartChat \/ StartEval \/ StartCaller \/ Leave
      BY <3>1 DEF StartQuery, StartChat, StartEval, StartCaller, Leave, Waiting
    <3>2. ASSUME NEW q \in Questions \cup {Blank}, Ask(q) PROVE UNCHANGED <<history, sent>>
      BY <3>2 DEF Ask
    <3>3. CASE Embed \/ Dense \/ Keyword \/ Rerank \/ Release \/ Outcome
      BY <3>3 DEF Embed, Dense, Keyword, Rerank, Release, Outcome
    <3>4. CASE Score \/ ScoreCrash \/ StatusSource \/ StatusIndex
      BY <3>4 DEF Score, ScoreCrash, StatusSource, StatusIndex
    <3>5. CASE CloseQuery \/ CloseChat \/ CloseEval \/ CloseCaller
      BY <3>5 DEF CloseQuery, CloseChat, CloseEval, CloseCaller, Closing
    <3>6. CASE UNCHANGED vars
      BY <3>6 DEF vars
    <3> QED
      BY <1>1, <3>1, <3>2, <3>3, <3>4, <3>5, <3>6 DEF Next
  <2> QED
    BY <2>1, <2>2, <2>3
<1> QED
  BY <1>1, Controlled, PTL DEF Spec, HistoryFollows

-----------------------------------------------------------------------------
(***************************************************************************)
(* The report of an evaluation.                                            *)
(***************************************************************************)
\* A finite set of numbers has a least one.
LEMMA MinExists ==
  ASSUME NEW I, I \subseteq Nat, IsFiniteSet(I), I # {}
  PROVE  Min(I) \in I /\ \A i \in I : Min(I) <= i
<1> DEFINE down == {pair \in I \X I : pair[1] >= pair[2]}
<1>1. Total(I, down) /\ Transitive(I, down)
  BY DEF Total, Transitive
<1>2. PICK m \in LastIn(I, down) : TRUE
  BY <1>1, LastExists
<1>3. m \in I /\ \A i \in I \ {m} : <<i, m>> \in down
  BY <1>2 DEF LastIn
<1>4. ASSUME NEW i \in I PROVE m <= i
  <2>1. CASE i = m
    BY <2>1
  <2>2. CASE i # m
    <3>1. <<i, m>> \in down
      BY <1>3, <2>2
    <3>2. i >= m
      BY <3>1
    <3> QED
      BY <1>3, <3>2
  <2> QED
    BY <2>1, <2>2
<1> QED
  BY <1>3, <1>4 DEF Min

\* The rank of a document is 0 just if no hit is of it.
LEMMA RankFinds ==
  ASSUME NEW s \in Seq(Points), NEW uri
  PROVE  /\ RankOfUri(s, uri) \in Nat
         /\ RankOfUri(s, uri) # 0 <=> \E p \in ToSet(s) : Uri[p] = uri
<1> DEFINE I == {i \in 1..Len(s) : Uri[s[i]] = uri}
<1>1. RankOfUri(s, uri) = IF I # {} THEN Min(I) ELSE 0
  BY DEF RankOfUri, SelectInSeq
<1>2. IsFiniteSet(I) /\ I \subseteq 1..Len(s)
  <2>1. 1 \in Int /\ Len(s) \in Int
    OBVIOUS
  <2>2. IsFiniteSet(1..Len(s))
    BY <2>1, FS_Interval, Zenon
  <2> QED
    BY <2>2, FS_Subset
<1>3. I # {} <=> \E p \in ToSet(s) : Uri[p] = uri
  BY DEF ToSet
<1>4. I \subseteq Nat /\ 0 \notin I
  BY <1>2
<1> HIDE DEF I
<1>5. I # {} => Min(I) \in Nat \ {0}
  BY <1>2, <1>4, MinExists
<1> QED
  BY <1>1, <1>3, <1>5

LEMMA HitCountBound ==
  ASSUME results \in Seq(ResultType)
  PROVE  HitCount \in Nat
<1>1. IsFiniteSet(1..Len(results))
  <2>1. 1 \in Int /\ Len(results) \in Int
    OBVIOUS
  <2> QED
    BY <2>1, FS_Interval, Zenon
<1>2. {i \in DOMAIN results : results[i].rank # 0} \subseteq 1..Len(results)
  OBVIOUS
<1>3. IsFiniteSet({i \in DOMAIN results : results[i].rank # 0})
  BY <1>1, <1>2, FS_Subset
<1> QED
  BY <1>3, FS_CardinalityType DEF HitCount

LEMMA ReportInit == Init => Report
BY DEF Init, Report, Question

\* A step within a question, which scores nothing.
LEMMA ReportKept ==
  ASSUME Report, UNCHANGED <<cmd, turn, results>>, pc \in Question, pc' \in Question
  PROVE  Report'
BY DEF Report, Reported, PrincipalsOf, Visible, Question

LEMMA ScoreReports ==
  ASSUME Control, Found, Told, Report, Score
  PROVE  Report'
<1> DEFINE r(judged) == [rank |-> RankOfUri(hits, Cases[turn].wants), hits |-> hits, judged |-> judged]
<1>1. /\ pc = "score" /\ pc' = "prompt" /\ cmd.verb = "eval" /\ UNCHANGED <<cmd, turn, error, exit>>
      /\ turn \in Nat /\ turn > 0
  BY Bounds DEF Score, Control, Question
<1>2. PICK judged \in {"no", "scored", "zero"} : results' = Append(results, r(judged))
  BY DEF Score
<1>3. hits \in Seq(Points) /\ ToSet(hits) \subseteq Here
  <2>1. Listing(hits, Here) /\ Here \subseteq Points
    BY HereIsFinite DEF Found
  <2> QED
    BY <2>1, ListingLen DEF Listing
<1>4. /\ r(judged).rank \in Nat
      /\ r(judged).rank # 0 <=> \E p \in ToSet(hits) : Uri[p] = Cases[turn].wants
  BY <1>3, RankFinds
<1>5. r(judged) \in ResultType /\ r(judged).hits = hits
  BY <1>3, <1>4 DEF ResultType
<1>6. \A p \in ToSet(hits) : Visible(p, PrincipalsOf(turn))
  <2>1. ask.principals = PrincipalsOf(turn)
    BY <1>1 DEF Told
  <2> QED
    BY <1>3, <2>1, CandidatesVisible DEF Here
<1> HIDE DEF r
<1>7. results \in Seq(ResultType) /\ Len(results) \in Nat /\ Len(results) + 1 = turn
  BY <1>1 DEF Report, Question
<1>8. /\ results' \in Seq(ResultType) /\ Len(results') = turn /\ DOMAIN results' = 1..turn
      /\ results'[turn] = r(judged)
      /\ \A i \in 1..Len(results) : results'[i] = results[i]
  BY <1>2, <1>5, <1>7
<1>9. ASSUME NEW i \in DOMAIN results' PROVE Reported(i)'
  <2>1. CASE i = turn
    BY <1>1, <1>4, <1>5, <1>6, <1>8, <2>1 DEF Reported, PrincipalsOf, Visible
  <2>2. CASE i # turn
    <3>1. i \in DOMAIN results /\ results'[i] = results[i]
      BY <1>1, <1>7, <1>8, <2>2
    <3>2. Reported(i)
      BY <1>1, <3>1 DEF Report
    <3> QED
      BY <1>1, <3>1, <3>2 DEF Reported, PrincipalsOf, Visible
  <2> QED
    BY <2>1, <2>2
<1> QED
  BY <1>1, <1>8, <1>9 DEF Report, Question

LEMMA ReportInductive == Control /\ Found /\ Told /\ Report /\ [Next]_vars => Report'
<1> SUFFICES ASSUME Control, Found, Told, Report, [Next]_vars, cmd'.verb = "eval" PROVE Report'
  BY DEF Report
<1> USE DEF Question
<1>1. CASE StartQuery \/ StartChat \/ StartCaller
  BY <1>1 DEF StartQuery, StartChat, StartCaller, Waiting
<1>2. CASE StartEval
  <2>1. /\ pc = "start" /\ UNCHANGED <<cmd, turn, error, results>> /\ turn = 0
        /\ pc' = "prompt" \/ (pc' = "ended" /\ Cases = << >>)
    BY <1>2 DEF StartEval, Begin, Refuse, Waiting, Control
  <2>2. cmd.verb = "eval" /\ results = << >>
    BY <2>1 DEF Report
  <2> QED
    BY <2>1, <2>2 DEF Report, Reported
<1>3. ASSUME NEW q \in Questions \cup {Blank}, Ask(q) PROVE Report'
  <2>1. pc = "prompt" /\ pc' = "embed" /\ turn' = turn + 1 /\ UNCHANGED <<cmd, results>>
    BY <1>3 DEF Ask
  <2> QED
    BY <2>1 DEF Report, Reported, PrincipalsOf, Visible
<1>4. CASE Leave
  <2>1. pc = "prompt" /\ pc' = "close" /\ turn = Len(Cases) /\ UNCHANGED <<cmd, turn, results>>
    BY <1>4 DEF Leave
  <2> QED
    BY <2>1 DEF Report, Reported, PrincipalsOf, Visible
<1>5. CASE Embed \/ Dense \/ Keyword \/ Rerank \/ Release
  BY <1>5, ReportKept DEF Embed, Dense, Keyword, Rerank, Release, Fail
<1>6. CASE Outcome
  <2>1. /\ pc = "outcome" /\ UNCHANGED <<cmd, turn, error, results>> /\ cmd.verb = "eval"
        /\ error \in {"none", "config", "source", "other"}
    BY <1>6 DEF Outcome, Control
  <2>2. CASE error = "none"
    <3>1. pc' = "score"
      BY <1>6, <2>1, <2>2 DEF Outcome
    <3> QED
      BY <2>1, <3>1, ReportKept
  <2>3. CASE error # "none"
    <3>1. pc' = "close"
      BY <1>6, <2>1, <2>3 DEF Outcome
    <3> QED
      BY <2>1, <2>3, <3>1 DEF Report, Reported, PrincipalsOf, Visible
  <2> QED
    BY <2>2, <2>3
<1>7. CASE Answer
  BY <1>7 DEF Answer, Control
<1>8. CASE Score
  BY <1>8, ScoreReports
<1>9. CASE ScoreCrash
  <2>1. pc = "score" /\ pc' = "close" /\ error' = "other" /\ UNCHANGED <<cmd, turn, results>>
    BY <1>9 DEF ScoreCrash
  <2> QED
    BY <2>1 DEF Report, Reported, PrincipalsOf, Visible
<1>10. CASE CloseQuery \/ CloseChat \/ CloseCaller
  BY <1>10 DEF CloseQuery, CloseChat, CloseCaller, Closing
<1>11. CASE CloseEval
  <2>1. /\ pc = "close" /\ pc' = "ended" /\ exit' = EvalExit
        /\ UNCHANGED <<cmd, turn, error, results>>
    BY <1>11 DEF CloseEval, Closing
  <2>2. EvalExit' = EvalExit
    BY <2>1 DEF EvalExit, HitCount, ExitOf
  <2> QED
    BY <2>1, <2>2 DEF Report, Reported, PrincipalsOf, Visible
<1>12. CASE StatusSource \/ StatusIndex
  BY <1>12 DEF StatusSource, StatusIndex, Control
<1>13. CASE UNCHANGED vars
  BY <1>13 DEF vars, Report, Reported, PrincipalsOf, Visible, EvalExit, HitCount, ExitOf
<1> QED
  BY <1>1, <1>2, <1>3, <1>4, <1>5, <1>6, <1>7, <1>8, <1>9, <1>10, <1>11, <1>12, <1>13 DEF Next

\* An evaluation that reports has one result per case, in order, found
\* under the principals of the case, and exits by the least hit rate
\* (ReportComplete).
THEOREM ReportsComplete == Spec => []ReportComplete
<1>1. Control /\ Report => ReportComplete
  <2> SUFFICES ASSUME Control, Report, cmd.verb = "eval", pc = "ended", Cases # << >>
               PROVE  ReportComplete
    BY DEF ReportComplete
  <2>1. /\ results \in Seq(ResultType) /\ exit = EvalExit
        /\ error # "none" \/ Len(results) = Len(Cases)
        /\ \A i \in DOMAIN results : Reported(i)
    BY DEF Report
  <2>2. CASE error # "none"
    BY <2>1, <2>2 DEF ReportComplete, EvalExit, ExitOf, Control
  <2>3. CASE error = "none"
    <3>1. exit = "ok" <=> HitCount >= MinHits
      <4>1. HitCount \in Nat /\ MinHits \in Nat
        BY <2>1, HitCountBound, SessionAssumption
      <4>2. ExitOf = "ok"
        BY <2>3 DEF ExitOf
      <4> QED
        BY <2>1, <2>3, <4>1, <4>2 DEF EvalExit
    <3>2. ASSUME NEW i \in DOMAIN results, Cases[i].principals # Anyone, NEW p \in ToSet(results[i].hits)
          PROVE  Acl[p] \in {Absent, {}} \/ Acl[p] \cap Cases[i].principals # {}
      BY <2>1, <3>2 DEF Reported, PrincipalsOf, Visible
    <3> QED
      BY <2>1, <2>3, <3>1, <3>2 DEF ReportComplete, Reported
  <2> QED
    BY <2>2, <2>3
<1> QED
  <2>1. Spec => []Report
    BY ReportInit, ReportInductive, FoundAlways, ToldAlways, Controlled, PTL DEF Spec
  <2> QED
    BY <1>1, <2>1, Controlled, PTL
=============================================================================
