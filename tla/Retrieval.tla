------------------------------ MODULE Retrieval ------------------------------
(***************************************************************************)
(* What a question finds: the visibility and the metadata clauses of the   *)
(* five indexes (src/alvis/index), their dense and keyword searches, the   *)
(* fusion of the two, and the order a reranking model sends back.          *)
(*                                                                         *)
(* Points are numbered in the order of their insertion; those of one       *)
(* document differ in their text.  A similarity is a number, different for *)
(* different points; of BM25 only the sign of the score is kept, and       *)
(* points that score may come in any order.                                *)
(***************************************************************************)
EXTENDS Integers, SequencesExt, Functions

CONSTANTS
  Points,   \* 1 .. n
  Uri,      \* the document of a point
  Acl,      \* its acl: Absent, or a set of principals
  Value,    \* its metadata value, [text: ..., number: BOOLEAN]
  Tokens,   \* the terms elasticsearch indexes that value under
  Words,    \* the terms of its text
  Likeness, \* its similarity to any query vector
  Pool,     \* the least number of candidates qdrant's keyword search takes
  Absent,   \* no acl key in the metadata
  Anyone,   \* principals=None
  AnyValue  \* filters=None

ASSUME RetrievalAssumption ==
  /\ Points \subseteq Nat /\ IsFiniteSet(Points)
  /\ Likeness \in [Points -> Int]

Backends == {"memory", "sqlite", "pgvector", "qdrant", "elasticsearch"}

-----------------------------------------------------------------------------
(* Who sees a point, and what passes a filter.                             *)

\* memory and sqlite: no list, an empty list, or a common principal.
AclVisible(p, principals) ==
  \/ principals = Anyone
  \/ Acl[p] \in {Absent, {}}
  \/ Acl[p] \cap principals # {}

\* str(value) == wanted: the number 7 passes for "7".
MatchesText(p, filter) ==
  filter = AnyValue \/ Value[p].text = filter

\* pgvector and qdrant compare types too.
MatchesExactly(p, filter) ==
  filter = AnyValue \/ (Value[p].text = filter /\ ~Value[p].number)

\* elasticsearch's mapping does not declare the metadata: a text is cut into lower-case
\* terms, and term asks for one that is the filter, letter by letter.
MatchesTerm(p, filter) ==
  filter = AnyValue \/ filter \in Tokens[p]

\* qdrant and elasticsearch keep __acl only when the list is not empty.
StoredAcl(p) == IF Acl[p] \in {Absent, {}} THEN Absent ELSE Acl[p]

\* ... and ask for no such field, or a match of any.
AclClause(p, principals) ==
  principals # Anyone =>
    StoredAcl(p) = Absent \/ \E q \in principals : q \in StoredAcl(p)

-----------------------------------------------------------------------------
(* The candidates of a search, by index.                                   *)

MemoryPoints(filter, principals) ==
  {p \in Points : MatchesText(p, filter) /\ AclVisible(p, principals)}

\* Every row is read, and filtered after the lock is released.
SqliteRows(filter, principals) ==
  {p \in Points : MatchesText(p, filter) /\ AclVisible(p, principals)}

\* metadata @> filter, and: NOT (metadata ? 'acl'), or length 0, or ?|.
PgRows(filter, principals) ==
  {p \in Points :
     /\ MatchesExactly(p, filter)
     /\ principals # Anyone =>
          \/ Acl[p] = Absent
          \/ Acl[p] = {}
          \/ \E q \in principals : q \in Acl[p]}

QdrantPoints(filter, principals) ==
  {p \in Points : MatchesExactly(p, filter) /\ AclClause(p, principals)}

\* The knn clause is filtered before the walk.
EsDocuments(filter, principals) ==
  {p \in Points : MatchesTerm(p, filter) /\ AclClause(p, principals)}

Candidates(backend, filter, principals) ==
  CASE backend = "memory" -> MemoryPoints(filter, principals)
    [] backend = "sqlite" -> SqliteRows(filter, principals)
    [] backend = "pgvector" -> PgRows(filter, principals)
    [] backend = "qdrant" -> QdrantPoints(filter, principals)
    [] OTHER -> EsDocuments(filter, principals)

Take(s, n) == SubSeq(s, 1, IF n < Len(s) THEN n ELSE Len(s))

\* The members of S in the order of a set of pairs.
Sorted(S, order) ==
  CHOOSE s \in SetToSeqs(S) : \A i, j \in DOMAIN s : i < j => <<s[i], s[j]>> \in order

Closer == {pair \in Points \X Points : Likeness[pair[1]] >= Likeness[pair[2]]}

Search(backend, k, filter, principals) ==
  Take(Sorted(Candidates(backend, filter, principals), Closer), k)

-----------------------------------------------------------------------------
(* Keyword search: what is scored, by index, and in which orders it comes.  *)

\* idf is the log of something above 1: a shared term scores, whatever the corpus.
Scores(p, terms) == Words[p] \cap terms # {}

Scored(S, terms) == {p \in S : Scores(p, terms)}

Inserted == {pair \in Points \X Points : pair[1] <= pair[2]}

\* Sorted by score; points that do not score keep the order of the list.
Bm25Orders(S, terms) ==
  {s \o Sorted(S \ Scored(S, terms), Inserted) : s \in SetToSeqs(Scored(S, terms))}

\* The whole list is scored: points without any of the terms come last, with 0.
MemoryKeyword(k, terms, S) == {Take(s, k) : s \in Bm25Orders(S, terms)}

SqliteKeyword(k, terms, S) == {Take(s, k) : s \in Bm25Orders(S, terms)}

\* plainto_tsquery wants every term.
PgKeyword(k, terms, S) ==
  {Take(s, k) : s \in Bm25Orders({p \in S : terms # {} /\ terms \subseteq Words[p]}, terms)}

\* A pool of points with a term, as many as the limit, is scored here.
QdrantKeyword(k, terms, S) ==
  LET found == Scored(S, terms)
      limit == IF k > Pool THEN k ELSE Pool
      size == IF limit < Cardinality(found) THEN limit ELSE Cardinality(found)
  IN UNION {{Take(s, k) : s \in Bm25Orders(T, terms)} : T \in kSubset(size, found)}

EsKeyword(k, terms, S) == {Take(s, k) : s \in Bm25Orders(Scored(S, terms), terms)}

KeywordOf(backend, k, terms, S) ==
  CASE backend = "memory" -> MemoryKeyword(k, terms, S)
    [] backend = "sqlite" -> SqliteKeyword(k, terms, S)
    [] backend = "pgvector" -> PgKeyword(k, terms, S)
    [] backend = "qdrant" -> QdrantKeyword(k, terms, S)
    [] OTHER -> EsKeyword(k, terms, S)

\* Mutant of KeywordResults: without the acl clause.
KeywordUnscoped(backend, k, terms, filter, principals) ==
  KeywordOf(backend, k, terms, Candidates(backend, filter, Anyone))
\* Every keyword search has the clauses of its dense one.
KeywordResults(backend, k, terms, filter, principals) ==
  KeywordOf(backend, k, terms, Candidates(backend, filter, principals))

-----------------------------------------------------------------------------
(* Reciprocal rank fusion, k = 60, in whole numbers.                       *)

K == 60
RankIn(s, p) == IF Contains(s, p) THEN CHOOSE i \in DOMAIN s : s[i] = p ELSE 0

\* The fused score of p is Fused(..).num / Fused(..).den.
Fused(dense, keyword, p) ==
  LET a == RankIn(dense, p)  b == RankIn(keyword, p)
  IN CASE a = 0 -> [num |-> 1, den |-> K + b]
       [] b = 0 -> [num |-> 1, den |-> K + a]
       [] OTHER -> [num |-> 2 * K + a + b, den |-> (K + a) * (K + b)]

Above(x, y) == x.num * y.den > y.num * x.den

\* The place at which the rankings first name p.
Place(dense, keyword, p) ==
  IF Contains(dense, p) THEN RankIn(dense, p) ELSE Len(dense) + RankIn(keyword, p)

\* A stable sort, the best score first.
Better(dense, keyword) ==
  {pair \in Points \X Points :
     LET x == Fused(dense, keyword, pair[1])
         y == Fused(dense, keyword, pair[2])
     IN \/ Above(x, y)
        \/ ~Above(y, x) /\ Place(dense, keyword, pair[1]) <= Place(dense, keyword, pair[2])}

Fuse(dense, keyword) == Sorted(ToSet(dense) \cup ToSet(keyword), Better(dense, keyword))

-----------------------------------------------------------------------------
(* Reranking: numbers 1..n come back, in an order, and perhaps not all.    *)

\* Mutant of IsOrder: any numbers of hits.
IsOrderLoose(numbers, n) == \A i \in DOMAIN numbers : numbers[i] \in 1..n
\* _parse_order: a permutation of 1..n, or ValueError.
IsOrder(numbers, n) ==
  Len(numbers) = n /\ ToSet(numbers) = 1..n

\* A failed call and a bad order keep the order there is.
Reranked(hits, numbers, k) ==
  IF IsOrder(numbers, Len(hits))
    THEN Take([i \in DOMAIN numbers |-> hits[numbers[i]]], k)
    ELSE Take(hits, k)

\* Mutant of RankOfUri: counted from 0.
RankFromZero(hits, uri) ==
  IF \E p \in ToSet(hits) : Uri[p] = uri THEN SelectInSeq(hits, LAMBDA p : Uri[p] = uri) - 1 ELSE 0
\* 1-based rank of the first hit of a document, 0 for none.
RankOfUri(hits, uri) ==
  SelectInSeq(hits, LAMBDA p : Uri[p] = uri)
=============================================================================
