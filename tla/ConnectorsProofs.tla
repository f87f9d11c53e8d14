-------------------------- MODULE ConnectorsProofs --------------------------
(***************************************************************************)
(* Proofs about Connectors and AccessToken, for any documents, page size,  *)
(* configurations, projects, slots and bounds on edits: the token protocol *)
(* is kept, a listing names nothing twice and misses no more than what     *)
(* removals hid from it, and a fetch delivers what it was asked for.       *)
(*                                                                         *)
(* The proof goes from places in an order and pages, over the state the    *)
(* connectors are in (Basis) and what may change it from one step to the   *)
(* next, to what a listing has reached when its cursor stands at a place   *)
(* (Reached, Lost, Slack), and from there to what is delivered (Fetched).  *)
(***************************************************************************)
EXTENDS Connectors, TLAPS, FiniteSetTheorems, SequenceTheorems

-----------------------------------------------------------------------------
(* Places in an order.                                                      *)

\* A finite set whose members have different numbers for keys.
Keyed(S, key) ==
  /\ IsFiniteSet(S)
  /\ \A x \in S : key[x] \in Int
  /\ \A x, y \in S : key[x] = key[y] => x = y

\* Places are numbers from one to the number of members.
LEMMA PlaceBounds ==
  ASSUME NEW S, NEW key, Keyed(S, key)
  PROVE  /\ Cardinality(S) \in Nat
         /\ \A x \in S : Place(x, S, key) \in 1..Cardinality(S)
<1>1. Cardinality(S) \in Nat
  BY FS_CardinalityType DEF Keyed
<1>2. ASSUME NEW x \in S PROVE Place(x, S, key) \in 1..Cardinality(S)
  <2> DEFINE T == {y \in S : key[y] <= key[x]}
  <2>1. T \in SUBSET S /\ x \in T
    BY DEF Keyed
  <2>2. IsFiniteSet(T) /\ Cardinality(T) <= Cardinality(S) /\ Cardinality(T) \in Nat
    BY <2>1, FS_Subset, FS_CardinalityType, Zenon DEF Keyed
  <2>3. Cardinality(T) # 0
    BY <2>1, <2>2, FS_EmptySet
  <2> HIDE DEF T
  <2>4. Cardinality(T) \in 1..Cardinality(S)
    BY <1>1, <2>2, <2>3
  <2> QED
    BY <2>4 DEF T, Place
<1> QED
  BY <1>1, <1>2

\* Places follow keys.
LEMMA PlaceOrder ==
  ASSUME NEW S, NEW key, Keyed(S, key), NEW x \in S, NEW y \in S
  PROVE  /\ key[x] < key[y] => Place(x, S, key) < Place(y, S, key)
         /\ Place(x, S, key) <= Place(y, S, key) <=> key[x] <= key[y]
         /\ Place(x, S, key) = Place(y, S, key) => x = y
<1>1. ASSUME NEW u \in S, NEW v \in S, key[u] < key[v] PROVE Place(u, S, key) < Place(v, S, key)
  <2> DEFINE U == {z \in S : key[z] <= key[u]}
             V == {z \in S : key[z] <= key[v]}
  <2>1. key[u] \in Int /\ key[v] \in Int /\ \A z \in S : key[z] \in Int
    BY DEF Keyed
  <2>2. V \in SUBSET S /\ U \in SUBSET V /\ v \in V /\ v \notin U
    BY <1>1, <2>1
  <2>3. IsFiniteSet(V) /\ IsFiniteSet(U) /\ Cardinality(V) \in Nat /\ Cardinality(U) \in Nat
    BY <2>2, FS_Subset, FS_CardinalityType, Zenon DEF Keyed
  <2>4. Cardinality(U) <= Cardinality(V) /\ Cardinality(U) # Cardinality(V)
    BY <2>2, <2>3, FS_Subset, Zenon
  <2>5. Place(u, S, key) = Cardinality(U) /\ Place(v, S, key) = Cardinality(V)
    BY DEF Place
  <2> HIDE DEF U, V
  <2> QED
    BY <2>3, <2>4, <2>5
<1>2. key[x] \in Int /\ key[y] \in Int /\ (key[x] = key[y] => x = y)
  BY DEF Keyed
<1>3. Place(x, S, key) \in Int /\ Place(y, S, key) \in Int
  BY PlaceBounds
<1>4. key[x] < key[y] => Place(x, S, key) < Place(y, S, key)
  BY <1>1
<1>5. key[y] < key[x] => Place(y, S, key) < Place(x, S, key)
  BY <1>1
<1> QED
  BY <1>2, <1>3, <1>4, <1>5

\* Each place is taken.
LEMMA PlaceOnto ==
  ASSUME NEW S, NEW key, Keyed(S, key), NEW k \in 1..Cardinality(S)
  PROVE  \E x \in S : Place(x, S, key) = k
<1> DEFINE n == Cardinality(S)
           f == [x \in S |-> Place(x, S, key)]
<1>1. n \in Nat /\ \A x \in S : Place(x, S, key) \in 1..n
  BY PlaceBounds
<1>2. 1 \in Int /\ n \in Int
  BY <1>1
<1>3. IsFiniteSet(1..n) /\ Cardinality(1..n) = IF 1 > n THEN 0 ELSE n - 1 + 1
  BY <1>2, FS_Interval, Zenon
<1>4. Cardinality(1..n) = n
  BY <1>1, <1>3
<1>5. f \in [S -> 1..n]
  BY <1>1
<1>6. \A x, y \in S : Place(x, S, key) = Place(y, S, key) => x = y
  BY PlaceOrder
<1>7. f \in Injection(S, 1..n)
  BY <1>5, <1>6 DEF Injection, IsInjective
<1>8. IsFiniteSet(S)
  BY DEF Keyed
<1> HIDE DEF n
<1>9. f \in Surjection(S, 1..n)
  <2> HIDE DEF f
  <2>1. Cardinality(S) = Cardinality(1..n)
    BY <1>4 DEF n
  <2> QED
    BY <1>3, <1>7, <1>8, <2>1, FS_Injection
<1>10. \A j \in 1..n : \E x \in S : f[x] = j
  BY <1>9 DEF Surjection
<1> QED
  BY <1>10 DEF n

\* InOrder has every member once.
LEMMA Ordered ==
  ASSUME NEW S, NEW key, Keyed(S, key)
  PROVE  /\ InOrder(S, key) \in Seq(S)
         /\ ToSet(InOrder(S, key)) = S
         /\ \A i, j \in DOMAIN InOrder(S, key) : InOrder(S, key)[i] = InOrder(S, key)[j] => i = j
<1> DEFINE n == Cardinality(S)
           s == InOrder(S, key)
<1>1. n \in Nat
  BY PlaceBounds
<1>2. \A k \in 1..n : s[k] \in S /\ Place(s[k], S, key) = k
  <2> TAKE k \in 1..n
  <2>1. \E x \in S : Place(x, S, key) = k
    BY PlaceOnto
  <2>2. s[k] = CHOOSE x \in S : Place(x, S, key) = k
    BY Zenon DEF InOrder
  <2> HIDE DEF s
  <2> QED
    BY <2>1, <2>2, Zenon
<1>3. DOMAIN s = 1..n
  BY DEF InOrder
<1>4. s = [k \in 1..n |-> s[k]]
  BY DEF InOrder
<1>5. s \in [1..n -> S]
  <2> HIDE DEF s
  <2> QED
    BY <1>2, <1>4
<1>6. s \in Seq(S)
  BY <1>1, <1>5
<1>7. ASSUME NEW x \in S PROVE \E k \in DOMAIN s : s[k] = x
  <2>1. Place(x, S, key) \in 1..n
    BY PlaceBounds
  <2>2. Place(s[Place(x, S, key)], S, key) = Place(x, S, key) /\ s[Place(x, S, key)] \in S
    BY <1>2, <2>1
  <2>3. s[Place(x, S, key)] = x
    BY <2>2, PlaceOrder
  <2> QED
    BY <1>3, <2>1, <2>3
<1>8. ToSet(s) = S
  BY <1>2, <1>3, <1>7, Zenon DEF ToSet
<1>9. \A i, j \in DOMAIN s : s[i] = s[j] => i = j
  <2> HIDE DEF s, n
  <2> QED
    BY <1>2, <1>3
<1> QED
  BY <1>6, <1>8, <1>9

\* A page has room.
LEMMA Limit == PageLimit \in Nat \ {0}
BY RemoteAssumption

\* A page is no longer than the limit, and full if there is more.
LEMMA WindowSize ==
  ASSUME NEW S, NEW key, Keyed(S, key), NEW c \in Nat \ {0}
  PROVE  /\ Window(S, key, c) \subseteq S
         /\ \A x \in S : Place(x, S, key) >= c /\ Place(x, S, key) < c + PageLimit => x \in Window(S, key, c)
         /\ Cardinality(Window(S, key, c)) \in 0..PageLimit
         /\ \A x \in S : Place(x, S, key) >= c + PageLimit => Cardinality(Window(S, key, c)) = PageLimit
         /\ \A x \in S : Place(x, S, key) >= c => Window(S, key, c) # {}
<1> USE Limit
<1> DEFINE W == Window(S, key, c)
           R == c .. (c + PageLimit - 1)
           f == [x \in W |-> Place(x, S, key)]
<1>1. W \in SUBSET S /\ \A x \in S : x \in W <=> Place(x, S, key) \in R
  BY DEF Window
<1>2. c \in Int /\ c + PageLimit - 1 \in Int
  OBVIOUS
<1>3. IsFiniteSet(R) /\ Cardinality(R) = PageLimit
  <2> DEFINE b == c + PageLimit - 1
  <2>1. b \in Int /\ c <= b /\ b - c + 1 = PageLimit
    OBVIOUS
  <2>2. c \in Int /\ b \in Int
    BY <1>2
  <2> HIDE DEF b
  <2>3. IsFiniteSet(c..b) /\ Cardinality(c..b) = IF c > b THEN 0 ELSE b - c + 1
    BY <2>2, FS_Interval, Zenon
  <2>4. Cardinality(c..b) = PageLimit
    BY <2>1, <2>2, <2>3
  <2> QED
    BY <2>3, <2>4 DEF b
<1>4. IsFiniteSet(S) /\ IsFiniteSet(W) /\ Cardinality(W) \in Nat
  BY <1>1, FS_Subset, FS_CardinalityType, Zenon DEF Keyed
<1>5. f \in Injection(W, R)
  <2>1. f \in [W -> R]
    BY <1>1
  <2>2. \A x, y \in W : Place(x, S, key) = Place(y, S, key) => x = y
    BY <1>1, PlaceOrder
  <2> QED
    BY <2>1, <2>2 DEF Injection, IsInjective
<1>6. /\ Cardinality(W) <= Cardinality(R)
      /\ Cardinality(W) = Cardinality(R) <=> f \in Surjection(W, R)
  <2> HIDE DEF f, W, R
  <2> QED
    BY <1>3, <1>5, FS_Injection
<1>7. ASSUME NEW x \in S, Place(x, S, key) >= c
      PROVE  W # {} /\ (Place(x, S, key) >= c + PageLimit => Cardinality(W) = PageLimit)
  <2>1. Place(x, S, key) \in 1..Cardinality(S) /\ Cardinality(S) \in Nat
    BY PlaceBounds
  <2>2. c \in 1..Cardinality(S)
    BY <1>7, <2>1
  <2>3. PICK y \in S : Place(y, S, key) = c
    BY <2>2, PlaceOnto
  <2>4. c \in R
    OBVIOUS
  <2>5. y \in W
    BY <1>1, <2>3, <2>4
  <2>6. ASSUME Place(x, S, key) >= c + PageLimit PROVE Cardinality(W) = PageLimit
    <3>1. ASSUME NEW k \in R PROVE \E z \in W : f[z] = k
      <4>1. k \in 1..Cardinality(S)
        BY <2>1, <2>6
      <4>2. PICK z \in S : Place(z, S, key) = k
        BY <4>1, PlaceOnto
      <4>3. z \in W
        BY <1>1, <3>1, <4>2
      <4> QED
        BY <4>2, <4>3
    <3>2. f \in [W -> R]
      BY <1>5 DEF Injection
    <3>3. f \in Surjection(W, R)
      <4> HIDE DEF f, W, R
      <4> QED
        BY <3>1, <3>2, Zenon DEF Surjection
    <3> HIDE DEF f, W, R
    <3> QED
      BY <1>3, <1>6, <3>3
  <2> QED
    BY <2>5, <2>6
<1>8. Cardinality(W) \in 0..PageLimit
  <2> HIDE DEF f, W, R
  <2> QED
    BY <1>3, <1>4, <1>6
<1>9. \A x \in S : Place(x, S, key) >= c /\ Place(x, S, key) < c + PageLimit => x \in W
  <2>1. \A x \in S : Place(x, S, key) \in Nat
    BY PlaceBounds
  <2> QED
    BY <1>1, <2>1
<1> HIDE DEF W, R, f
<1>10. /\ W \subseteq S
       /\ \A x \in S : Place(x, S, key) >= c + PageLimit => Cardinality(W) = PageLimit
       /\ \A x \in S : Place(x, S, key) >= c => W # {}
  <2>1. \A x \in S : Place(x, S, key) \in Nat
    BY PlaceBounds
  <2> QED
    BY <1>1, <1>7, <2>1
<1> QED
  BY <1>8, <1>9, <1>10 DEF W

-----------------------------------------------------------------------------
(* Pages: what comes up to the next cursor is on them.                      *)

\* Ranks are numbers from one on.
LEMMA Ranks == Rank \in [Docs -> Nat \ {0}]
BY RemoteAssumption

\* Pages by offset hold what lies between two cursors.
LEMMA OffsetPage ==
  ASSUME NEW S, Keyed(S, Rank), NEW c \in Nat \ {0}
  PROVE  LET page == ByOffset(S, c)
         IN  /\ page.items \subseteq S
             /\ page.next \in Nat
             /\ \A d \in S : Place(d, S, Rank) >= c /\ (page.next = End \/ Place(d, S, Rank) < page.next)
                               => d \in page.items
<1> USE Limit
<1> DEFINE W == Window(S, Rank, c)
           next == IF Cardinality(W) < PageLimit THEN End ELSE c + Cardinality(W)
<1>1. ByOffset(S, c).items = W /\ ByOffset(S, c).next = next
  BY DEF ByOffset
<1>2. /\ W \subseteq S /\ Cardinality(W) \in 0..PageLimit
      /\ \A x \in S : Place(x, S, Rank) >= c + PageLimit => Cardinality(W) = PageLimit
  BY WindowSize
<1>3. \A x \in S : Place(x, S, Rank) \in Nat
  BY PlaceBounds
<1>4. \A x \in S : Place(x, S, Rank) >= c /\ Place(x, S, Rank) < c + PageLimit => x \in W
  BY <1>3 DEF Window
<1> HIDE DEF W
<1>5. \A d \in S : Place(d, S, Rank) >= c /\ (next = End \/ Place(d, S, Rank) < next) => d \in W
  BY <1>2, <1>3, <1>4 DEF End
<1>6. next \in Nat
  BY <1>2 DEF End
<1> HIDE DEF next
<1> QED
  BY <1>1, <1>2, <1>5, <1>6, Zenon

\* So do those of a search.
LEMMA SearchPage ==
  ASSUME Keyed(remote, recent), NEW c \in Nat \ {0}
  PROVE  LET page == Search(c)
         IN  /\ page.items \subseteq remote
             /\ page.next \in Nat
             /\ \A d \in remote : (/\ Place(d, remote, recent) >= c
                                   /\ page.next = End \/ Place(d, remote, recent) < page.next)
                                  => d \in page.items
<1> USE Limit
<1> DEFINE W == Window(remote, recent, c)
           n == Cardinality(W)
           all == Cardinality(remote)
           next == IF W = {} \/ c - 1 + n >= all THEN End ELSE c - 1 + n + 1
<1>1. Search(c).items = W /\ Search(c).next = next
  BY DEF Search
<1>2. /\ W \subseteq remote /\ n \in 0..PageLimit
      /\ \A x \in remote : Place(x, remote, recent) >= c + PageLimit => n = PageLimit
      /\ \A x \in remote : Place(x, remote, recent) >= c => W # {}
      /\ \A x \in remote : Place(x, remote, recent) >= c /\ Place(x, remote, recent) < c + PageLimit
                             => x \in W
  BY WindowSize, Zenon
<1>3. all \in Nat /\ \A x \in remote : Place(x, remote, recent) \in 1..all
  BY PlaceBounds
<1> HIDE DEF W, n, all
<1>5. \A d \in remote : /\ Place(d, remote, recent) >= c
                        /\ next = End \/ Place(d, remote, recent) < next
                        => d \in W
  BY <1>2, <1>3 DEF End
<1>6. next \in Nat
  BY <1>2, <1>3 DEF End
<1> HIDE DEF next
<1> QED
  BY <1>1, <1>2, <1>5, <1>6, Zenon

\* So do those of a tree of GitLab, whose cursor counts pages.
LEMMA TreePage ==
  ASSUME NEW i, Keyed(Tree(i), Rank), NEW c \in Nat \ {0}
  PROVE  LET page == IterTree(i, c)
         IN  /\ page.items \subseteq Tree(i)
             /\ page.next \in {End, c + 1}
             /\ \A d \in Tree(i) :
                  (/\ Place(d, Tree(i), Rank) > (c - 1) * PageLimit
                   /\ page.next = End \/ Place(d, Tree(i), Rank) <= (c + 1 - 1) * PageLimit)
                  => d \in page.items
<1> USE Limit
<1> DEFINE S == Tree(i)
           a == (c - 1) * PageLimit + 1
           W == Window(S, Rank, a)
           next == IF Cardinality(W) < PageLimit THEN End ELSE c + 1
<1>1. IterTree(i, c).items = W /\ IterTree(i, c).next = next
  BY DEF IterTree
<1>2. a \in Nat \ {0} /\ a + PageLimit = c * PageLimit + 1
  <2> DEFINE m == (c - 1) * PageLimit
  <2>1. m \in Nat
    OBVIOUS
  <2>2. m + PageLimit = c * PageLimit
    OBVIOUS
  <2>3. a = m + 1
    OBVIOUS
  <2> HIDE DEF m, a
  <2> QED
    BY <2>1, <2>2, <2>3
<1>3. c + 1 - 1 = c /\ c * PageLimit \in Nat
  OBVIOUS
<1> HIDE DEF a
<1>4. /\ W \subseteq S /\ Cardinality(W) \in 0..PageLimit
      /\ \A x \in S : Place(x, S, Rank) >= a + PageLimit => Cardinality(W) = PageLimit
  BY <1>2, WindowSize
<1>5. \A x \in S : Place(x, S, Rank) \in Nat
  BY PlaceBounds
<1>6. \A x \in S : Place(x, S, Rank) >= a /\ Place(x, S, Rank) < a + PageLimit => x \in W
  BY <1>2, <1>5 DEF Window
<1>7. \A x \in S : Place(x, S, Rank) > (c - 1) * PageLimit => Place(x, S, Rank) >= a
  <2>1. (c - 1) * PageLimit \in Int
    OBVIOUS
  <2> QED
    BY <2>1, <1>5 DEF a
<1> HIDE DEF W, S
<1>8. \A d \in S : Place(d, S, Rank) >= a /\ (next = End \/ Place(d, S, Rank) <= c * PageLimit) => d \in W
  BY <1>2, <1>3, <1>4, <1>5, <1>6 DEF End
<1>9. next \in {End, c + 1}
  OBVIOUS
<1> HIDE DEF next
<1> QED
  BY <1>1, <1>3, <1>4, <1>7, <1>8, <1>9 DEF S

\* A page by token holds what lies between two ranks, and the next begins after it.
LEMMA ResumedPage ==
  ASSUME NEW S \in SUBSET Docs, Keyed(S, Rank), NEW c \in Nat \ {0}
  PROVE  LET page == Resume(S, c)
         IN  /\ page.items \subseteq S
             /\ page.next \in Nat
             /\ \A d \in page.items : Rank[d] >= c /\ (page.next # End => Rank[d] < page.next)
             /\ page.next # End => page.next > c
             /\ \A d \in S : Rank[d] >= c /\ (page.next = End \/ Rank[d] < page.next) => d \in page.items
<1> USE Limit, Ranks
<1> DEFINE rest == {d \in S : Rank[d] >= c}
           W == Window(rest, Rank, 1)
           last == CHOOSE d \in rest : Place(d, rest, Rank) = PageLimit
           next == IF Cardinality(rest) <= PageLimit THEN End ELSE Rank[last] + 1
<1>1. Resume(S, c).items = W /\ Resume(S, c).next = next
  BY DEF Resume
<1>2. rest \subseteq S /\ Keyed(rest, Rank)
  <2>1. rest \in SUBSET S
    OBVIOUS
  <2>2. IsFiniteSet(rest)
    BY <2>1, FS_Subset, Zenon DEF Keyed
  <2> QED
    BY <2>1, <2>2 DEF Keyed
<1>3. \A d \in S : Rank[d] \in Nat \ {0}
  OBVIOUS
<1>4. \A d \in rest : d \in S /\ Rank[d] >= c
  OBVIOUS
<1>5. \A d \in S : Rank[d] >= c => d \in rest
  OBVIOUS
<1> HIDE DEF rest
<1>6. /\ Cardinality(rest) \in Nat
      /\ \A d \in rest : Place(d, rest, Rank) \in 1..Cardinality(rest)
  BY <1>2, PlaceBounds
<1>7. /\ W \subseteq rest
      /\ \A d \in rest : d \in W <=> Place(d, rest, Rank) <= PageLimit
  BY <1>6 DEF Window
<1> HIDE DEF W
<1>8. CASE Cardinality(rest) <= PageLimit
  <2>1. next = End
    BY <1>8
  <2>2. rest = W
    <3>1. \A d \in rest : d \in W
      BY <1>6, <1>7, <1>8
    <3> QED
      BY <1>7, <3>1
  <2> HIDE DEF next
  <2> QED
    BY <1>1, <1>2, <1>4, <1>5, <2>1, <2>2 DEF End
<1>9. CASE Cardinality(rest) > PageLimit
  <2>1. next = Rank[last] + 1
    BY <1>6, <1>9
  <2>2. PageLimit \in 1..Cardinality(rest)
    BY <1>6, <1>9
  <2>3. \E d \in rest : Place(d, rest, Rank) = PageLimit
    BY <1>2, <2>2, PlaceOnto
  <2>4. last \in rest /\ Place(last, rest, Rank) = PageLimit
    BY <2>3, Zenon
  <2> HIDE DEF last, next
  <2>5. \A d \in rest : Place(d, rest, Rank) <= PageLimit <=> Rank[d] <= Rank[last]
    BY <1>2, <2>4, PlaceOrder
  <2>6. Rank[last] \in Nat /\ Rank[last] >= c
    BY <1>2, <1>3, <1>4, <2>4
  <2> QED
    BY <1>1, <1>2, <1>3, <1>4, <1>5, <1>7, <2>1, <2>5, <2>6 DEF End
<1> QED
  BY <1>6, <1>8, <1>9

-----------------------------------------------------------------------------
(* What an edit does to places.                                             *)

\* Where nothing leaves, nothing moves towards the front.
LEMMA NoneShifts ==
  ASSUME NEW S, NEW key, NEW T, NEW new, IsFiniteSet(T), NEW d \in S,
         \A x \in S : key[x] <= key[d] => x \in T /\ new[x] <= new[d]
  PROVE  Place(d, S, key) <= Place(d, T, new)
<1> DEFINE A == {y \in S : key[y] <= key[d]}
           B == {y \in T : new[y] <= new[d]}
<1>1. A \in SUBSET B /\ B \in SUBSET T
  OBVIOUS
<1>2. IsFiniteSet(B)
  BY <1>1, FS_Subset, Zenon
<1>3. Cardinality(A) <= Cardinality(B)
  BY <1>1, <1>2, FS_Subset, Zenon
<1> QED
  BY <1>3 DEF Place

\* Where one leaves, one at most comes before a cursor.
LEMMA OneShifts ==
  ASSUME NEW S, NEW key, Keyed(S, key), NEW T, IsFiniteSet(T), NEW x, S \ {x} \subseteq T, NEW c \in Int
  PROVE  \E y : \A d \in S : Place(d, T, key) < c /\ d # y => Place(d, S, key) < c
<1>1. \A d \in S : Place(d, S, key) \in Nat
  BY PlaceBounds
<1>2. ASSUME NEW d \in S PROVE Place(d, T, key) \in Nat /\ Place(d, S, key) <= Place(d, T, key) + 1
  <2> DEFINE A == {y \in S : key[y] <= key[d]}
             B == {y \in T : key[y] <= key[d]}
  <2>1. A \in SUBSET S /\ B \in SUBSET T /\ A \ {x} \in SUBSET B
    OBVIOUS
  <2>2. IsFiniteSet(A) /\ IsFiniteSet(B)
    BY <2>1, FS_Subset, Zenon DEF Keyed
  <2>3. Cardinality(A \ {x}) <= Cardinality(B)
    BY <2>1, <2>2, FS_Subset, Zenon
  <2>4. Cardinality(A \ {x}) = IF x \in A THEN Cardinality(A) - 1 ELSE Cardinality(A)
    BY <2>2, FS_RemoveElement, Zenon
  <2>5. Cardinality(A) \in Nat /\ Cardinality(B) \in Nat
    BY <2>2, FS_CardinalityType
  <2>6. Place(d, S, key) = Cardinality(A) /\ Place(d, T, key) = Cardinality(B)
    BY DEF Place
  <2> HIDE DEF A, B
  <2> QED
    BY <2>3, <2>4, <2>5, <2>6
<1> DEFINE y == CHOOSE y \in S : Place(y, S, key) = c
<1>3. ASSUME NEW d \in S, Place(d, T, key) < c, d # y PROVE Place(d, S, key) < c
  <2>1. Place(d, S, key) <= c
    BY <1>1, <1>2, <1>3
  <2>2. ASSUME Place(d, S, key) = c PROVE FALSE
    <3>1. y \in S /\ Place(y, S, key) = c
      BY <2>2
    <3>2. d = y
      BY <2>2, <3>1, PlaceOrder
    <3> QED
      BY <1>3, <3>2
  <2> QED
    BY <1>1, <2>1, <2>2
<1> HIDE DEF y
<1> QED
  BY <1>3

-----------------------------------------------------------------------------
(* Listings, as sequences of entries.                                       *)

\* No document is there twice.
Once(s) == \A i, j \in DOMAIN s : s[i].doc = s[j].doc => i = j

\* Documents are ordered by their ranks.
LEMMA DocsKeyed ==
  ASSUME NEW S \in SUBSET Docs
  PROVE  Keyed(S, Rank) /\ IsFiniteSet(S)
<1>1. IsFiniteSet(S)
  BY RemoteAssumption, FS_Subset, Zenon
<1>2. \A d, e \in Docs : Rank[d] = Rank[e] => d = e
  BY RemoteAssumption
<1> QED
  BY <1>1, <1>2, Ranks DEF Keyed

\* The documents of a set of entries.
LEMMA DocOfEntry ==
  ASSUME NEW S \in SUBSET Entry
  PROVE  /\ DocsOf(S) \subseteq Docs
         /\ \A e \in S : e.doc \in DocsOf(S)
         /\ \A d \in DocsOf(S) : \E e \in S : e.doc = d
BY DEF DocsOf, Entry

\* The documents of a listing, place by place.
LEMMA DocsOfSeq ==
  ASSUME NEW s \in Seq(Entry)
  PROVE  /\ ToSet(s) \in SUBSET Entry
         /\ \A i \in DOMAIN s : s[i].doc \in DocsOf(ToSet(s))
         /\ \A d \in DocsOf(ToSet(s)) : \E i \in DOMAIN s : s[i].doc = d
<1>1. \A i \in DOMAIN s : s[i] \in Entry
  OBVIOUS
<1>2. ToSet(s) \in SUBSET Entry
  BY <1>1 DEF ToSet
<1> QED
  BY <1>2, Zenon DEF ToSet, DocsOf

\* The entries of a sequence of documents.
LEMMA EntriesOf ==
  ASSUME rev \in [Docs -> 0..MaxEdits], NEW s \in Seq(Docs)
  PROVE  /\ Entries(s) \in Seq(Entry)
         /\ DOMAIN Entries(s) = DOMAIN s
         /\ \A i \in DOMAIN s : Entries(s)[i] = Now(s[i]) /\ Entries(s)[i].doc = s[i]
<1>1. \A d \in Docs : Now(d) \in Entry /\ Now(d).doc = d
  BY DEF Now, Entry
<1>2. Entries(s) = [i \in 1..Len(s) |-> Now(s[i])] /\ DOMAIN s = 1..Len(s) /\ Len(s) \in Nat
  BY DEF Entries
<1>3. \A i \in 1..Len(s) : s[i] \in Docs
  OBVIOUS
<1>4. Entries(s) \in [1..Len(s) -> Entry]
  BY <1>1, <1>2, <1>3
<1> QED
  BY <1>1, <1>2, <1>3, <1>4

\* What a page adds to a listing.
LEMMA Appended ==
  ASSUME rev \in [Docs -> 0..MaxEdits], NEW t \in Seq(Entry),
         NEW S \in SUBSET Docs, NEW key, Keyed(S, key)
  PROVE  LET s == t \o Entries(InOrder(S, key))
         IN  /\ s \in Seq(Entry)
             /\ DocsOf(ToSet(s)) = DocsOf(ToSet(t)) \cup S
             /\ Once(t) /\ S \cap DocsOf(ToSet(t)) = {} => Once(s)
<1> DEFINE o == InOrder(S, key)
           u == Entries(o)
           s == t \o u
<1>1. /\ o \in Seq(S) /\ ToSet(o) = S
      /\ \A i, j \in DOMAIN o : o[i] = o[j] => i = j
  BY Ordered
<1>2. o \in Seq(Docs)
  BY <1>1
<1> HIDE DEF o
<1>3. u \in Seq(Entry) /\ DOMAIN u = DOMAIN o /\ \A i \in DOMAIN o : u[i].doc = o[i]
  BY <1>2, EntriesOf
<1> HIDE DEF u
<1>4. Len(u) = Len(o) /\ DOMAIN o = 1..Len(o) /\ Len(o) \in Nat /\ Len(t) \in Nat
  BY <1>2, <1>3
<1>5. /\ s \in Seq(Entry) /\ Len(s) = Len(t) + Len(u)
      /\ \A i \in 1..Len(s) : s[i] = IF i <= Len(t) THEN t[i] ELSE u[i - Len(t)]
  BY <1>3
<1> HIDE DEF s
<1>6. DOMAIN s = 1..Len(s) /\ DOMAIN t = 1..Len(t)
  BY <1>5
<1>7. \A d \in DocsOf(ToSet(s)) : d \in DocsOf(ToSet(t)) \cup S
  <2> TAKE d \in DocsOf(ToSet(s))
  <2>1. PICK i \in DOMAIN s : s[i].doc = d
    BY <1>5, DocsOfSeq
  <2>2. CASE i <= Len(t)
    BY <1>4, <1>5, <1>6, <2>1, <2>2, DocsOfSeq
  <2>3. CASE i > Len(t)
    <3>1. i - Len(t) \in DOMAIN o /\ s[i].doc = o[i - Len(t)]
      BY <1>3, <1>4, <1>5, <1>6, <2>1, <2>3
    <3> QED
      BY <1>1, <2>1, <3>1 DEF ToSet
  <2> QED
    BY <1>4, <1>6, <2>1, <2>2, <2>3
<1>8. \A d \in DocsOf(ToSet(t)) : d \in DocsOf(ToSet(s))
  <2> TAKE d \in DocsOf(ToSet(t))
  <2>1. PICK i \in DOMAIN t : t[i].doc = d
    BY DocsOfSeq
  <2>2. i \in DOMAIN s /\ s[i].doc = d
    BY <1>4, <1>5, <1>6, <2>1
  <2> QED
    BY <1>5, <2>2, DocsOfSeq
<1>9. \A d \in S : d \in DocsOf(ToSet(s))
  <2> TAKE d \in S
  <2>1. PICK i \in DOMAIN o : o[i] = d
    BY <1>1 DEF ToSet
  <2>2. i + Len(t) \in DOMAIN s /\ s[i + Len(t)] = u[i]
    BY <1>4, <1>5, <1>6, <2>1
  <2>3. s[i + Len(t)].doc = d
    BY <1>3, <2>1, <2>2
  <2> QED
    BY <1>5, <2>2, <2>3, DocsOfSeq
<1>10. ASSUME Once(t), S \cap DocsOf(ToSet(t)) = {} PROVE Once(s)
  <2>1. ASSUME NEW k \in DOMAIN s, k > Len(t)
        PROVE  k - Len(t) \in DOMAIN o /\ s[k].doc = o[k - Len(t)] /\ s[k].doc \in S
    <3>1. k - Len(t) \in DOMAIN o /\ s[k] = u[k - Len(t)]
      BY <1>4, <1>5, <1>6, <2>1
    <3>2. s[k].doc = o[k - Len(t)]
      BY <1>3, <3>1
    <3>3. o[k - Len(t)] \in ToSet(o)
      BY <3>1 DEF ToSet
    <3> QED
      BY <1>1, <3>1, <3>2, <3>3
  <2>2. \A k \in DOMAIN s : k <= Len(t) => k \in DOMAIN t /\ s[k] = t[k] /\ s[k].doc \in DocsOf(ToSet(t))
    BY <1>4, <1>5, <1>6, DocsOfSeq
  <2>6. ASSUME NEW i \in DOMAIN s, NEW j \in DOMAIN s, s[i].doc = s[j].doc, i < j PROVE FALSE
    <3>1. CASE j <= Len(t)
      BY <1>4, <1>6, <1>10, <2>2, <2>6, <3>1 DEF Once
    <3>2. CASE j > Len(t) /\ i <= Len(t)
      BY <1>10, <2>1, <2>2, <2>6, <3>2
    <3>3. CASE i > Len(t)
      <4>1. o[i - Len(t)] = o[j - Len(t)] /\ i - Len(t) \in DOMAIN o /\ j - Len(t) \in DOMAIN o
        BY <1>4, <1>6, <2>1, <2>6, <3>3
      <4>2. i - Len(t) = j - Len(t)
        BY <1>1, <4>1
      <4> QED
        BY <1>4, <1>6, <2>6, <4>2
    <3> QED
      BY <1>4, <1>6, <2>6, <3>1, <3>2, <3>3
  <2>7. DOMAIN s \subseteq Int
    BY <1>6
  <2> QED
    BY <2>6, <2>7 DEF Once
<1> QED
  BY <1>5, <1>7, <1>8, <1>9, <1>10 DEF s, u, o

\* The same from the start.
LEMMA FromNothing ==
  ASSUME rev \in [Docs -> 0..MaxEdits], NEW S \in SUBSET Docs
  PROVE  LET s == Entries(ByRank(S))
         IN  s \in Seq(Entry) /\ DocsOf(ToSet(s)) = S /\ Once(s)
<1> DEFINE s == Entries(ByRank(S))
<1>1. Keyed(S, Rank)
  BY DocsKeyed
<1>2. <<>> \in Seq(Entry) /\ DocsOf(ToSet(<<>>)) = {} /\ Once(<<>>)
  BY DEF DocsOf, ToSet, Once
<1>3. s \in Seq(Entry)
  <2>1. InOrder(S, Rank) \in Seq(S)
    BY <1>1, Ordered
  <2>2. InOrder(S, Rank) \in Seq(Docs)
    BY <2>1
  <2> QED
    BY <2>2, EntriesOf DEF ByRank
<1>4. <<>> \o s = s
  BY <1>3
<1>5. LET t == <<>> \o Entries(InOrder(S, Rank))
      IN  /\ t \in Seq(Entry)
          /\ DocsOf(ToSet(t)) = DocsOf(ToSet(<<>>)) \cup S
          /\ Once(<<>>) /\ S \cap DocsOf(ToSet(<<>>)) = {} => Once(t)
  BY <1>1, <1>2, Appended, Zenon
<1> QED
  BY <1>2, <1>3, <1>4, <1>5 DEF ByRank

-----------------------------------------------------------------------------
(* The token, from AccessToken.                                             *)

\* Only the task that holds the lock asks, and it asks only when there is no good token.
Locked ==
  /\ holder # Nobody => step[holder] = "ask" /\ age # "good"
  /\ \A t \in Tasks : step[t] = "ask" => holder = t

\* How often a request has been sent, and with what.
Attempts ==
  \A t \in Tasks :
    /\ step[t] \in {"idle", "ensure", "ask"} => attempt[t] = 0
    /\ step[t] \in {"sent", "sleep", "refused"} => attempt[t] > 0
    /\ step[t] = "sleep" => attempt[t] < MaxAttempts
    /\ attempt[t] = 1 => carried[t] = "good" /\ step[t] # "refused"

\* Every call was refused, or granted a token that is good or went stale, or is under way.
Accounted == calls = stales + denied + IF age = "good" \/ holder # Nobody THEN 1 ELSE 0

\* The invariant of the token.
TInv == TokenTypeOK /\ Locked /\ Attempts /\ Accounted

\* It holds at the start.
LEMMA TokenInitially == TokenInit => TInv
BY TokenAssumption DEF TokenInit, TInv, TokenTypeOK, Locked, Attempts, Accounted, Ages, Steps

\* Every step of the protocol keeps it.
LEMMA TokenInductive == TInv /\ [TokenNext]_tokenVars => TInv'
<1> USE TokenAssumption DEF TInv, TokenTypeOK, Locked, Attempts, Accounted, Ages, Steps, Usable
<1> SUFFICES ASSUME TInv, [TokenNext]_tokenVars PROVE TInv'
  OBVIOUS
<1>1. CASE Lapse
  BY <1>1 DEF Lapse
<1>2. ASSUME NEW t \in Tasks, Begin(t) PROVE TInv'
  BY <1>2 DEF Begin
<1>3. ASSUME NEW t \in Tasks, Ensure(t) PROVE TInv'
  BY <1>3 DEF Ensure, Send
<1>4. ASSUME NEW t \in Tasks, Granted(t) PROVE TInv'
  BY <1>4 DEF Granted, Send
<1>5. ASSUME NEW t \in Tasks, Resend(t) PROVE TInv'
  BY <1>5 DEF Resend, Send
<1>6. ASSUME NEW t \in Tasks, Retry(t) PROVE TInv'
  BY <1>6 DEF Retry
<1>7. ASSUME NEW t \in Tasks, Denied(t) PROVE TInv'
  BY <1>7 DEF Denied
<1>8. ASSUME NEW t \in Tasks, Finish(t) PROVE TInv'
  BY <1>8 DEF Finish
<1>9. CASE UNCHANGED tokenVars
  BY <1>9 DEF tokenVars
<1> QED
  BY <1>1, <1>2, <1>3, <1>4, <1>5, <1>6, <1>7, <1>8, <1>9 DEF TokenNext, TokenStep

\* Documents, and the listing, are tasks.
LEMMA Tasked == Main \in Tasks /\ \A x \in Docs : x \in Tasks
BY ConnectorAssumption

-----------------------------------------------------------------------------
(* What the steps of a run are, apart from the token.                       *)

\* The token moves, or SharePoint has named a download URL, or nothing happens.
Still == located' \in SUBSET Docs /\ UNCHANGED <<opt, phase, listVars, listed, want, todo, arts, remoteVars>>

\* A step that drops everything.
Breaks == Broken /\ UNCHANGED <<opt, remoteVars>>

\* Listings by a continuation token.
ByToken == opt.kind \in {"s3", "notion", "gdrive", "sharepoint"}

\* A page of such a listing.
Resumes ==
  /\ ByToken /\ Listing
  /\ \E S \in SUBSET remote :
       /\ \A d \in remote : Wanted(d) => d \in S
       /\ Page(Resume(S, cursor))
  /\ UNCHANGED <<Unlisted, opt, remoteVars>>

\* Requests that yield no documents.
FindsDrive ==
  /\ opt.kind = "sharepoint" /\ Listing /\ drive < 2
  /\ drive' = drive + 1
  /\ UNCHANGED <<opt, phase, cursor, items, queue, seen, projects, resolved, left, cut, fetchVars, remoteVars>>

\* A download that ends well, or leaves its document out.
Loads(e) ==
  /\ phase = "download" /\ e \in todo
  /\ todo' = todo \ {e}
  /\ located' \in SUBSET Docs
  /\ \/ arts' = arts /\ (FetchOne(e) = Skip \/ Withheld(e.doc))
     \/ arts' = arts \cup {FetchOne(e)} /\ FetchOne(e) \notin {Skip, Error}
  /\ UNCHANGED <<opt, phase, listVars, listed, want, remoteVars>>

\* What a run does when no documents are left to be downloaded, or none are to be.
Ends ==
  /\ phase = "listed" \/ (phase = "download" /\ todo = {})
  /\ phase' = "done"
  /\ UNCHANGED <<opt, listVars, fetchVars, remoteVars>>

\* The steps of a listing.
Lists ==
  \/ ConfluenceSpace \/ ConfluenceRoot \/ ConfluenceChildren \/ Jira
  \/ GitlabProjects \/ GitlabTree \/ GitlabDone \/ Github \/ Resumes \/ FindsDrive
  \/ FsDiscover \/ UrlList \/ Provider \/ NoneList \/ Probe

\* The steps of a run, or of the service, that are not only the token's.
Moves == Breaks \/ RemoteEdit \/ Choose \/ Ends \/ Lists \/ \E e \in todo : Loads(e)

\* What a listing by token goes through holds all that is wanted.
LEMMA EveryPool ==
  /\ InPart \in SUBSET remote /\ remote \in SUBSET remote
  /\ opt.kind \in {"s3", "gdrive"} => \A d \in remote : Wanted(d) => d \in InPart
BY DEF InPart, Wanted

\* The steps of a listing keep to the protocol of the token.
LEMMA EveryListStep ==
  ASSUME ListStep
  PROVE  Lists /\ [TokenNext]_tokenVars
<1>1. CASE S3
  BY <1>1, EveryPool DEF S3, Lists, Resumes, ByToken, ListObjects, Plain
<1>2. CASE Notion
  BY <1>2, EveryPool DEF Notion, Lists, Resumes, ByToken, ListPages, Plain
<1>3. CASE Gdrive
  BY <1>3, EveryPool, Tasked DEF Gdrive, Lists, Resumes, ByToken, ListFiles, TokenNext
<1>4. CASE Sharepoint
  BY <1>4, EveryPool, Tasked DEF Sharepoint, Lists, Resumes, ByToken, Delta, TokenNext
<1>5. CASE SharepointDrive
  BY <1>5, Tasked DEF SharepointDrive, Lists, FindsDrive, TokenNext
<1>6. CASE ConfluenceSpace \/ ConfluenceRoot \/ ConfluenceChildren \/ Jira
  BY <1>6 DEF Lists, ConfluenceSpace, ConfluenceRoot, ConfluenceChildren, Jira, Plain
<1>7. CASE GitlabProjects \/ GitlabTree \/ GitlabDone \/ Github
  BY <1>7 DEF Lists, GitlabProjects, GitlabTree, GitlabDone, Github, Plain
<1>8. CASE FsDiscover \/ UrlList \/ Provider \/ NoneList \/ Probe
  BY <1>8 DEF Lists, FsDiscover, UrlList, Provider, NoneList, Probe, Plain
<1> QED
  BY <1>1, <1>2, <1>3, <1>4, <1>5, <1>6, <1>7, <1>8 DEF ListStep

\* So do all steps.
LEMMA EveryStep ==
  ASSUME todo \in SUBSET Entry, located \in SUBSET Docs, [Next]_vars
  PROVE  (Moves \/ Still) /\ [TokenNext]_tokenVars
<1>1. CASE ListStep
  BY <1>1, EveryListStep DEF Moves
<1>2. CASE BeginRequest
  <2>1. Still /\ \E t \in Tasks : Begin(t)
    BY <1>2, Tasked DEF BeginRequest, Still, Entry, fetchVars
  <2> QED
    BY <2>1 DEF TokenNext
<1>3. CASE TokenTurn
  BY <1>3 DEF TokenTurn, Still, TokenNext, fetchVars
<1>4. CASE Choose
  BY <1>4 DEF Choose, Moves
<1>5. CASE ChooseNothing \/ Delivered
  BY <1>5 DEF ChooseNothing, Delivered, Moves, Ends
<1>11. ASSUME NEW e \in todo, SharepointDetail(e) PROVE (Moves \/ Still) /\ [TokenNext]_tokenVars
  <2>1. e.doc \in Docs /\ e.doc \in Tasks
    BY Tasked DEF Entry
  <2>2. Breaks \/ Loads(e) \/ Still
    BY <1>11, <2>1 DEF SharepointDetail, Breaks, Loads, Still, Withheld
  <2>3. [TokenNext]_tokenVars
    BY <1>11, <2>1 DEF SharepointDetail, TokenNext
  <2> QED
    BY <2>2, <2>3 DEF Moves
<1>6. ASSUME NEW e \in todo, Download(e) PROVE (Moves \/ Still) /\ [TokenNext]_tokenVars
  <2>1. Breaks \/ Loads(e)
    <3> DEFINE got == FetchOne(e)
    <3>1. /\ phase = "download" /\ UNCHANGED <<opt, remoteVars>>
          /\ IF got = Error THEN Broken
             ELSE /\ todo' = todo \ {e}
                  /\ located' = located \ {e.doc}
                  /\ arts' = IF got = Skip THEN arts ELSE arts \cup {got}
                  /\ UNCHANGED <<phase, listVars, listed, want>>
      BY <1>6, Zenon DEF Download
    <3> HIDE DEF got
    <3>2. CASE got = Error
      BY <3>1, <3>2 DEF Breaks
    <3>3. CASE got # Error
      BY <3>1, <3>3 DEF Loads, got
    <3> QED
      BY <3>2, <3>3
  <2>2. e.doc \in Tasks
    BY Tasked DEF Entry
  <2>3. [TokenNext]_tokenVars
    BY <1>6, <2>2 DEF Download, TokenNext
  <2> QED
    BY <2>1, <2>3 DEF Moves
<1>7. CASE Fail
  BY <1>7 DEF Fail, Breaks, Moves, TokenNext
<1>8. CASE RemoteEdit
  BY <1>8 DEF RemoteEdit, Moves
<1>9. CASE TimePasses
  BY <1>9 DEF TimePasses, Still, TokenNext, fetchVars
<1>10. CASE UNCHANGED vars
  BY <1>10 DEF vars, Still, fetchVars
<1> QED
  BY <1>1, <1>2, <1>3, <1>4, <1>5, <1>6, <1>7, <1>8, <1>9, <1>10, <1>11 DEF Next, Work

-----------------------------------------------------------------------------
(* Types, and what the phases leave unset.                                  *)

\* The walk of a page tree, and the documents listed.
Walk == opt.kind = "confluence" /\ Part
Got == DocsOf(ToSet(items))

\* Revisions and places of change are as old as the edits.
Dated ==
  /\ \A d \in Docs : rev[d] <= edits /\ recent[d] > 0 - edits
  /\ \A d, e \in Docs : recent[d] = recent[e] => d = e
  /\ removed <= edits

\* What the phases leave unset.
Control ==
  /\ Listing => cursor # End
  /\ (opt.kind = "provider" /\ Listing) => cursor \in {1, 2}
  /\ phase \in {"list", "probe", "listed"} => ~opt.full /\ want = {}
  /\ phase \notin {"download", "done"} => arts = {}
  /\ phase \notin {"probe", "download"} => todo = {}
  /\ phase = "probe" => /\ opt.kind \in {"fs", "url"}
                        /\ Once(items)
                        /\ \A e, f \in todo : e.doc = f.doc => e = f
                        /\ DocsOf(todo) \cap Got = {}
  /\ opt.kind = "none" => items = <<>>
  /\ (Listing /\ opt.kind \in {"github", "fs", "url"}) => items = <<>>
  /\ phase = "listed" => items = listed
  /\ (Walk /\ Listing) => ToSet(queue) \subseteq seen /\ (seen = {} => cursor = Start)
  /\ phase = "download" => todo \subseteq ToSet(items)

\* The part of TypeOK that is not the token's.
Typed ==
  /\ RemoteTypeOK
  /\ opt \in Option
  /\ phase \in {"list", "probe", "listed", "relist", "download", "done", "failed"}
  /\ cursor \in Nat
  /\ items \in Seq(Entry) /\ listed \in Seq(Entry)
  /\ queue \in Seq(Docs) /\ seen \subseteq Docs
  /\ projects \cup left \subseteq DOMAIN Projects
  /\ resolved \in BOOLEAN /\ cut \in BOOLEAN /\ drive \in 0..2
  /\ want \subseteq Docs /\ todo \subseteq Entry /\ located \subseteq Docs /\ arts \subseteq Artifact

\* What every other invariant rests on.
Basis == Typed /\ Dated /\ Control

\* The assumptions in use.
LEMMA Bounds == MaxEdits \in Nat /\ IsFiniteSet(Docs) /\ Parent \in [Docs -> Docs]
BY RemoteAssumption

-----------------------------------------------------------------------------
(* What a list step gathers, and how it goes on.                            *)

\* The documents of S come to those listed.
Gathers(S) ==
  /\ S \in SUBSET Docs
  /\ items' \in Seq(Entry)
  /\ DocsOf(ToSet(items')) = Got \cup S
  /\ Once(items) /\ S \cap Got = {} => Once(items')

\* The listing is not complete.
GoesOn == UNCHANGED <<phase, fetchVars>>

\* What comes in some order is gathered,
LEMMA Gathered ==
  ASSUME Typed, NEW S \in SUBSET Docs, NEW key, Keyed(S, key),
         items' = items \o Entries(InOrder(S, key))
  PROVE  Gathers(S)
<1>1. rev \in [Docs -> 0..MaxEdits] /\ items \in Seq(Entry)
  BY DEF Typed, RemoteTypeOK
<1> QED
  BY <1>1, Appended DEF Gathers, Got

\* nothing is,
LEMMA GatheredNothing ==
  ASSUME Typed, items' = items
  PROVE  Gathers({})
BY DEF Gathers, Got, Typed

\* the wanted documents of a page are,
LEMMA GatheredPage ==
  ASSUME Typed, NEW page, page.items \in SUBSET Docs, Page(page)
  PROVE  /\ Gathers({d \in page.items : Wanted(d)})
         /\ cursor' = page.next
         /\ IF page.next = End THEN Complete ELSE GoesOn
<1> DEFINE S == {d \in page.items : Wanted(d)}
<1>1. S \in SUBSET Docs /\ Keyed(S, Rank)
  BY DocsKeyed
<1>2. items' = items \o Entries(InOrder(S, Rank))
  BY DEF Page, Took, ByRank
<1>3. Gathers(S)
  BY <1>1, <1>2, Gathered
<1>4. cursor' = page.next /\ IF page.next = End THEN Complete ELSE GoesOn
  BY DEF Page, Took, GoesOn
<1> QED
  BY <1>3, <1>4

\* and what was found at once is.
LEMMA GatheredFound ==
  ASSUME Typed, items = <<>>, NEW S \in SUBSET Docs, items' = Entries(ByRank(S))
  PROVE  Gathers(S) /\ Once(items') /\ Got = {}
<1>1. rev \in [Docs -> 0..MaxEdits]
  BY DEF Typed, RemoteTypeOK
<1>2. DocsOf(ToSet(items)) = {}
  BY DEF DocsOf, ToSet
<1> QED
  BY <1>1, <1>2, FromNothing DEF Gathers, Got

-----------------------------------------------------------------------------

\* The members of sequences put together and taken apart.
LEMMA MembersOf ==
  ASSUME NEW T, NEW s \in Seq(T), NEW t \in Seq(T)
  PROVE  /\ ToSet(s \o t) = ToSet(s) \cup ToSet(t)
         /\ s # <<>> => /\ Head(s) \in T /\ Tail(s) \in Seq(T)
                        /\ ToSet(s) = {Head(s)} \cup ToSet(Tail(s))
<1>1. ToSet(s \o t) = ToSet(s) \cup ToSet(t)
  <2>1. /\ s \o t \in Seq(T) /\ Len(s \o t) = Len(s) + Len(t) /\ Len(s) \in Nat /\ Len(t) \in Nat
        /\ \A i \in 1..Len(s) : (s \o t)[i] = s[i]
        /\ \A i \in 1..Len(t) : (s \o t)[Len(s) + i] = t[i]
    OBVIOUS
  <2>2. \A i \in 1..(Len(s) + Len(t)) : i \in 1..Len(s) \/ (i - Len(s)) \in 1..Len(t)
    BY <2>1
  <2>3. ASSUME NEW x \in ToSet(s \o t) PROVE x \in ToSet(s) \cup ToSet(t)
    <3>1. PICK i \in 1..(Len(s) + Len(t)) : x = (s \o t)[i]
      BY <2>1, <2>3 DEF ToSet
    <3>2. CASE i \in 1..Len(s)
      BY <2>1, <3>1, <3>2 DEF ToSet
    <3>3. CASE i - Len(s) \in 1..Len(t)
      <4>1. x = t[i - Len(s)]
        BY <2>1, <3>1, <3>3
      <4> QED
        BY <4>1, <3>3 DEF ToSet
    <3> QED
      BY <2>2, <3>2, <3>3
  <2>4. ASSUME NEW x \in ToSet(s) PROVE x \in ToSet(s \o t)
    <3>1. PICK i \in 1..Len(s) : x = s[i]
      BY <2>1, <2>4 DEF ToSet
    <3>2. i \in 1..Len(s \o t) /\ x = (s \o t)[i]
      BY <2>1, <3>1
    <3> QED
      BY <3>2 DEF ToSet
  <2>5. ASSUME NEW x \in ToSet(t) PROVE x \in ToSet(s \o t)
    <3>1. PICK i \in 1..Len(t) : x = t[i]
      BY <2>1, <2>5 DEF ToSet
    <3>2. Len(s) + i \in 1..Len(s \o t) /\ x = (s \o t)[Len(s) + i]
      BY <2>1, <3>1
    <3> QED
      BY <3>2 DEF ToSet
  <2> QED
    BY <2>3, <2>4, <2>5
<1>2. ASSUME s # <<>>
      PROVE  Head(s) \in T /\ Tail(s) \in Seq(T) /\ ToSet(s) = {Head(s)} \cup ToSet(Tail(s))
  <2>1. /\ Len(s) \in Nat \ {0} /\ Head(s) = s[1] /\ Head(s) \in T
        /\ Tail(s) \in Seq(T) /\ Len(Tail(s)) = Len(s) - 1
        /\ \A i \in 1..(Len(s) - 1) : Tail(s)[i] = s[i + 1]
    BY <1>2
  <2>2. ASSUME NEW x \in ToSet(s) PROVE x \in {Head(s)} \cup ToSet(Tail(s))
    <3>1. PICK i \in 1..Len(s) : x = s[i]
      BY <2>1, <2>2 DEF ToSet
    <3>2. CASE i = 1
      BY <2>1, <3>1, <3>2
    <3>3. CASE i # 1
      <4>1. i - 1 \in 1..Len(Tail(s)) /\ Tail(s)[i - 1] = x
        BY <2>1, <3>1, <3>3
      <4>2. DOMAIN Tail(s) = 1..Len(Tail(s))
        BY <2>1
      <4> QED
        BY <4>1, <4>2, Zenon DEF ToSet
    <3> QED
      BY <3>2, <3>3
  <2>3. ASSUME NEW x \in ToSet(Tail(s)) PROVE x \in ToSet(s)
    <3>1. PICK i \in 1..(Len(s) - 1) : x = Tail(s)[i]
      BY <2>1, <2>3 DEF ToSet
    <3>2. i + 1 \in 1..Len(s) /\ x = s[i + 1]
      BY <2>1, <3>1
    <3> QED
      BY <3>2 DEF ToSet
  <2>4. Head(s) \in ToSet(s)
    BY <2>1 DEF ToSet
  <2> QED
    BY <2>1, <2>2, <2>3, <2>4
<1> QED
  BY <1>1, <1>2

\* Documents are ordered by their last changes.
LEMMA RecentKeyed ==
  ASSUME Basis, NEW S \in SUBSET remote
  PROVE  Keyed(S, recent) /\ S \in SUBSET Docs
<1>1. S \in SUBSET Docs /\ \A d \in Docs : recent[d] \in Int
  BY DEF Basis, Typed, RemoteTypeOK
<1>2. IsFiniteSet(S)
  BY <1>1, DocsKeyed
<1> QED
  BY <1>1, <1>2 DEF Basis, Dated, Keyed

\* A list step leaves the types as they are if it gathers and goes on or ends.
LEMMA TypedAfter ==
  ASSUME Basis, UNCHANGED <<opt, remoteVars>>, NEW S, Gathers(S),
         cursor' \in Nat, queue' \in Seq(Docs), seen' \in SUBSET Docs,
         projects' \cup left' \subseteq DOMAIN Projects,
         resolved' \in BOOLEAN, cut' \in BOOLEAN, drive' \in 0..2,
         Listing, Complete \/ GoesOn,
         GoesOn => /\ cursor' # End
                   /\ opt.kind = "provider" => cursor' \in {1, 2}
                   /\ opt.kind \in {"none", "github", "fs", "url"} => items' = <<>>
                   /\ Walk => ToSet(queue') \subseteq seen' /\ (seen' = {} => cursor' = Start),
         opt.kind = "none" => items' = <<>>
  PROVE  Basis'
<1>1. /\ RemoteTypeOK' /\ Dated'
  BY DEF Basis, Typed, RemoteTypeOK, Dated, remoteVars
<1>2. items' \in Seq(Entry) /\ ToSet(items') \in SUBSET Entry
  BY DocsOfSeq DEF Gathers
<1>3. /\ phase' \in {"list", "probe", "listed", "relist", "download", "done", "failed"}
      /\ listed' \in Seq(Entry) /\ want' \subseteq Docs /\ todo' \subseteq Entry /\ located' \subseteq Docs
      /\ arts' \subseteq Artifact
  <2>1. CASE Complete
    BY <2>1, <1>2 DEF Complete, Basis, Typed
  <2>2. CASE GoesOn
    BY <2>2 DEF GoesOn, fetchVars, Basis, Typed
  <2> QED
    BY <2>1, <2>2
<1>4. Typed'
  BY <1>1, <1>2, <1>3 DEF Typed, Basis
<1>5. Control'
  <2> USE DEF Basis, Control
  <2>1. CASE GoesOn
    BY <2>1 DEF GoesOn, fetchVars, Listing, Walk, Part
  <2>2. CASE Complete
    <3>1. CASE phase = "list"
      BY <2>2, <3>1 DEF Complete, Listing, Walk, Part
    <3>2. CASE phase = "relist"
      BY <2>2, <3>2 DEF Complete, Listing, Walk, Part
    <3> QED
      BY <3>1, <3>2 DEF Listing
  <2> QED
    BY <2>1, <2>2
<1> QED
  BY <1>1, <1>4, <1>5 DEF Basis

\* The cursor of a listing under way.
LEMMA CursorAt == Basis /\ Listing => cursor \in Nat \ {0}
BY DEF Basis, Typed, Control, End

\* Documents have places in every list there is of them.
LEMMA PlacesKeyed ==
  ASSUME Basis
  PROVE  /\ \A S \in SUBSET remote : S \in SUBSET Docs /\ Keyed(S, Rank) /\ Keyed(S, recent)
         /\ \A i : Tree(i) \in SUBSET remote
<1>1. remote \in SUBSET Docs
  BY DEF Basis, Typed, RemoteTypeOK
<1> QED
  BY <1>1, DocsKeyed, RecentKeyed DEF Tree

\* The steps of a listing keep the basis, one after the other.
LEMMA BasisSpace == Basis /\ ConfluenceSpace => Basis'
<1> SUFFICES ASSUME Basis, ConfluenceSpace PROVE Basis'
  OBVIOUS
<1> DEFINE page == ListSpacePages(cursor)
           S == {d \in page.items : Wanted(d)}
<1>1. Listing /\ opt.kind = "confluence" /\ ~Walk
  BY DEF ConfluenceSpace, Walk
<1>2. page.items \in SUBSET Docs /\ page.next \in Nat
  BY <1>1, CursorAt, PlacesKeyed, OffsetPage DEF ListSpacePages
<1>3. /\ Gathers(S)
      /\ cursor' = page.next
      /\ IF page.next = End THEN Complete ELSE GoesOn
  BY <1>2, GatheredPage DEF ConfluenceSpace, Basis
<1>4. UNCHANGED <<opt, remoteVars, queue, seen, projects, resolved, left, drive, cut>>
  BY DEF ConfluenceSpace, Plain, Unlisted
<1> HIDE DEF page, S
<1>5. Complete \/ GoesOn
  BY <1>3
<1>6. GoesOn => cursor' # End
  BY <1>1, <1>3 DEF Complete, GoesOn, Listing
<1> QED
  BY <1>1, <1>2, <1>3, <1>4, <1>5, <1>6, TypedAfter DEF Basis, Typed

LEMMA BasisRoot == Basis /\ ConfluenceRoot => Basis'
<1> SUFFICES ASSUME Basis, ConfluenceRoot PROVE Basis'
  OBVIOUS
<1>1. Listing /\ Walk /\ queue = <<>> /\ seen = {} /\ GoesOn
  BY DEF ConfluenceRoot, Walk, GoesOn
<1>2. PICK r \in remote : items' = Entries(<<r>>) /\ seen' = {r} /\ queue' = <<r>>
  BY DEF ConfluenceRoot
<1>3. r \in Docs /\ rev \in [Docs -> 0..MaxEdits]
  BY DEF Basis, Typed, RemoteTypeOK
<1>4. /\ <<r>> \in Seq(Docs)
      /\ items' \in Seq(Entry) /\ queue' \in Seq(Docs) /\ ToSet(queue') = {r}
  <2>1. <<r>> \in Seq(Docs) /\ ToSet(<<r>>) = {r}
    BY <1>3 DEF ToSet
  <2>2. Entries(<<r>>) \in Seq(Entry)
    BY <1>3, <2>1, EntriesOf
  <2> QED
    BY <1>2, <2>1, <2>2
<1>5. UNCHANGED <<opt, remoteVars, cursor, projects, resolved, left, drive, cut>>
  BY DEF ConfluenceRoot, Plain
<1>6. RemoteTypeOK' /\ Dated'
  BY <1>5 DEF Basis, Typed, RemoteTypeOK, Dated, remoteVars
<1>7. Typed'
  BY <1>1, <1>2, <1>3, <1>4, <1>5, <1>6 DEF Basis, Typed, GoesOn, fetchVars
<1>8. Control'
  BY <1>1, <1>2, <1>4, <1>5 DEF Basis, Control, GoesOn, fetchVars, Listing, Walk, Part
<1> QED
  BY <1>6, <1>7, <1>8 DEF Basis

\* The walk of a tree: what its next step does if the page it is at is still there.
WalkNew == Fresh(ListChildren(Head(queue), cursor).items)
WalkStep ==
  LET page == ListChildren(Head(queue), cursor)
  IN /\ Head(queue) \in remote
     /\ seen' = seen \cup WalkNew
     /\ queue' = (IF page.next = End THEN Tail(queue) ELSE queue) \o ByRank(WalkNew)
     /\ items' = items \o Entries(ByRank(WalkNew))
     /\ cursor' = IF page.next = End THEN Start ELSE page.next
     /\ IF queue' = <<>> THEN Complete ELSE GoesOn
     /\ UNCHANGED <<projects, resolved, left, drive, cut, opt, remoteVars>>

\* What the walk yields.
LEMMA WalkTyped ==
  ASSUME Basis, Listing, queue # <<>>
  PROVE  LET page == ListChildren(Head(queue), cursor)
         IN /\ page.items \in SUBSET remote /\ page.next \in Nat
            /\ WalkNew \in SUBSET page.items /\ WalkNew \in SUBSET Docs
            /\ ByRank(WalkNew) \in Seq(Docs)
            /\ ToSet(ByRank(WalkNew)) = WalkNew
<1> DEFINE S == {e \in remote \ {Head(queue)} : parent[e] = Head(queue)}
           page == ListChildren(Head(queue), cursor)
<1>1. S \in SUBSET remote /\ Keyed(S, Rank) /\ S \in SUBSET Docs
  BY PlacesKeyed
<1>2. page.items \in SUBSET S /\ page.next \in Nat
  <2>1. page = ByOffset(S, cursor)
    BY DEF ListChildren
  <2> HIDE DEF S, page
  <2> QED
    BY <2>1, <1>1, CursorAt, OffsetPage
<1>3. WalkNew \in SUBSET page.items
  BY DEF WalkNew, Fresh
<1> HIDE DEF page, S
<1>4. WalkNew \in SUBSET Docs
  BY <1>1, <1>2, <1>3
<1>5. Keyed(WalkNew, Rank)
  BY <1>4, DocsKeyed
<1>6. ByRank(WalkNew) \in Seq(WalkNew) /\ ToSet(ByRank(WalkNew)) = WalkNew
  BY <1>5, Ordered DEF ByRank
<1>7. ByRank(WalkNew) \in Seq(Docs)
  BY <1>4, <1>6
<1> QED
  BY <1>1, <1>2, <1>3, <1>4, <1>6, <1>7 DEF page

\* The walk goes on, or breaks off.
LEMMA WalkCases == Basis /\ ConfluenceChildren => Breaks \/ WalkStep
<1> SUFFICES ASSUME Basis, ConfluenceChildren, Head(queue) \in remote PROVE WalkStep
  BY DEF ConfluenceChildren, Breaks, Plain
<1> DEFINE page == ListChildren(Head(queue), cursor)
<1>1. queue # <<>> /\ Listing
  BY DEF ConfluenceChildren
<1>2. ToSet(ByRank(WalkNew)) = WalkNew
  BY <1>1, WalkTyped
<1>3. /\ seen' = seen \cup ToSet(ByRank(WalkNew))
      /\ queue' = (IF page.next = End THEN Tail(queue) ELSE queue) \o ByRank(WalkNew)
      /\ items' = items \o Entries(ByRank(WalkNew))
      /\ cursor' = IF page.next = End THEN Start ELSE page.next
      /\ IF queue' = <<>> THEN Complete ELSE UNCHANGED <<phase, fetchVars>>
      /\ UNCHANGED <<projects, resolved, left, drive, cut>>
      /\ UNCHANGED <<opt, remoteVars>>
  BY Zenon DEF ConfluenceChildren, Plain, WalkNew
<1> QED
  BY <1>2, <1>3 DEF WalkStep, GoesOn

LEMMA BasisWalk == Basis /\ ConfluenceChildren /\ WalkStep => Basis'
<1> SUFFICES ASSUME Basis, ConfluenceChildren, WalkStep PROVE Basis'
  OBVIOUS
<1> DEFINE page == ListChildren(Head(queue), cursor)
<1>1. Listing /\ queue # <<>> /\ opt.kind = "confluence" /\ Walk
  BY DEF ConfluenceChildren, Walk
<1>2. /\ page.next \in Nat /\ WalkNew \in SUBSET Docs /\ ByRank(WalkNew) \in Seq(Docs)
  BY <1>1, WalkTyped
<1>3. Gathers(WalkNew)
  BY <1>2, DocsKeyed, Gathered DEF WalkStep, ByRank, Basis
<1>4. queue' \in Seq(Docs)
  <2>1. queue \in Seq(Docs) /\ Tail(queue) \in Seq(Docs)
    BY <1>1 DEF Basis, Typed
  <2> QED
    BY <2>1, <1>2 DEF WalkStep
<1>5. cursor' \in Nat /\ cursor' # End
  BY <1>2 DEF WalkStep, Start, End
<1>6. ToSet(queue') \subseteq seen' /\ seen' # {}
  <2>1. queue \in Seq(Docs) /\ ToSet(queue) \subseteq seen
    BY <1>1 DEF Basis, Typed, Control
  <2>2. /\ Tail(queue) \in Seq(Docs)
        /\ Head(queue) \in seen /\ ToSet(Tail(queue)) \subseteq seen
    BY <1>1, <2>1, MembersOf
  <2>3. ToSet(ByRank(WalkNew)) = WalkNew
    BY <1>1, WalkTyped
  <2>4. ToSet(queue') \subseteq seen \cup WalkNew
    <3>1. \/ queue' = Tail(queue) \o ByRank(WalkNew)
          \/ queue' = queue \o ByRank(WalkNew)
      BY DEF WalkStep
    <3>2. ToSet(queue \o ByRank(WalkNew)) = ToSet(queue) \cup WalkNew
      BY <1>2, <2>1, <2>3, MembersOf
    <3>3. ToSet(Tail(queue) \o ByRank(WalkNew)) = ToSet(Tail(queue)) \cup WalkNew
      <4> DEFINE q == Tail(queue)
      <4>1. q \in Seq(Docs)
        BY <2>2
      <4> HIDE DEF q
      <4>2. ToSet(q \o ByRank(WalkNew)) = ToSet(q) \cup WalkNew
        BY <4>1, <1>2, <2>3, MembersOf
      <4> QED
        BY <4>2 DEF q
    <3> QED
      BY <2>1, <2>2, <3>1, <3>2, <3>3
  <2> QED
    BY <2>2, <2>4 DEF WalkStep
<1>7. Complete \/ GoesOn
  BY DEF WalkStep
<1>8. /\ UNCHANGED <<opt, remoteVars, projects, left, resolved, cut, drive>> /\ seen' = seen \cup WalkNew
  BY DEF WalkStep
<1> QED
  BY <1>1, <1>2, <1>3, <1>4, <1>5, <1>6, <1>7, <1>8, TypedAfter DEF Basis, Typed

LEMMA BasisJira == Basis /\ Jira => Basis'
<1> SUFFICES ASSUME Basis, Jira PROVE Basis'
  OBVIOUS
<1> DEFINE page == Search(cursor)
           S == page.items
<1>1. Listing /\ opt.kind = "jira" /\ ~Walk
  BY DEF Jira, Walk
<1>2. S \in SUBSET remote /\ page.next \in Nat
  BY <1>1, CursorAt, PlacesKeyed, SearchPage
<1>3. S \in SUBSET Docs /\ Keyed(S, recent)
  BY <1>2, PlacesKeyed
<1>4. /\ items' = items \o Entries(InOrder(S, recent))
      /\ cursor' = page.next
      /\ IF cursor' = End THEN Complete ELSE GoesOn
      /\ UNCHANGED <<opt, remoteVars, queue, seen, projects, resolved, left, drive, cut>>
  BY DEF Jira, Took, GoesOn, Plain, Unlisted
<1> HIDE DEF page, S
<1>5. Gathers(S)
  BY <1>3, <1>4, Gathered DEF Basis
<1>6. /\ Complete \/ GoesOn
      /\ GoesOn => cursor' # End
  BY <1>1, <1>4 DEF Complete, GoesOn, Listing
<1> QED
  BY <1>1, <1>2, <1>4, <1>5, <1>6, TypedAfter DEF Basis, Typed

LEMMA BasisProjects == Basis /\ GitlabProjects => Basis'
<1> SUFFICES ASSUME Basis, GitlabProjects PROVE Basis'
  OBVIOUS
<1> DEFINE page == IF Part THEN [items |-> Sought, next |-> End] ELSE GroupProjects(cursor)
<1>1. Listing /\ opt.kind = "gitlab" /\ ~Walk /\ GoesOn
  BY DEF GitlabProjects, Walk, GoesOn
<1>2. cursor \in Nat \ {0}
  BY <1>1, CursorAt
<1>3. page.next \in Nat
  <2>1. GroupProjects(cursor).next \in {End, cursor + 1}
    BY DEF GroupProjects
  <2> QED
    BY <1>2, <2>1 DEF End
<1>4. /\ projects' = projects \cup (page.items \cap Sought)
      /\ resolved' = (page.next = End)
      /\ left' = IF page.next = End THEN projects' ELSE {}
      /\ cursor' = IF page.next = End THEN Start ELSE page.next
  BY Zenon DEF GitlabProjects
<1>5. UNCHANGED <<opt, remoteVars, items, queue, seen, drive, cut>>
  BY DEF GitlabProjects, Plain
<1>6. Sought \subseteq DOMAIN Projects
  BY DEF Sought
<1>7. Gathers({})
  BY <1>5, GatheredNothing DEF Basis
<1> HIDE DEF page
<1>8. cursor' \in Nat /\ cursor' # End
  BY <1>3, <1>4 DEF Start, End
<1>9. projects' \cup left' \subseteq DOMAIN Projects /\ resolved' \in BOOLEAN
  BY <1>4, <1>6 DEF Basis, Typed
<1> QED
  BY <1>1, <1>5, <1>7, <1>8, <1>9, TypedAfter DEF Basis, Typed

\* A page of a project's tree, or that its tree is not there.
TreeNew(i) == {d \in IterTree(i, cursor).items : GitlabWanted(d)}
TreeReads(i) ==
  LET page == IterTree(i, cursor)
  IN /\ ~Projects[i].bare
     /\ left' = IF page.next = End THEN left \ {i} ELSE left
     /\ cursor' = IF page.next = End THEN Start ELSE page.next
     /\ items' = items \o Entries(ByRank(TreeNew(i)))
     /\ UNCHANGED <<opt, phase, queue, seen, projects, resolved, drive, cut, fetchVars, remoteVars>>
TreeSkips(i) ==
  /\ Projects[i].bare
  /\ left' = left \ {i}
  /\ UNCHANGED <<opt, phase, cursor, items, queue, seen, projects, resolved, drive, cut, fetchVars, remoteVars>>

\* A step of a project's listing reads a page, skips a tree that is not there, or breaks off.
LEMMA TreeCases == GitlabTree => Breaks \/ TreeReads(Min(left)) \/ TreeSkips(Min(left))
BY Zenon DEF GitlabTree, Breaks, TreeReads, TreeSkips, TreeNew, Plain

\* What a page of a tree holds.
LEMMA TreeTyped ==
  ASSUME Basis, Listing, NEW i
  PROVE  /\ TreeNew(i) \in SUBSET Tree(i) /\ TreeNew(i) \in SUBSET Docs
         /\ IterTree(i, cursor).items \in SUBSET Tree(i)
         /\ IterTree(i, cursor).next \in {End, cursor + 1}
<1>1. Keyed(Tree(i), Rank) /\ Tree(i) \in SUBSET Docs
  BY PlacesKeyed
<1>2. IterTree(i, cursor).items \in SUBSET Tree(i) /\ IterTree(i, cursor).next \in {End, cursor + 1}
  BY <1>1, CursorAt, TreePage
<1> QED
  BY <1>1, <1>2 DEF TreeNew

LEMMA BasisTree ==
  ASSUME Basis, GitlabTree, NEW i, TreeReads(i) \/ TreeSkips(i)
  PROVE  Basis'
<1>1. Listing /\ opt.kind = "gitlab" /\ ~Walk /\ GoesOn
  BY DEF GitlabTree, Walk, GoesOn, TreeReads, TreeSkips
<1>2. /\ UNCHANGED <<opt, remoteVars, queue, seen, projects, resolved, drive, cut>>
      /\ left' \in SUBSET left
  BY DEF TreeReads, TreeSkips
<1>3. cursor' \in Nat /\ cursor' # End
  <2>1. CASE TreeSkips(i)
    BY <1>1, <2>1, CursorAt DEF TreeSkips, End
  <2>2. CASE TreeReads(i)
    BY <1>1, <2>2, CursorAt, TreeTyped DEF TreeReads, Start, End
  <2> QED
    BY <2>1, <2>2
<1>4. \E S : Gathers(S)
  <2>1. CASE TreeSkips(i)
    BY <2>1, GatheredNothing DEF TreeSkips, Basis
  <2>2. CASE TreeReads(i)
    BY <1>1, <2>2, TreeTyped, DocsKeyed, Gathered DEF TreeReads, ByRank, Basis
  <2> QED
    BY <2>1, <2>2
<1> QED
  BY <1>1, <1>2, <1>3, <1>4, TypedAfter DEF Basis, Typed

LEMMA BasisDone == Basis /\ GitlabDone => Basis'
<1> SUFFICES ASSUME Basis, GitlabDone PROVE Basis'
  OBVIOUS
<1>1. /\ Listing /\ opt.kind = "gitlab" /\ ~Walk /\ items' = items /\ cursor' = End /\ Complete
      /\ UNCHANGED <<opt, remoteVars, queue, seen, projects, resolved, left, drive, cut>>
  BY DEF GitlabDone, Walk, Took, Plain, Unlisted
<1>2. Gathers({})
  BY <1>1, GatheredNothing DEF Basis
<1>3. ~GoesOn
  BY <1>1 DEF GoesOn, Complete, Listing
<1> QED
  BY <1>1, <1>2, <1>3, TypedAfter DEF Basis, Typed, End

LEMMA BasisGithub == Basis /\ Github => Basis'
<1> SUFFICES ASSUME Basis, Github PROVE Basis'
  OBVIOUS
<1> DEFINE page == TreeItems
           S == {d \in page.items : Wanted(d)}
<1>1. Listing /\ opt.kind = "github" /\ ~Walk
  BY DEF Github, Walk
<1>2. page.items \in SUBSET Docs /\ page.next = End
  BY DEF TreeItems, Basis, Typed, RemoteTypeOK
<1>3. Gathers(S) /\ cursor' = End /\ Complete
  BY <1>2, GatheredPage DEF Github, Basis
<1>4. /\ UNCHANGED <<opt, remoteVars, queue, seen, projects, resolved, left, drive>>
      /\ cut' \in BOOLEAN
  BY DEF Github, Plain, Basis, Typed
<1>5. ~GoesOn
  BY <1>1, <1>3 DEF GoesOn, Complete, Listing
<1> HIDE DEF S
<1> QED
  BY <1>1, <1>3, <1>4, <1>5, TypedAfter DEF Basis, Typed, End

\* A page of a listing by token.
ResumeStep(S) ==
  LET page == Resume(S, cursor)
  IN /\ S \in SUBSET remote
     /\ \A d \in remote : Wanted(d) => d \in S
     /\ Gathers({d \in page.items : Wanted(d)})
     /\ page.items \in SUBSET S
     /\ page.next \in Nat
     /\ cursor' = page.next
     /\ IF page.next = End THEN Complete ELSE GoesOn
     /\ UNCHANGED <<opt, remoteVars, queue, seen, projects, resolved, left, drive, cut>>

\* A step of a listing by token is of this form.
LEMMA ResumeCases == Basis /\ Resumes => \E S : ResumeStep(S)
<1> SUFFICES ASSUME Basis, Resumes PROVE \E S : ResumeStep(S)
  OBVIOUS
<1>1. PICK S \in SUBSET remote : /\ \A d \in remote : Wanted(d) => d \in S
                                 /\ Page(Resume(S, cursor))
  BY DEF Resumes
<1> DEFINE page == Resume(S, cursor)
<1>2. Listing
  BY DEF Resumes
<1>3. S \in SUBSET Docs /\ Keyed(S, Rank)
  BY PlacesKeyed
<1>4. page.items \in SUBSET S /\ page.next \in Nat
  BY <1>2, <1>3, CursorAt, ResumedPage
<1>5. page.items \in SUBSET Docs
  BY <1>3, <1>4
<1>6. /\ Gathers({d \in page.items : Wanted(d)})
      /\ cursor' = page.next
      /\ IF page.next = End THEN Complete ELSE GoesOn
  BY <1>1, <1>5, GatheredPage DEF Basis
<1>7. UNCHANGED <<opt, remoteVars, queue, seen, projects, resolved, left, drive, cut>>
  BY DEF Resumes, Unlisted
<1> QED
  BY <1>1, <1>4, <1>6, <1>7 DEF ResumeStep

LEMMA BasisResume ==
  ASSUME Basis, Resumes, NEW S, ResumeStep(S)
  PROVE  Basis'
<1> DEFINE N == {d \in Resume(S, cursor).items : Wanted(d)}
<1>1. Listing /\ opt.kind \in {"s3", "notion", "gdrive", "sharepoint"} /\ ~Walk
  BY DEF Resumes, Walk, ByToken
<1>2. /\ Gathers(N) /\ cursor' \in Nat
      /\ UNCHANGED <<opt, remoteVars, queue, seen, projects, resolved, left, drive, cut>>
      /\ IF cursor' = End THEN Complete ELSE GoesOn
  BY DEF ResumeStep
<1> HIDE DEF N
<1>3. Complete \/ GoesOn
  BY <1>2
<1>4. GoesOn => cursor' # End
  BY <1>1, <1>2 DEF GoesOn, Complete, Listing
<1> QED
  BY <1>1, <1>2, <1>3, <1>4, TypedAfter DEF Basis, Typed

LEMMA BasisDrive == Basis /\ FindsDrive => Basis'
<1> SUFFICES ASSUME Basis, FindsDrive PROVE Basis'
  OBVIOUS
<1>1. /\ Listing /\ opt.kind = "sharepoint" /\ ~Walk /\ GoesOn
      /\ UNCHANGED <<opt, remoteVars, cursor, items, queue, seen, projects, resolved, left, cut>>
      /\ drive' \in 0..2
  BY DEF FindsDrive, Walk, GoesOn, Basis, Typed
<1>2. Gathers({})
  BY <1>1, GatheredNothing DEF Basis
<1>3. cursor # End
  BY <1>1, CursorAt DEF End
<1> QED
  BY <1>1, <1>2, <1>3, TypedAfter DEF Basis, Typed

\* What was found is taken as it is, or is to be looked at.
ProbesFrom(S) ==
  /\ phase = "list" /\ S # {}
  /\ phase' = "probe" /\ todo' = {Now(d) : d \in S}
  /\ UNCHANGED <<listVars, listed, want, located, arts, opt, remoteVars>>
FoundAll(S) ==
  /\ phase = "relist" \/ S = {}
  /\ items' = Entries(ByRank(S)) /\ cursor' = End /\ Complete
  /\ UNCHANGED <<opt, remoteVars, queue, seen, projects, resolved, left, drive, cut>>

\* What was found is taken or looked at.
LEMMA FoundCases ==
  ASSUME NEW S, Listing, Found(S), Plain
  PROVE  ProbesFrom(S) \/ FoundAll(S)
BY DEF Listing, Found, Plain, ProbesFrom, FoundAll, Took, Unlisted, End

\* Entries of documents as they are now.
LEMMA NowOf ==
  ASSUME Basis, NEW S \in SUBSET Docs
  PROVE  /\ {Now(d) : d \in S} \in SUBSET Entry
         /\ \A d \in Docs : Now(d) \in Entry /\ Now(d).doc = d
         /\ DocsOf({Now(d) : d \in S}) = S
<1>1. rev \in [Docs -> 0..MaxEdits]
  BY DEF Basis, Typed, RemoteTypeOK
<1>2. \A d \in Docs : Now(d) \in Entry /\ Now(d).doc = d
  BY <1>1 DEF Now, Entry
<1>3. \A d \in S : Now(d) \in Entry /\ Now(d).doc = d
  BY <1>2
<1> QED
  BY <1>2, <1>3, Zenon DEF DocsOf

\* Both keep the basis.
LEMMA BasisFound ==
  ASSUME Basis, Listing, opt.kind \in {"fs", "url"}, NEW S \in SUBSET Docs,
         ProbesFrom(S) \/ FoundAll(S)
  PROVE  Basis'
<1>1. items = <<>> /\ ~Walk
  BY DEF Basis, Control, Walk
<1>2. CASE ProbesFrom(S)
  <2>1. /\ UNCHANGED <<opt, remoteVars, listVars, listed, want, located, arts>>
        /\ phase = "list" /\ phase' = "probe" /\ todo' = {Now(d) : d \in S}
    BY <1>2 DEF ProbesFrom
  <2>2. todo' \in SUBSET Entry /\ \A e, f \in todo' : e.doc = f.doc => e = f
    <3>1. \A e \in todo' : \E d \in S : e = Now(d)
      BY <2>1
    <3>2. \A d \in Docs : Now(d) \in Entry /\ Now(d).doc = d
      BY NowOf
    <3> QED
      BY <3>1, <3>2
  <2>3. RemoteTypeOK' /\ Dated'
    BY <2>1 DEF Basis, Typed, RemoteTypeOK, Dated, remoteVars
  <2>4. Typed'
    BY <2>1, <2>2, <2>3 DEF Basis, Typed, listVars
  <2>5. items' = <<>> /\ Got' = {} /\ Once(items')
    BY <1>1, <2>1 DEF Got, DocsOf, ToSet, listVars, Once
  <2>6. Control'
    BY <1>1, <2>1, <2>2, <2>5 DEF Basis, Control, Listing, listVars
  <2> QED
    BY <2>3, <2>4, <2>6 DEF Basis
<1>3. CASE FoundAll(S)
  <2>1. /\ UNCHANGED <<opt, remoteVars, queue, seen, projects, resolved, left, drive, cut>>
        /\ Gathers(S) /\ Complete /\ cursor' = End
    BY <1>1, <1>3, GatheredFound DEF FoundAll, Basis
  <2>2. ~GoesOn
    BY <2>1 DEF GoesOn, Complete, Listing
  <2> QED
    BY <1>1, <2>1, <2>2, TypedAfter DEF Basis, Typed, End
<1> QED
  BY <1>2, <1>3

\* The files of a directory.
FsFound == {d \in remote : FsWanted(d)}
\* Files, and URLs, are found at once.
LEMMA FoundBy ==
  ASSUME Basis
  PROVE  /\ FsFound \in SUBSET Docs
         /\ FsDiscover => /\ opt.kind = "fs" /\ Listing
                          /\ ProbesFrom(FsFound) \/ FoundAll(FsFound)
         /\ UrlList => /\ opt.kind = "url" /\ Listing
                       /\ ProbesFrom(Docs) \/ FoundAll(Docs)
BY FoundCases DEF FsDiscover, UrlList, FsFound, Basis, Typed, RemoteTypeOK

LEMMA BasisFinds == Basis /\ (FsDiscover \/ UrlList) => Basis'
<1>1. Basis /\ FsDiscover => Basis'
  BY FoundBy, BasisFound
<1>2. Docs \in SUBSET Docs
  OBVIOUS
<1>3. Basis /\ UrlList => Basis'
  BY <1>2, FoundBy, BasisFound
<1> QED
  BY <1>1, <1>3

\* The documents a provider adds, and what it had collected before.
ProviderNew == {d \in remote : cursor \in Meta[d].home /\ Wanted(d)}
ProviderReads ==
  /\ {d \in remote : cursor \in Meta[d].home} \cap seen = {}
  /\ seen' = seen \cup ProviderNew
  /\ items' = items \o Entries(ByRank(ProviderNew))
  /\ cursor' = IF cursor = 2 THEN End ELSE cursor + 1
  /\ IF cursor' = End THEN Complete ELSE GoesOn
  /\ UNCHANGED <<opt, remoteVars, queue, projects, resolved, left, drive, cut>>
ProviderKeeps ==
  /\ Cached
  /\ items' = listed /\ cursor' = End /\ Complete
  /\ UNCHANGED <<opt, remoteVars, queue, seen, projects, resolved, left, drive, cut>>

\* A provider is read, or what was collected is kept.
LEMMA ProviderCases ==
  Provider => Breaks \/ (~Cached /\ ProviderReads) \/ ProviderKeeps
<1> SUFFICES ASSUME Provider PROVE Breaks \/ (~Cached /\ ProviderReads) \/ ProviderKeeps
  OBVIOUS
<1> DEFINE batch == {d \in remote : cursor \in Meta[d].home}
<1>1. CASE Cached
  <2>1. ProviderKeeps
    BY <1>1 DEF Provider, ProviderKeeps, Took, Plain, Unlisted, End
  <2> QED
    BY <2>1
<1>2. CASE ~Cached
  <2>1. {d \in batch : Wanted(d)} = ProviderNew
    BY DEF ProviderNew
  <2>2. \/ Broken /\ Plain
        \/ /\ batch \cap seen = {}
           /\ seen' = seen \cup ProviderNew
           /\ Took(items \o Entries(ByRank(ProviderNew)), IF cursor = 2 THEN End ELSE cursor + 1)
           /\ UNCHANGED <<queue, projects, resolved, left, drive, cut>>
           /\ Plain
    BY <1>2, <2>1, Zenon DEF Provider
  <2> QED
    BY <1>2, <2>2 DEF Breaks, Plain, Took, ProviderReads, GoesOn
<1> QED
  BY <1>1, <1>2

\* What a provider adds.
LEMMA ProviderTyped == Basis => ProviderNew \in SUBSET Docs /\ Keyed(ProviderNew, Rank)
BY DocsKeyed DEF ProviderNew, Basis, Typed, RemoteTypeOK

LEMMA BasisProvider == Basis /\ Provider => Basis' \/ Breaks
<1> SUFFICES ASSUME Basis, Provider, ProviderReads \/ ProviderKeeps PROVE Basis'
  BY ProviderCases
<1>1. Listing /\ opt.kind = "provider" /\ ~Walk /\ cursor \in {1, 2}
  BY DEF Provider, Walk, Basis, Control
<1>2. CASE ProviderReads
  <2>1. /\ seen' = seen \cup ProviderNew
        /\ items' = items \o Entries(InOrder(ProviderNew, Rank))
        /\ cursor' = IF cursor = 2 THEN End ELSE cursor + 1
        /\ IF cursor' = End THEN Complete ELSE GoesOn
        /\ UNCHANGED <<opt, remoteVars, queue, projects, resolved, left, drive, cut>>
    BY <1>2 DEF ProviderReads, ByRank
  <2>2. Gathers(ProviderNew)
    BY <2>1, ProviderTyped, Gathered DEF Basis
  <2>3. cursor' \in Nat /\ (cursor' # End => cursor' \in {1, 2})
    BY <1>1, <2>1 DEF End
  <2>4. GoesOn => cursor' # End
    BY <1>1, <2>1 DEF GoesOn, Complete, Listing
  <2>5. Complete \/ GoesOn
    BY <2>1
  <2>6. seen' \in SUBSET Docs
    BY <2>1, ProviderTyped DEF Basis, Typed
  <2> QED
    BY <1>1, <2>1, <2>2, <2>3, <2>4, <2>5, <2>6, TypedAfter DEF Basis, Typed
<1>3. CASE ProviderKeeps
  <2>1. /\ items' = listed /\ cursor' = End /\ Complete
        /\ UNCHANGED <<opt, remoteVars, queue, seen, projects, resolved, left, drive, cut>>
    BY <1>3 DEF ProviderKeeps
  <2>2. phase = "relist" /\ ~GoesOn
    BY <1>3 DEF ProviderKeeps, Cached, Complete, GoesOn
  <2>3. RemoteTypeOK' /\ Dated'
    BY <2>1 DEF Basis, Typed, RemoteTypeOK, Dated, remoteVars
  <2>4. items' \in Seq(Entry) /\ ToSet(items') \in SUBSET Entry
    BY <2>1, DocsOfSeq DEF Basis, Typed
  <2>5. Typed'
    BY <2>1, <2>2, <2>3, <2>4 DEF Basis, Typed, Complete, End
  <2>6. Control'
    BY <1>1, <2>1, <2>2 DEF Basis, Control, Complete, Listing, Walk
  <2> QED
    BY <2>3, <2>5, <2>6 DEF Basis
<1> QED
  BY <1>2, <1>3

LEMMA BasisNone == Basis /\ NoneList => Basis'
<1> SUFFICES ASSUME Basis, NoneList PROVE Basis'
  OBVIOUS
<1>1. /\ Listing /\ opt.kind = "none" /\ ~Walk /\ items' = <<>> /\ cursor' = End /\ Complete
      /\ UNCHANGED <<opt, remoteVars, queue, seen, projects, resolved, left, drive, cut>>
  BY DEF NoneList, Walk, Took, Plain, Unlisted
<1>2. items = <<>>
  BY <1>1 DEF Basis, Control
<1>3. Gathers({})
  BY <1>1, <1>2, GatheredNothing DEF Basis
<1>4. ~GoesOn
  BY <1>1 DEF GoesOn, Complete, Listing
<1> QED
  BY <1>1, <1>3, <1>4, TypedAfter DEF Basis, Typed, End

-----------------------------------------------------------------------------
(* Looking at a document, and downloading one.                              *)

\* An outcome that is neither Skip nor Error, with a body or without.
LEMMA Outcomes ==
  /\ Skip # Error /\ Skip \notin Artifact /\ Error \notin Artifact
  /\ Entry \subseteq Artifact /\ \A x \in Entry : x.rev # Empty
<1>1. MaxEdits \in Nat /\ Empty \notin Nat
  BY Bounds, ConnectorAssumption
<1>2. Artifact \subseteq [doc : Docs, rev : Nat \cup {Empty}]
  BY <1>1 DEF Artifact
<1>3. Entry \subseteq Artifact /\ \A x \in Entry : x.rev # Empty
  BY <1>1 DEF Artifact, Entry
<1> QED
  BY <1>2, <1>3, ConnectorAssumption

\* The artifact of a body that was left out.
Hollow(d) == [doc |-> d, rev |-> Empty]

\* The outcomes of a download.
LEMMA FetchTyped ==
  ASSUME Basis, NEW e \in todo
  PROVE  /\ FetchOne(e) \in {Skip, Error, Now(e.doc), e, Hollow(e.doc)}
         /\ Hollow(e.doc) \in Artifact
         /\ Now(e.doc) \in Entry /\ e \in Entry /\ e.doc \in Docs /\ Now(e.doc).doc = e.doc
         /\ opt.kind \in {"gitlab", "provider"} => FetchOne(e) \in {e, Skip}
         /\ (e.doc \in remote /\ ~TooBig(e.doc) /\ ~Withheld(e.doc)) => FetchOne(e) \in {Error, Now(e.doc), e}
<1>1. e \in Entry /\ e.doc \in Docs /\ Now(e.doc) \in Entry /\ Now(e.doc).doc = e.doc
  <2>1. e \in Entry /\ e.doc \in Docs
    BY DEF Basis, Typed, Entry
  <2> QED
    BY <2>1, NowOf
<1>2. opt.kind \in Kinds
  BY DEF Basis, Typed, Option
<1>3. Hollow(e.doc) \in Artifact
  BY <1>1 DEF Hollow, Artifact
<1>4. e # Skip /\ Now(e.doc) # Skip /\ Hollow(e.doc) # Skip
  BY <1>1, <1>3, Outcomes
<1>5. CASE opt.kind = "github"
  BY <1>1, <1>3, <1>4, <1>5, Outcomes DEF FetchOne, GithubFetch, Loaded, Hollow, Withheld
<1>6. CASE opt.kind # "github"
  BY <1>1, <1>2, <1>3, <1>4, <1>6, Outcomes
     DEF FetchOne, Kinds, ConfluenceFetch, JiraFetch, NotionFetch, S3Fetch, GitlabFetch,
         GdriveFetch, SharepointFetch, UrlFetch, FsFetch, ProviderFetch, Loaded, FsMeta, TooBig
<1> QED
  BY <1>5, <1>6

\* A document is looked at, and found or left out.
Looked(e) == IF opt.kind = "fs" THEN {FsMeta(e.doc)} ELSE {UrlMeta(e.doc, TRUE), UrlMeta(e.doc, FALSE)}
\* The order of the results, and a document looked at without an error.
ByDoc == [f \in Entry |-> Rank[f.doc]]
Probes(e, got) ==
  /\ phase = "probe" /\ e \in todo
  /\ got \in Looked(e) /\ got # Error
  /\ items' = IF got = Skip THEN items ELSE InOrder(ToSet(items) \cup {got}, ByDoc)
  /\ todo' = todo \ {e}
  /\ IF todo' = {} THEN phase' = "listed" /\ listed' = items' ELSE UNCHANGED <<phase, listed>>
  /\ UNCHANGED <<opt, remoteVars, cursor, queue, seen, projects, resolved, left, drive, cut, want, located, arts>>

\* A step that looks at a document is of this form.
LEMMA ProbeCases == Probe => Breaks \/ \E e \in todo : \E got : Probes(e, got)
<1> SUFFICES ASSUME Probe, ~Breaks PROVE \E e \in todo : \E got : Probes(e, got)
  OBVIOUS
<1>1. PICK e \in todo, head \in BOOLEAN :
        LET got == IF opt.kind = "fs" THEN FsMeta(e.doc) ELSE UrlMeta(e.doc, head)
        IN IF got = Error THEN Broken
           ELSE /\ items' = IF got = Skip THEN items ELSE
                               InOrder(ToSet(items) \cup {got}, [f \in Entry |-> Rank[f.doc]])
                /\ todo' = todo \ {e}
                /\ IF todo' = {}
                   THEN phase' = "listed" /\ listed' = items'
                   ELSE UNCHANGED <<phase, listed>>
                /\ UNCHANGED <<cursor, Unlisted, want, located, arts>>
  BY Zenon DEF Probe
<1> DEFINE got == IF opt.kind = "fs" THEN FsMeta(e.doc) ELSE UrlMeta(e.doc, head)
<1>2. got # Error
  BY <1>1 DEF Breaks, Probe, Plain
<1>3. got \in Looked(e)
  BY DEF Looked
<1>4. /\ items' = IF got = Skip THEN items ELSE InOrder(ToSet(items) \cup {got}, ByDoc)
      /\ todo' = todo \ {e}
      /\ IF todo' = {} THEN phase' = "listed" /\ listed' = items' ELSE UNCHANGED <<phase, listed>>
      /\ UNCHANGED <<cursor, Unlisted, want, located, arts>>
  BY <1>1, <1>2, Zenon DEF ByDoc
<1> HIDE DEF got
<1>5. Probes(e, got)
  BY <1>2, <1>3, <1>4 DEF Probes, Probe, Plain, Unlisted
<1> QED
  BY <1>5

\* What Probe gathers: the document, unless it is left out.
LEMMA Probed ==
  ASSUME Basis, NEW e \in todo, NEW got, Probes(e, got)
  PROVE  /\ e.doc \in Docs
         /\ got = Skip \/ (got = Now(e.doc) /\ got \in Entry /\ got.doc = e.doc)
         /\ (e.doc \in remote /\ ~TooBig(e.doc)) => got # Skip
         /\ items' \in Seq(Entry) /\ Once(items')
         /\ DocsOf(ToSet(items')) = IF got = Skip THEN Got ELSE Got \cup {e.doc}
<1>1. phase = "probe" /\ opt.kind \in {"fs", "url"} /\ got \in Looked(e) /\ got # Error
  BY DEF Probes, Basis, Control
<1>2. e \in Entry /\ e.doc \in Docs /\ Now(e.doc) \in Entry /\ Now(e.doc).doc = e.doc
  BY FetchTyped
<1>3. /\ got = Skip \/ got = Now(e.doc)
      /\ (e.doc \in remote /\ ~TooBig(e.doc)) => got # Skip
  <2>1. Now(e.doc) # Skip
    BY <1>2, Outcomes
  <2> QED
    BY <1>1, <2>1 DEF Looked, FsMeta, UrlMeta, TooBig
<1>4. items \in Seq(Entry) /\ Once(items) /\ ToSet(items) \in SUBSET Entry
  BY <1>1, DocsOfSeq DEF Basis, Typed, Control
<1>5. CASE got = Skip
  <2>1. items' = items
    BY <1>5 DEF Probes
  <2> QED
    BY <1>2, <1>3, <1>4, <1>5, <2>1 DEF Got
<1>6. CASE got # Skip
  <2> DEFINE S == ToSet(items) \cup {got}
  <2>1. got = Now(e.doc) /\ got \in Entry /\ got.doc = e.doc /\ S \in SUBSET Entry
    BY <1>2, <1>3, <1>4, <1>6
  <2>2. \A x, y \in ToSet(items) : x.doc = y.doc => x = y
    BY <1>4 DEF Once, ToSet
  <2>3. \A x \in ToSet(items) : x.doc # got.doc
    <3>1. e.doc \in DocsOf(todo) /\ DocsOf(todo) \cap Got = {}
      BY <1>1 DEF DocsOf, Basis, Control
    <3> QED
      BY <2>1, <3>1 DEF Got, DocsOf
  <2>4. \A x, y \in S : x.doc = y.doc => x = y
    BY <2>2, <2>3
  <2>5. IsFiniteSet(S)
    <3>1. IsFiniteSet(ToSet(items))
      <4> DEFINE n == Len(items)
                 f == [i \in 1..n |-> items[i]]
      <4>1. n \in Nat /\ 1 \in Int /\ n \in Int /\ DOMAIN items = 1..n
        BY <1>4
      <4>2. IsFiniteSet(1..n)
        BY <4>1, FS_Interval, Zenon
      <4>3. ToSet(items) = {items[i] : i \in 1..n}
        BY <4>1, Zenon DEF ToSet
      <4> HIDE DEF n
      <4>4. IsFiniteSet({items[i] : i \in 1..n})
        <5>1. f \in Surjection(1..n, {items[i] : i \in 1..n})
          BY DEF Surjection
        <5> QED
          BY <5>1, <4>2, FS_Surjection
      <4> QED
        BY <4>3, <4>4
    <3> QED
      BY <3>1, FS_AddElement
  <2>6. Keyed(S, ByDoc)
    <3>1. \A x \in S : x \in Entry /\ x.doc \in Docs /\ ByDoc[x] = Rank[x.doc]
      BY <2>1 DEF ByDoc, Entry
    <3>2. \A x, y \in Docs : Rank[x] = Rank[y] => x = y
      BY RemoteAssumption
    <3>3. \A x \in S : ByDoc[x] \in Int
      BY <3>1, Ranks
    <3>4. \A x, y \in S : ByDoc[x] = ByDoc[y] => x = y
      BY <3>1, <3>2, <2>4
    <3> HIDE DEF S
    <3> QED
      BY <2>5, <3>3, <3>4 DEF Keyed
  <2> DEFINE s == InOrder(S, ByDoc)
  <2>7. /\ s \in Seq(S) /\ ToSet(s) = S
        /\ \A i, j \in DOMAIN s : s[i] = s[j] => i = j
    BY <2>6, Ordered
  <2>8. items' = s
    BY <1>6 DEF Probes
  <2>9. \A i \in DOMAIN s : s[i] \in S
    BY <2>7
  <2> HIDE DEF s
  <2>10. Once(s)
    BY <2>4, <2>7, <2>9 DEF Once
  <2>11. s \in Seq(Entry)
    BY <2>1, <2>7
  <2>12. DocsOf(S) = Got \cup {e.doc}
    BY <2>1 DEF DocsOf, Got
  <2> HIDE DEF S
  <2> QED
    BY <1>2, <1>6, <2>1, <2>7, <2>8, <2>10, <2>11, <2>12, <1>3
<1> QED
  BY <1>5, <1>6

LEMMA BasisProbe == Basis /\ Probe => Basis' \/ Breaks
<1> SUFFICES ASSUME Basis, Probe, NEW e \in todo, NEW got, Probes(e, got) PROVE Basis'
  BY ProbeCases
<1>1. /\ e.doc \in Docs
      /\ items' \in Seq(Entry) /\ Once(items')
      /\ DocsOf(ToSet(items')) \subseteq Got \cup {e.doc}
  BY Probed
<1>2. /\ phase = "probe" /\ todo' = todo \ {e}
      /\ IF todo' = {} THEN phase' = "listed" /\ listed' = items' ELSE UNCHANGED <<phase, listed>>
      /\ UNCHANGED <<opt, remoteVars, cursor, queue, seen, projects, resolved, left, drive, cut, want, located, arts>>
  BY DEF Probes
<1>3. RemoteTypeOK' /\ Dated'
  BY <1>2 DEF Basis, Typed, RemoteTypeOK, Dated, remoteVars
<1>4. Typed'
  BY <1>1, <1>2, <1>3 DEF Basis, Typed
<1>5. /\ \A f, g \in todo : f.doc = g.doc => f = g
      /\ DocsOf(todo) \cap Got = {}
      /\ opt.kind \in {"fs", "url"}
  BY <1>2 DEF Basis, Control
<1>6. DocsOf(todo') \cap Got' = {}
  <2>1. \A d \in DocsOf(todo') : d \in DocsOf(todo) /\ d # e.doc
    BY <1>2, <1>5 DEF DocsOf
  <2> QED
    BY <1>1, <1>5, <2>1 DEF Got
<1>7. Control'
  BY <1>1, <1>2, <1>5, <1>6 DEF Basis, Control, Listing, Walk, Part
<1> QED
  BY <1>3, <1>4, <1>7 DEF Basis

\* A download keeps the basis.
LEMMA BasisLoads ==
  ASSUME Basis, NEW e \in todo, Loads(e)
  PROVE  Basis'
<1>1. /\ phase = "download" /\ phase' = phase /\ todo' = todo \ {e} /\ arts' \subseteq arts \cup {e, Now(e.doc), Hollow(e.doc)}
      /\ located' \subseteq Docs /\ UNCHANGED <<opt, listVars, listed, want, remoteVars>>
  BY FetchTyped DEF Loads
<1>2. RemoteTypeOK' /\ Dated'
  BY <1>1 DEF Basis, Typed, RemoteTypeOK, Dated, remoteVars
<1>3. Typed'
  BY <1>1, <1>2, FetchTyped, Outcomes DEF Basis, Typed, listVars
<1>4. Control'
  BY <1>1 DEF Basis, Control, Listing, listVars
<1> QED
  BY <1>2, <1>3, <1>4 DEF Basis

LEMMA BasisBreaks == Basis /\ Breaks => Basis'
<1> SUFFICES ASSUME Basis, Breaks PROVE Basis'
  OBVIOUS
<1>1. RemoteTypeOK' /\ Dated'
  BY DEF Basis, Typed, RemoteTypeOK, Dated, remoteVars, Breaks
<1>2. Typed'
  BY <1>1 DEF Basis, Typed, Breaks, Broken, Start
<1>3. Control'
  BY DEF Basis, Control, Breaks, Broken, Listing
<1> QED
  BY <1>1, <1>2, <1>3 DEF Basis

LEMMA BasisEnds == Basis /\ Ends => Basis'
<1> SUFFICES ASSUME Basis, Ends PROVE Basis'
  OBVIOUS
<1>1. RemoteTypeOK' /\ Dated'
  BY DEF Basis, Typed, RemoteTypeOK, Dated, remoteVars, Ends
<1>2. Typed'
  BY <1>1 DEF Basis, Typed, Ends, listVars, fetchVars
<1>3. Control'
  BY DEF Basis, Control, Ends, Listing, listVars, fetchVars
<1> QED
  BY <1>1, <1>2, <1>3 DEF Basis

LEMMA BasisStill == Basis /\ Still => Basis'
<1> SUFFICES ASSUME Basis, Still PROVE Basis'
  OBVIOUS
<1>1. RemoteTypeOK' /\ Dated'
  BY DEF Basis, Typed, RemoteTypeOK, Dated, remoteVars, Still
<1>2. Typed'
  BY <1>1 DEF Basis, Typed, Still, listVars, fetchVars
<1>3. Control'
  BY DEF Basis, Control, Still, Listing, listVars, fetchVars, Walk, Part, Got
<1> QED
  BY <1>1, <1>2, <1>3 DEF Basis

LEMMA BasisChoose == Basis /\ Choose => Basis'
<1> SUFFICES ASSUME Basis, Choose PROVE Basis'
  OBVIOUS
<1>1. /\ phase = "listed" /\ phase' = "relist" /\ cursor' = Start
      /\ items' = <<>> /\ queue' = <<>> /\ seen' = {} /\ left' = projects
      /\ touched' \in {touched, {}} /\ removed' \in {removed, 0}
      /\ UNCHANGED <<opt, projects, resolved, drive, cut, listed, todo, located, arts>>
      /\ UNCHANGED <<remote, recent, rev, parent, edits>>
  BY DEF Choose
<1>2. RemoteTypeOK' /\ Dated'
  BY <1>1, Bounds DEF Basis, Typed, RemoteTypeOK, Dated
<1>3. want' \subseteq Docs
  <2>1. listed \in Seq(Entry)
    BY DEF Basis, Typed
  <2>2. ToSet(listed) \in SUBSET Entry
    BY <2>1, DocsOfSeq
  <2>3. DocsOf(ToSet(listed)) \subseteq Docs /\ \A e \in ToSet(listed) : {e.doc} \subseteq Docs
    BY <2>2 DEF DocsOf, Entry
  <2> QED
    BY <2>3 DEF Choose
<1>4. Typed'
  BY <1>1, <1>2, <1>3 DEF Basis, Typed, Start
<1>5. Control'
  <2>1. ToSet(<<>>) = {}
    BY DEF ToSet
  <2> QED
    BY <1>1, <2>1 DEF Basis, Control, Listing, Start, End
<1> QED
  BY <1>2, <1>4, <1>5 DEF Basis

LEMMA BasisEdit == Basis /\ RemoteEdit => Basis'
<1> SUFFICES ASSUME Basis, RemoteEdit PROVE Basis'
  OBVIOUS
<1>1. UNCHANGED <<opt, phase, listVars, fetchVars>>
  BY DEF RemoteEdit
<1>2. RemoteTypeOK' /\ Dated'
  <2> USE Bounds DEF Basis, Typed, RemoteTypeOK, Dated
  <2>1. ASSUME NEW d \in Docs, Write(d) PROVE RemoteTypeOK' /\ Dated'
    <3>1. /\ edits < MaxEdits /\ edits' = edits + 1 /\ touched' = touched \cup {d}
          /\ remote' = remote \cup {d} /\ recent' = [recent EXCEPT ![d] = 0 - edits]
          /\ rev' = [rev EXCEPT ![d] = @ + 1] /\ parent' = parent /\ removed' = removed
      BY <2>1 DEF Write, Edited
    <3>2. RemoteTypeOK'
      BY <3>1
    <3>3. \A x \in Docs : recent'[x] = IF x = d THEN 0 - edits ELSE recent[x]
      BY <3>1
    <3>4. \A x, y \in Docs : recent'[x] = recent'[y] => x = y
      <4>1. /\ \A x \in Docs : recent[x] # 0 - edits
            /\ \A x, y \in Docs : recent[x] = recent[y] => x = y
        OBVIOUS
      <4> QED
        BY <3>3, <4>1, Zenon
    <3>5. \A x \in Docs : rev'[x] <= edits' /\ recent'[x] > 0 - edits'
      BY <3>1, <3>3
    <3> QED
      BY <3>1, <3>2, <3>4, <3>5
  <2>2. ASSUME NEW d \in Docs, Vanish(d) PROVE RemoteTypeOK' /\ Dated'
    <3>1. /\ edits < MaxEdits /\ edits' = edits + 1 /\ touched' = touched \cup {d}
          /\ remote' = remote \ {d} /\ removed' = removed + 1 /\ UNCHANGED <<recent, rev, parent>>
      BY <2>2 DEF Vanish, Edited
    <3> QED
      BY <3>1
  <2>3. ASSUME NEW d \in Docs, NEW p \in Docs, Move(d, p) PROVE RemoteTypeOK' /\ Dated'
    <3>1. /\ edits < MaxEdits /\ edits' = edits + 1 /\ touched' = touched \cup Subtree(d)
          /\ parent' = [parent EXCEPT ![d] = p] /\ removed' = removed + 1 /\ UNCHANGED <<remote, recent, rev>>
      BY <2>3 DEF Move, Edited
    <3>2. Subtree(d) \subseteq Docs
      BY DEF Subtree
    <3> QED
      BY <3>1, <3>2
  <2> QED
    BY <2>1, <2>2, <2>3 DEF RemoteEdit, Edit
<1>3. Typed'
  BY <1>1, <1>2 DEF Basis, Typed, listVars, fetchVars
<1>4. Control'
  BY <1>1 DEF Basis, Control, Listing, listVars, fetchVars, Walk, Part, Got
<1> QED
  BY <1>2, <1>3, <1>4 DEF Basis

-----------------------------------------------------------------------------
(* The types and the phases are kept.                                       *)

\* The inductive invariant of types and of the token.
CInv == Basis /\ TInv

\* It holds at the start.
LEMMA BasisInitially == Init => CInv
<1> SUFFICES ASSUME Init PROVE CInv
  OBVIOUS
<1>1. TInv
  BY TokenInitially DEF Init
<1>2. PICK w \in Worlds : opt = w.opt /\ RemoteInit(w.docs)
  BY DEF Init
<1>3. w.opt \in Option /\ w.docs \subseteq Docs
  BY ConnectorAssumption
<1>4. RemoteTypeOK /\ Dated
  BY <1>2, <1>3, RemoteAssumption DEF RemoteInit, RemoteTypeOK, Dated
<1>5. Typed
  <2>1. /\ phase \in {"list", "relist"} /\ cursor = 1 /\ items = <<>> /\ listed = <<>> /\ queue = <<>>
        /\ seen = {} /\ projects = {} /\ left = {} /\ resolved = FALSE /\ cut = FALSE /\ drive = 0
        /\ want \in {Docs, {}} /\ todo = {} /\ located = {} /\ arts = {}
    BY Zenon DEF Init, Start
  <2>2. <<>> \in Seq(Entry) /\ <<>> \in Seq(Docs)
    OBVIOUS
  <2>3. /\ items \in Seq(Entry) /\ listed \in Seq(Entry) /\ queue \in Seq(Docs) /\ cursor \in Nat
        /\ drive \in 0..2 /\ opt \in Option
    BY <1>2, <1>3, <2>1, <2>2
  <2> QED
    BY <1>4, <2>1, <2>3, Zenon DEF Typed
<1>6. Control
  <2>1. ToSet(<<>>) = {}
    BY DEF ToSet
  <2> QED
    BY <2>1 DEF Init, Control, Listing, Start, End
<1> QED
  BY <1>1, <1>4, <1>5, <1>6 DEF CInv, Basis

\* Every step keeps it.
LEMMA BasisInductive == CInv /\ [Next]_vars => CInv' /\ (Moves \/ Still) /\ [TokenNext]_tokenVars
<1> SUFFICES ASSUME CInv, [Next]_vars PROVE CInv' /\ (Moves \/ Still) /\ [TokenNext]_tokenVars
  OBVIOUS
<1>1. Basis /\ TInv /\ todo \in SUBSET Entry /\ located \in SUBSET Docs
  BY DEF CInv, Basis, Typed
<1>2. (Moves \/ Still) /\ [TokenNext]_tokenVars
  BY <1>1, EveryStep
<1>3. TInv'
  BY <1>1, <1>2, TokenInductive
<1>4. Lists => Basis'
  <2>1. ConfluenceChildren => Basis'
    BY <1>1, WalkCases, BasisWalk, BasisBreaks
  <2>2. GitlabTree => Basis'
    BY <1>1, TreeCases, BasisTree, BasisBreaks
  <2>3. Resumes => Basis'
    BY <1>1, ResumeCases, BasisResume
  <2>4. Provider \/ Probe => Basis'
    BY <1>1, BasisProvider, BasisProbe, BasisBreaks
  <2> QED
    BY <1>1, <2>1, <2>2, <2>3, <2>4, BasisSpace, BasisRoot, BasisJira, BasisProjects, BasisDone,
       BasisGithub, BasisDrive, BasisFinds, BasisNone DEF Lists
<1>5. Moves => Basis'
  BY <1>1, <1>4, BasisBreaks, BasisEdit, BasisChoose, BasisEnds, BasisLoads DEF Moves
<1>6. Still => Basis'
  BY <1>1, BasisStill
<1> QED
  BY <1>2, <1>3, <1>5, <1>6 DEF CInv

\* So it always holds.
LEMMA BasisAlways == Spec => []CInv
<1>1. CInv /\ [Next]_vars => CInv'
  BY BasisInductive
<1> QED
  BY <1>1, BasisInitially, PTL DEF Spec

(* The state of every connector, of its token and of the service keeps its  *)
(* types, whatever the service does between two requests (the dictionaries  *)
(* and lists of src/alvis/sources).                                         *)
THEOREM ConnectorTypes == Spec => []TypeOK
<1>1. CInv => TypeOK
  BY DEF CInv, Basis, Typed, TInv, TypeOK
<1> QED
  BY <1>1, BasisAlways, PTL

(* A run of the two connectors with a token makes no step that their        *)
(* protocol does not make: every request goes through _ensure_token.        *)
THEOREM KeepsTokenProtocol == Spec => TokenProtocol
<1>1. Init => TokenInit
  BY DEF Init
<1>2. CInv /\ [Next]_vars => [TokenNext]_tokenVars
  BY BasisInductive
<1> QED
  BY <1>1, <1>2, BasisAlways, PTL DEF Spec, TokenProtocol

\* The token's part of it holds of the protocol alone.
LEMMA TokenAlways == TokenSpec => []TInv
BY TokenInitially, TokenInductive, PTL DEF TokenSpec

(* The first attempt of a request carries a good token, and a server        *)
(* refuses only a repeated one (_ensure_token, _graph, HttpClient.request); *)
(* so of the protocol, and of the connectors that keep to it.               *)
THEOREM TokenFresh ==
  /\ TokenSpec => []RefusedOnlyOnRetry
  /\ Spec => []RefusedOnlyOnRetry
<1>1. TInv => RefusedOnlyOnRetry
  BY TokenAssumption DEF TInv, TokenTypeOK, Attempts, RefusedOnlyOnRetry
<1>2. CInv => TInv
  BY DEF CInv
<1> QED
  BY <1>1, <1>2, TokenAlways, BasisAlways, PTL

(* However many coroutines find the token stale at once, one asks for a new *)
(* one (_token_lock and the check under it).                                *)
THEOREM TokenOnce ==
  /\ TokenSpec => []OneTokenPerLife
  /\ Spec => []OneTokenPerLife
<1>1. TInv => OneTokenPerLife
  BY DEF TInv, TokenTypeOK, Accounted, OneTokenPerLife
<1>2. CInv => TInv
  BY DEF CInv
<1> QED
  BY <1>1, <1>2, TokenAlways, BasisAlways, PTL

-----------------------------------------------------------------------------
(* What is delivered is what was listed.                                    *)

\* A list step that does not fail leaves the rest of the run alone, and when it
\* ends the listing hands it over.
ListsOn ==
  /\ UNCHANGED <<opt, remoteVars, want, arts>>
  /\ \/ phase' = phase /\ listed' = listed /\ phase \in {"list", "relist", "probe"}
     \/ phase = "list" /\ phase' = "probe" /\ listed' = listed /\ items' = items /\ cursor' = cursor
     \/ phase \in {"list", "probe"} /\ phase' = "listed" /\ listed' = items'
     \/ /\ phase = "relist" /\ phase' = "download" /\ listed' = listed
        /\ todo' = {e \in ToSet(items') : e.doc \in want}

\* A listing that goes on or is complete is such a step.
LEMMA OnOrComplete ==
  ASSUME Listing, UNCHANGED <<opt, remoteVars>>, Complete \/ GoesOn
  PROVE  ListsOn
BY DEF Listing, Complete, GoesOn, fetchVars, ListsOn

\* Every step of a listing is, or breaks off.
LEMMA ListsCases == Basis /\ Lists => Breaks \/ ListsOn
<1> SUFFICES ASSUME Basis, Lists, ~Breaks PROVE ListsOn
  OBVIOUS
<1>1. CASE ConfluenceSpace \/ Jira \/ GitlabDone \/ Github \/ NoneList
  <2>1. Listing /\ UNCHANGED <<opt, remoteVars>> /\ (Complete \/ GoesOn)
    BY <1>1 DEF ConfluenceSpace, Jira, GitlabDone, Github, NoneList, Page, Took, Plain, GoesOn
  <2> QED
    BY <2>1, OnOrComplete
<1>2. CASE ConfluenceRoot \/ GitlabProjects \/ FindsDrive
  <2>1. Listing /\ UNCHANGED <<opt, remoteVars>> /\ (Complete \/ GoesOn)
    BY <1>2 DEF ConfluenceRoot, GitlabProjects, FindsDrive, Plain, GoesOn
  <2> QED
    BY <2>1, OnOrComplete
<1>3. CASE ConfluenceChildren
  <2>1. Listing /\ UNCHANGED <<opt, remoteVars>> /\ (Complete \/ GoesOn)
    BY <1>3, WalkCases DEF ConfluenceChildren, WalkStep
  <2> QED
    BY <2>1, OnOrComplete
<1>4. CASE GitlabTree
  <2>1. Listing /\ UNCHANGED <<opt, remoteVars>> /\ (Complete \/ GoesOn)
    BY <1>4, TreeCases DEF GitlabTree, TreeReads, TreeSkips, GoesOn
  <2> QED
    BY <2>1, OnOrComplete
<1>5. CASE Resumes
  <2>1. Listing /\ UNCHANGED <<opt, remoteVars>> /\ (Complete \/ GoesOn)
    BY <1>5, ResumeCases DEF Resumes, ResumeStep
  <2> QED
    BY <2>1, OnOrComplete
<1>6. CASE Provider
  <2>1. Listing /\ UNCHANGED <<opt, remoteVars>> /\ (Complete \/ GoesOn)
    BY <1>6, ProviderCases DEF Provider, ProviderReads, ProviderKeeps
  <2> QED
    BY <2>1, OnOrComplete
<1>7. CASE FsDiscover \/ UrlList
  <2>1. PICK S : Listing /\ (ProbesFrom(S) \/ FoundAll(S))
    BY <1>7, FoundBy
  <2>2. CASE ProbesFrom(S)
    BY <2>2 DEF ProbesFrom, ListsOn, listVars
  <2>3. CASE FoundAll(S)
    BY <2>1, <2>3, OnOrComplete DEF FoundAll
  <2> QED
    BY <2>1, <2>2, <2>3
<1>8. CASE Probe
  <2>1. PICK e \in todo : \E got : Probes(e, got)
    BY <1>8, ProbeCases
  <2> QED
    BY <2>1, Zenon DEF Probes, ListsOn
<1> QED
  BY <1>1, <1>2, <1>3, <1>4, <1>5, <1>6, <1>7, <1>8 DEF Lists

\* What a provider delivers stays what it listed.
Kept ==
  /\ Paired
  /\ opt.kind = "provider" /\ ~opt.full /\ phase = "download" => items = listed

\* Every step keeps it.
LEMMA KeptInductive ==
  ASSUME Basis, Kept, Moves \/ Still
  PROVE  Kept'
<1>1. CASE Breaks
  BY <1>1 DEF Breaks, Broken, Kept, Paired
<1>2. CASE Still \/ Ends \/ RemoteEdit
  BY <1>2 DEF Still, Ends, RemoteEdit, Kept, Paired, listVars, fetchVars
<1>3. CASE Choose
  BY <1>3 DEF Choose, Kept, Paired, Basis, Control
<1>4. ASSUME NEW e \in todo, Loads(e) PROVE Kept'
  <2>1. /\ phase = "download" /\ e \in ToSet(items)
        /\ UNCHANGED <<opt, phase, items, listed>>
        /\ opt.kind \in {"gitlab", "provider"} => arts' \subseteq arts \cup {e}
    BY <1>4, FetchTyped DEF Loads, Basis, Control, listVars
  <2> QED
    BY <2>1 DEF Kept, Paired
<1>5. CASE Lists /\ ListsOn
  <2>1. arts' = {} /\ UNCHANGED opt
    BY <1>5 DEF ListsOn, Basis, Control
  <2>2. ASSUME opt.kind = "provider", ~opt.full, phase' = "download" PROVE items' = listed'
    <3>1. phase = "relist" /\ listed' = listed /\ ~Breaks
      BY <1>5, <2>2 DEF ListsOn, Basis, Control, Breaks, Broken
    <3>2. Provider
      <4>1. ~Probe
        BY <3>1 DEF Probe
      <4> QED
        BY <1>5, <2>2, <4>1
           DEF Lists, ConfluenceSpace, ConfluenceRoot, ConfluenceChildren, Jira, GitlabProjects, GitlabTree,
               GitlabDone, Github, Resumes, ByToken, FindsDrive, FsDiscover, UrlList, NoneList
    <3>3. ProviderKeeps
      BY <2>2, <3>1, <3>2, ProviderCases DEF Cached
    <3> QED
      BY <3>1, <3>3 DEF ProviderKeeps
  <2> QED
    BY <2>1, <2>2 DEF Kept, Paired
<1> QED
  BY <1>1, <1>2, <1>3, <1>4, <1>5, ListsCases DEF Moves

(* The bodies a provider delivers are those whose fingerprints it listed,   *)
(* and a blob of GitLab is the one its second listing names, whatever       *)
(* changed between the two listings and the download (ProviderSource._all,  *)
(* GitLabSource._fetch_one).                                                *)
THEOREM DeliversWhatWasListed == Spec => []Paired
<1>1. Init => Kept
  BY DEF Init, Kept, Paired
<1>2. CInv /\ Kept /\ [Next]_vars => Kept'
  BY BasisInductive, KeptInductive DEF CInv
<1>3. Kept => Paired
  BY DEF Kept
<1> QED
  BY <1>1, <1>2, <1>3, BasisAlways, PTL DEF Spec

-----------------------------------------------------------------------------
(* Nothing is listed twice.                                                 *)

\* Of what a listing without offsets, or a walk, has gathered nothing can come again.
Distinct ==
  ~Offset \/ Walk =>
    /\ Once(items)
    /\ (Listing /\ ByToken) => \A d \in Got : Rank[d] < cursor
    /\ (Listing /\ (Walk \/ opt.kind = "provider")) => Got \subseteq seen
    /\ (opt.kind = "provider" /\ phase \in {"listed", "relist"}) => Once(listed)

\* In an empty listing nothing is there twice.
LEMMA NothingOnce == Once(<<>>) /\ DocsOf(ToSet(<<>>)) = {}
BY DEF Once, DocsOf, ToSet

\* Every step of a listing keeps documents distinct.
LEMMA DistinctLists ==
  ASSUME Basis, Distinct, Lists, ListsOn
  PROVE  Distinct'
<1> USE DEF Distinct, Offset, Walk, ByToken
<1> DEFINE D(s) == DocsOf(ToSet(s))
<1>1. UNCHANGED opt /\ (Part <=> Part')
  BY DEF ListsOn, Part
<1>2. phase' # "failed" /\ ~Breaks
  BY DEF ListsOn, Breaks, Broken
<1>3. CASE ConfluenceSpace \/ Jira \/ GitlabProjects \/ GitlabTree \/ GitlabDone
  BY <1>1, <1>3 DEF ConfluenceSpace, Jira, GitlabProjects, GitlabTree, GitlabDone
<1>4. CASE ConfluenceRoot
  <2>1. PICK r \in remote : items' = Entries(<<r>>) /\ seen' = {r}
    BY <1>4 DEF ConfluenceRoot
  <2>2. r \in Docs /\ rev \in [Docs -> 0..MaxEdits]
    BY DEF Basis, Typed, RemoteTypeOK
  <2>3. <<r>> \in Seq(Docs)
    BY <2>2
  <2>4. /\ items' \in Seq(Entry) /\ DOMAIN items' = {1} /\ items'[1].doc = r
    <3>1. /\ Entries(<<r>>) \in Seq(Entry)
          /\ DOMAIN Entries(<<r>>) = DOMAIN <<r>>
          /\ \A i \in DOMAIN <<r>> : Entries(<<r>>)[i].doc = <<r>>[i]
      BY <2>2, <2>3, EntriesOf
    <3>2. DOMAIN <<r>> = {1} /\ <<r>>[1] = r
      OBVIOUS
    <3> QED
      BY <2>1, <3>1, <3>2
  <2>5. Once(items')
    BY <2>4 DEF Once
  <2>6. Got' \subseteq seen'
    BY <2>1, <2>4, DocsOfSeq DEF Got
  <2> QED
    BY <1>1, <1>4, <2>5, <2>6 DEF ConfluenceRoot
<1>5. CASE ConfluenceChildren
  <2>1. WalkStep /\ Listing /\ queue # <<>> /\ opt.kind = "confluence" /\ Walk
    BY <1>2, <1>5, WalkCases DEF ConfluenceChildren
  <2>2. WalkNew \in SUBSET Docs
    BY <2>1, WalkTyped
  <2>3. Gathers(WalkNew)
    BY <2>1, <2>2, DocsKeyed, Gathered DEF WalkStep, ByRank, Basis
  <2>4. WalkNew \cap Got = {} /\ Once(items) /\ Got \subseteq seen
    BY <2>1 DEF WalkNew, Fresh
  <2>5. Once(items') /\ Got' \subseteq seen'
    BY <2>1, <2>3, <2>4 DEF Gathers, WalkStep, Got
  <2> QED
    BY <1>1, <2>1, <2>5
<1>6. CASE Github
  <2> DEFINE S == {d \in TreeItems.items : Wanted(d)}
  <2>1. TreeItems.items \in SUBSET Docs
    BY DEF TreeItems, Basis, Typed, RemoteTypeOK
  <2>2. Gathers(S)
    BY <1>6, <2>1, GatheredPage DEF Github, Basis
  <2>3. items = <<>>
    BY <1>6 DEF Github, Basis, Control
  <2> HIDE DEF S
  <2>4. Once(items')
    BY <2>2, <2>3, NothingOnce DEF Gathers, Got
  <2> QED
    BY <1>1, <1>6, <2>4 DEF Github
<1>7. CASE Resumes
  <2>1. PICK S : ResumeStep(S)
    BY <1>7, ResumeCases
  <2> DEFINE page == Resume(S, cursor)
             N == {d \in page.items : Wanted(d)}
  <2>2. Listing /\ cursor \in Nat \ {0} /\ S \in SUBSET Docs /\ Keyed(S, Rank)
    BY <1>7, <2>1, CursorAt, PlacesKeyed DEF Resumes, ResumeStep
  <2>3. \A d \in page.items : Rank[d] >= cursor /\ (page.next # End => Rank[d] < page.next)
    BY <2>2, ResumedPage
  <2>4. page.next # End => page.next > cursor
    BY <2>2, ResumedPage
  <2>5. \A d \in N : Rank[d] >= cursor /\ (page.next # End => Rank[d] < page.next)
    BY <2>3
  <2>6. /\ Gathers(N) /\ cursor' = page.next /\ page.next \in Nat
        /\ IF page.next = End THEN Complete ELSE GoesOn
    BY <2>1 DEF ResumeStep
  <2>7. \A d \in Got : d \in Docs /\ Rank[d] \in Nat /\ Rank[d] < cursor
    <3>1. Got \in SUBSET Docs
      BY DocsOfSeq, DocOfEntry DEF Got, Basis, Typed
    <3> QED
      BY <1>7, <2>2, <3>1, Ranks DEF Resumes
  <2> HIDE DEF N, page
  <2>8. N \cap Got = {}
    BY <2>2, <2>5, <2>7
  <2>9. Once(items') /\ Got' = Got \cup N
    BY <1>7, <2>6, <2>8 DEF Gathers, Got, Resumes
  <2>10. cursor' # End => \A d \in Got' : Rank[d] < cursor'
    BY <2>2, <2>4, <2>5, <2>6, <2>7, <2>9
  <2>11. cursor' = End => ~Listing'
    BY <2>6 DEF Complete, Listing
  <2> QED
    BY <1>1, <1>7, <2>9, <2>10, <2>11 DEF Resumes
<1>8. CASE FindsDrive
  BY <1>1, <1>8 DEF FindsDrive, Listing, Got
<1>9. CASE FsDiscover \/ UrlList
  <2>1. PICK S \in SUBSET Docs : /\ opt.kind \in {"fs", "url"} /\ Listing
                                 /\ ProbesFrom(S) \/ FoundAll(S)
    BY <1>9, FoundBy
  <2>2. items = <<>>
    BY <2>1 DEF Basis, Control
  <2>3. Once(items')
    <3>1. CASE ProbesFrom(S)
      BY <2>2, <3>1, NothingOnce DEF ProbesFrom, listVars
    <3>2. CASE FoundAll(S)
      BY <2>2, <3>2, GatheredFound DEF FoundAll, Basis
    <3> QED
      BY <2>1, <3>1, <3>2
  <2> QED
    BY <1>1, <2>1, <2>3
<1>10. CASE Provider
  <2>1. Listing /\ opt.kind = "provider" /\ Once(items) /\ Got \subseteq seen
    BY <1>10 DEF Provider
  <2>2. CASE ProviderKeeps
    BY <1>1, <2>1, <2>2 DEF ProviderKeeps, Cached, Complete, Listing
  <2>3. CASE ProviderReads
    <3>1. Gathers(ProviderNew)
      BY <2>3, ProviderTyped, Gathered DEF ProviderReads, ByRank, Basis
    <3>2. ProviderNew \cap Got = {}
      BY <2>1, <2>3 DEF ProviderReads, ProviderNew
    <3>3. Once(items') /\ Got' \subseteq seen'
      BY <2>1, <2>3, <3>1, <3>2 DEF Gathers, Got, ProviderReads
    <3>4. phase' \in {"listed", "relist"} => Once(listed')
      BY <2>1, <3>3 DEF ListsOn, Listing
    <3> QED
      BY <1>1, <2>1, <3>3, <3>4
  <2> QED
    BY <1>2, <1>10, <2>2, <2>3, ProviderCases
<1>11. CASE NoneList
  BY <1>1, <1>11, NothingOnce DEF NoneList, Took
<1>12. CASE Probe
  <2>1. PICK e \in todo : \E got : Probes(e, got)
    BY <1>2, <1>12, ProbeCases
  <2>2. Once(items') /\ opt.kind \in {"fs", "url"}
    BY <1>12, <2>1, Probed DEF Probe, Basis, Control
  <2> QED
    BY <1>1, <2>2
<1> QED
  BY <1>3, <1>4, <1>5, <1>6, <1>7, <1>8, <1>9, <1>10, <1>11, <1>12 DEF Lists

\* Every step does.
LEMMA DistinctInductive ==
  ASSUME Basis, Distinct, Moves \/ Still
  PROVE  Distinct'
<1>1. CASE Breaks
  BY <1>1, NothingOnce DEF Breaks, Broken, Distinct, Listing
<1>2. CASE Still \/ Ends \/ RemoteEdit \/ \E e \in todo : Loads(e)
  <2>1. /\ UNCHANGED <<opt, items, cursor, seen, listed>>
        /\ phase' = phase \/ phase' = "done"
    BY <1>2 DEF Still, Ends, RemoteEdit, Loads, listVars, fetchVars
  <2> QED
    BY <2>1 DEF Distinct, Offset, Walk, Part, ByToken, Listing, Got
<1>3. CASE Choose
  <2>1. UNCHANGED <<opt, listed>> /\ items' = <<>> /\ phase = "listed" /\ phase' = "relist"
    BY <1>3 DEF Choose
  <2> QED
    BY <2>1, NothingOnce DEF Distinct, Offset, Walk, Part, ByToken, Listing, Got
<1> QED
  BY <1>1, <1>2, <1>3, ListsCases, DistinctLists DEF Moves

(* Without offsets no document is listed twice, nor in a page tree whose    *)
(* pages move while it is walked, nor from providers that share documents   *)
(* (the next_token and nextPageToken loops, _list_tree, ProviderSource._all).*)
THEOREM ListsNothingTwice == Spec => []NoneTwice
<1>1. Init => Distinct
  BY NothingOnce DEF Init, Distinct, Got
<1>2. CInv /\ Distinct /\ [Next]_vars => Distinct'
  BY BasisInductive, DistinctInductive DEF CInv
<1>3. Distinct => NoneTwice
  <2> SUFFICES ASSUME Once(items) PROVE IsInjective([i \in DOMAIN items |-> items[i].doc])
    BY DEF Distinct, NoneTwice, Walk
  <2> QED
    BY DEF Once, IsInjective
<1> QED
  BY <1>1, <1>2, <1>3, BasisAlways, PTL DEF Spec

-----------------------------------------------------------------------------
(* Nothing is missed.                                                       *)

\* The entries of the pages before a page.
Before(c) == (c - 1) * PageLimit
\* The pages right below a page.
ChildrenOf(p) == {e \in remote \ {p} : parent[e] = p}

\* The listing is past the document d: of a page tree, of a project, and by its kind.
WalkBehind(d) ==
  /\ parent[d] \in seen
  /\ \/ parent[d] \notin ToSet(queue)
     \/ parent[d] = Head(queue) /\ Place(d, ChildrenOf(parent[d]), Rank) < cursor
TreeBehind(d, i) ==
  \/ i \notin left
  \/ i = Min(left) /\ Place(d, Tree(i), Rank) <= Before(cursor)
HomeOf(d, i) == i \in Sought /\ Projects[i].id = Home(d) /\ ~Projects[i].bare
Behind(d) ==
  \/ opt.kind = "confluence" /\ ~Part /\ Place(d, remote, Rank) < cursor
  \/ Walk /\ WalkBehind(d)
  \/ opt.kind = "jira" /\ Place(d, remote, recent) < cursor
  \/ opt.kind = "gitlab" /\ resolved /\ \E i \in DOMAIN Projects : HomeOf(d, i) /\ TreeBehind(d, i)
  \/ ByToken /\ Rank[d] < cursor
  \/ opt.kind = "provider" /\ \E h \in Meta[d].home : h < cursor
\* What the listing is past and has not got, and how much of it removals excuse.
Lost == {d \in Settled \ Got : Behind(d)}
Slack == IF Offset THEN removed ELSE 0

\* The projects before the page the listing of the group is at are resolved.
Resolving ==
  opt.kind = "gitlab" =>
    /\ resolved => Sought \subseteq projects
    /\ ~resolved /\ ~Part => \A i \in Sought : i <= Before(cursor) => i \in projects
    /\ (Listing /\ resolved /\ left # {}) => (Projects[Min(left)].bare => cursor = Start)

\* A listing has got all it is past, but for what removals hid; one that is complete has got all.
Reached ==
  /\ cut => opt.kind = "github"
  /\ (Listing /\ ~cut) => Cardinality(Lost) <= Slack
  /\ (Walk /\ Listing) => seen \subseteq Got
  /\ phase = "probe" => Settled \subseteq Got \cup DocsOf(todo)
  /\ NoneMissed
  /\ (opt.kind = "provider" /\ ~opt.full /\ phase = "relist") => Settled \subseteq DocsOf(ToSet(listed))

\* Sets of documents are finite.
LEMMA Counted ==
  ASSUME Basis
  PROVE  /\ \A S \in SUBSET Docs : IsFiniteSet(S) /\ Cardinality(S) \in Nat
         /\ \A S \in SUBSET Docs : \A T \in SUBSET S : Cardinality(T) <= Cardinality(S)
         /\ Settled \in SUBSET Docs /\ Lost \in SUBSET Docs /\ Got \in SUBSET Docs
         /\ \A S \in SUBSET Docs : Topmost(S) \in SUBSET S
         /\ Slack \in Nat /\ removed \in Nat
         /\ Cardinality({}) = 0
<1>1. \A S \in SUBSET Docs : IsFiniteSet(S)
  BY Bounds, FS_Subset, Zenon
<1>2. \A S \in SUBSET Docs : Cardinality(S) \in Nat
  BY <1>1, FS_CardinalityType
<1>3. \A S \in SUBSET Docs : \A T \in SUBSET S : Cardinality(T) <= Cardinality(S)
  BY <1>1, FS_Subset, Zenon
<1>4. remote \in SUBSET Docs /\ removed \in 0..MaxEdits
  BY DEF Basis, Typed, RemoteTypeOK
<1>5. Settled \in SUBSET Docs /\ Lost \in SUBSET Docs
  BY <1>4 DEF Settled, Lost
<1>6. Got \in SUBSET Docs
  BY DocsOfSeq, DocOfEntry DEF Got, Basis, Typed
<1>7. removed \in Nat /\ Slack \in Nat
  BY <1>4, Bounds DEF Slack
<1>8. Cardinality({}) = 0
  BY FS_EmptySet
<1> QED
  BY <1>1, <1>2, <1>3, <1>5, <1>6, <1>7, <1>8 DEF Topmost

\* What is wanted depends on the configuration alone.
LEMMA SameWishes ==
  ASSUME opt' = opt
  PROVE  /\ \A d : Wanted(d)' <=> Wanted(d)
         /\ Offset' <=> Offset
         /\ Walk' <=> Walk
         /\ ByToken' <=> ByToken
         /\ Sought' = Sought
         /\ Part' <=> Part
         /\ \A d : TooBig(d)' <=> TooBig(d)
<1>1. Part' <=> Part
  BY DEF Part
<1>2. Sought' = Sought
  BY <1>1 DEF Sought
<1> QED
  BY <1>1, <1>2
     DEF Wanted, Offset, Walk, ByToken, TooBig, ByGlobs, GithubWanted, GitlabWanted, S3Wanted, GdriveWanted,
         SharepointWanted, FsWanted

\* What is settled depends on the service alone.
LEMMA SameRemote ==
  ASSUME UNCHANGED <<opt, remoteVars>>
  PROVE  Settled' = Settled /\ Slack' = Slack
<1>1. UNCHANGED <<remote, touched, removed>>
  BY DEF remoteVars
<1> QED
  BY <1>1, SameWishes DEF Settled, Slack

\* Where the listing is not complete nothing counts as missed.
LEMMA NotYetMissed ==
  ASSUME Basis, phase \notin {"listed", "done", "download"}
  PROVE  NoneMissed
<1>1. Settled \ ListedNow = {}
  BY Counted DEF ListedNow
<1>2. Topmost({}) = {}
  BY DEF Topmost
<1> QED
  BY <1>1, <1>2, Counted DEF NoneMissed, Slack

\* What a list step has to show.
LEMMA ReachedAfter ==
  ASSUME Basis, Reached, Basis', ListsOn,
         cut' => opt.kind = "github",
         cut => cut',
         (Listing' /\ ~cut') => Lost' \in SUBSET Lost /\ Listing,
         (phase' \in {"listed", "download"} /\ ~cut')
           => (Listing /\ Topmost(Settled \ Got)' \in SUBSET Lost) \/ (Settled \ Got)' = {},
         (Walk /\ Listing') => (seen \subseteq Got)',
         phase' = "probe" => (Settled \subseteq Got \cup DocsOf(todo))'
  PROVE  Reached'
<1>1. /\ UNCHANGED <<opt, remoteVars>> /\ Settled' = Settled /\ Slack' = Slack
      /\ phase' \notin {"failed", "done"}
  BY SameRemote DEF ListsOn, Basis, Typed
<1>2. (Listing' /\ ~cut') => Cardinality(Lost') <= Slack'
  <2> SUFFICES ASSUME Listing', ~cut' PROVE Cardinality(Lost') <= Slack'
    OBVIOUS
  <2>1. ~cut /\ Listing /\ Lost' \in SUBSET Lost /\ Lost \in SUBSET Docs
    BY Counted
  <2>2. Cardinality(Lost') <= Cardinality(Lost) /\ Cardinality(Lost) \in Nat /\ Cardinality(Lost') \in Nat
    BY <2>1, Counted
  <2>3. Cardinality(Lost) <= Slack /\ Slack \in Nat
    BY <2>1, Counted DEF Reached
  <2> QED
    BY <1>1, <2>2, <2>3
<1>3. NoneMissed'
  <2>1. CASE phase' \notin {"listed", "done", "download"}
    <3>1. (Basis /\ phase \notin {"listed", "done", "download"} => NoneMissed)'
      BY NotYetMissed, PTL
    <3> QED
      BY <2>1, <3>1
  <2>2. CASE phase' \in {"listed", "download"}
    <3> SUFFICES ASSUME ~cut' PROVE Cardinality(Topmost(Settled \ Got)') <= Slack'
      BY <2>2 DEF NoneMissed, ListedNow, Got, Slack
    <3> DEFINE M == Topmost(Settled \ Got)'
    <3>1. CASE Listing /\ M \in SUBSET Lost
      <4>1. Cardinality(M) <= Cardinality(Lost) /\ Cardinality(Lost) \in Nat /\ Cardinality(M) \in Nat
        BY <3>1, Counted
      <4>2. Cardinality(Lost) <= Slack /\ Slack \in Nat
        BY <3>1, Counted DEF Reached
      <4> HIDE DEF M
      <4>3. Cardinality(M) <= Slack'
        BY <1>1, <4>1, <4>2
      <4> QED
        BY <4>3 DEF M
    <3>2. CASE (Settled \ Got)' = {}
      <4>1. M = {}
        BY <3>2 DEF Topmost
      <4>2. Slack' \in Nat
        BY <1>1, Counted
      <4> QED
        BY <4>1, <4>2, Counted
    <3> QED
      BY <2>2, <3>1, <3>2
  <2> QED
    BY <1>1, <2>1, <2>2
<1>4. (opt.kind = "provider" /\ ~opt.full /\ phase = "relist")' => (Settled \subseteq DocsOf(ToSet(listed)))'
  <2> SUFFICES ASSUME opt'.kind = "provider", ~opt'.full, phase' = "relist"
               PROVE  Settled' \subseteq DocsOf(ToSet(listed'))
    OBVIOUS
  <2>1. phase = "relist" /\ listed' = listed
    BY DEF ListsOn
  <2> QED
    BY <1>1, <2>1 DEF Reached
<1> QED
  BY <1>1, <1>2, <1>3, <1>4, SameWishes DEF Reached

\* The steps of a listing keep what is reached, one after the other.
LEMMA ReachedSpace ==
  ASSUME Basis, Basis', Reached, ConfluenceSpace, ListsOn
  PROVE  Reached'
<1> DEFINE page == ListSpacePages(cursor)
           N == {d \in page.items : Wanted(d)}
<1>1. /\ Listing /\ opt.kind = "confluence" /\ ~Part /\ ~Walk
      /\ UNCHANGED <<opt, remoteVars, cut>>
  BY DEF ConfluenceSpace, Walk, Plain, Unlisted
<1>2. UNCHANGED <<remote, recent, parent, touched>>
  BY <1>1 DEF remoteVars
<1>3. cursor \in Nat \ {0} /\ Keyed(remote, Rank)
  BY <1>1, CursorAt, PlacesKeyed
<1>4. /\ page.items \in SUBSET remote /\ page.next \in Nat
      /\ \A d \in remote : Place(d, remote, Rank) >= cursor /\ (page.next = End \/ Place(d, remote, Rank) < page.next)
                             => d \in page.items
  BY <1>3, OffsetPage DEF ListSpacePages
<1>5. /\ Got' = Got \cup N
      /\ cursor' = page.next
      /\ IF page.next = End THEN Complete ELSE GoesOn
  <2>1. page.items \in SUBSET Docs
    BY <1>4 DEF Basis, Typed, RemoteTypeOK
  <2> QED
    BY <2>1, GatheredPage DEF ConfluenceSpace, Basis, Gathers, Got
<1>6. \A d \in remote : Place(d, remote, Rank) \in Nat
  BY <1>3, PlaceBounds
<1>7. \A d \in Settled \ Got' : d \in remote /\ d \notin page.items /\ d \in Settled \ Got
  BY <1>5 DEF Settled
<1> HIDE DEF page, N
<1>8. \A d \in Settled \ Got' : Behind(d) \/ (cursor' # End /\ Place(d, remote, Rank) >= cursor')
  <2> SUFFICES ASSUME NEW d \in Settled \ Got' PROVE Behind(d) \/ (cursor' # End /\ Place(d, remote, Rank) >= cursor')
    OBVIOUS
  <2>1. Place(d, remote, Rank) \in Nat /\ (Place(d, remote, Rank) < cursor => Behind(d))
    BY <1>1, <1>6, <1>7 DEF Behind
  <2> QED
    BY <1>3, <1>4, <1>5, <1>7, <2>1
<1>9. Lost' \in SUBSET Lost
  <2> SUFFICES ASSUME NEW d \in Settled', d \notin Got', Behind(d)' PROVE d \in Lost
    BY DEF Lost
  <2>1. d \in Settled \ Got'
    BY <1>1, SameRemote
  <2>2. Place(d, remote, Rank) < cursor'
    BY <1>1, <1>2, SameWishes DEF Behind, ByToken
  <2>3. Behind(d)
    BY <1>4, <1>5, <1>6, <1>7, <1>8, <2>1, <2>2
  <2> QED
    BY <1>7, <2>1, <2>3 DEF Lost
<1>10. cursor' = End => (Settled \ Got)' \in SUBSET Lost
  BY <1>1, <1>7, <1>8, SameRemote DEF Lost
<1>11. phase' \in {"listed", "download"} => cursor' = End
  BY <1>1, <1>5 DEF GoesOn, Listing
<1>12. Topmost(Settled \ Got)' \in SUBSET (Settled \ Got)'
  BY DEF Topmost
<1>13. phase' # "probe" /\ ~Walk'
  BY <1>1, <1>5, SameWishes DEF GoesOn, Complete, Listing
<1> QED
  BY <1>1, <1>9, <1>10, <1>11, <1>12, <1>13, ReachedAfter DEF Reached, Walk

LEMMA ReachedJira ==
  ASSUME Basis, Basis', Reached, Jira, ListsOn
  PROVE  Reached'
<1> DEFINE page == Search(cursor)
           N == page.items
<1>1. /\ Listing /\ opt.kind = "jira" /\ ~Walk
      /\ UNCHANGED <<opt, remoteVars, cut>>
  BY DEF Jira, Walk, Plain, Unlisted
<1>2. UNCHANGED <<remote, recent, parent, touched>>
  BY <1>1 DEF remoteVars
<1>3. cursor \in Nat \ {0} /\ Keyed(remote, recent)
  BY <1>1, CursorAt, PlacesKeyed
<1>4. /\ page.items \in SUBSET remote /\ page.next \in Nat
      /\ \A d \in remote : (/\ Place(d, remote, recent) >= cursor
                            /\ page.next = End \/ Place(d, remote, recent) < page.next)
                           => d \in page.items
  BY <1>3, SearchPage
<1>5. /\ Got' = Got \cup N
      /\ cursor' = page.next
      /\ IF page.next = End THEN Complete ELSE GoesOn
  <2>1. N \in SUBSET Docs /\ Keyed(N, recent)
    BY <1>4, PlacesKeyed
  <2>2. /\ items' = items \o Entries(InOrder(N, recent))
        /\ cursor' = page.next
        /\ IF page.next = End THEN Complete ELSE GoesOn
    BY DEF Jira, Took, GoesOn
  <2> HIDE DEF N
  <2>3. Gathers(N)
    BY <2>1, <2>2, Gathered DEF Basis
  <2> QED
    BY <2>2, <2>3 DEF Gathers, Got
<1>6. \A d \in remote : Place(d, remote, recent) \in Nat
  BY <1>3, PlaceBounds
<1>7. \A d \in Settled \ Got' : d \in remote /\ d \notin page.items /\ d \in Settled \ Got
  BY <1>5 DEF Settled
<1> HIDE DEF page, N
<1>8. \A d \in Settled \ Got' : Behind(d) \/ (cursor' # End /\ Place(d, remote, recent) >= cursor')
  <2> SUFFICES ASSUME NEW d \in Settled \ Got' PROVE Behind(d) \/ (cursor' # End /\ Place(d, remote, recent) >= cursor')
    OBVIOUS
  <2>1. Place(d, remote, recent) \in Nat /\ (Place(d, remote, recent) < cursor => Behind(d))
    BY <1>1, <1>6, <1>7 DEF Behind
  <2> QED
    BY <1>3, <1>4, <1>5, <1>7, <2>1
<1>9. Lost' \in SUBSET Lost
  <2> SUFFICES ASSUME NEW d \in Settled', d \notin Got', Behind(d)' PROVE d \in Lost
    BY DEF Lost
  <2>1. d \in Settled \ Got'
    BY <1>1, SameRemote
  <2>2. Place(d, remote, recent) < cursor'
    BY <1>1, <1>2, SameWishes DEF Behind, ByToken
  <2>3. Behind(d)
    BY <1>4, <1>5, <1>6, <1>7, <1>8, <2>1, <2>2
  <2> QED
    BY <1>7, <2>1, <2>3 DEF Lost
<1>10. cursor' = End => (Settled \ Got)' \in SUBSET Lost
  BY <1>1, <1>7, <1>8, SameRemote DEF Lost
<1>11. phase' \in {"listed", "download"} => cursor' = End
  BY <1>1, <1>5 DEF GoesOn, Listing
<1>12. Topmost(Settled \ Got)' \in SUBSET (Settled \ Got)'
  BY DEF Topmost
<1>13. phase' # "probe" /\ ~Walk'
  BY <1>1, <1>5, SameWishes DEF GoesOn, Complete, Listing
<1> QED
  BY <1>1, <1>9, <1>10, <1>11, <1>12, <1>13, ReachedAfter DEF Reached, Walk

LEMMA ReachedResume ==
  ASSUME Basis, Basis', Reached, Resumes, ListsOn
  PROVE  Reached'
<1>0. PICK S : ResumeStep(S)
  BY ResumeCases
<1> DEFINE page == Resume(S, cursor)
           N == {d \in page.items : Wanted(d)}
<1>1. /\ Listing /\ ByToken /\ ~Walk /\ opt.kind \notin {"confluence", "jira", "gitlab", "provider", "github"}
      /\ UNCHANGED <<opt, remoteVars, cut>>
  BY <1>0 DEF Resumes, Walk, ByToken, ResumeStep
<1>2. UNCHANGED <<remote, recent, parent, touched>>
  BY <1>1 DEF remoteVars
<1>3. /\ cursor \in Nat \ {0} /\ S \in SUBSET Docs /\ Keyed(S, Rank)
      /\ \A d \in remote : Wanted(d) => d \in S
  BY <1>0, <1>1, CursorAt, PlacesKeyed DEF ResumeStep
<1>4. \A d \in S : Rank[d] >= cursor /\ (page.next = End \/ Rank[d] < page.next) => d \in page.items
  BY <1>3, ResumedPage
<1>5. /\ Got' = Got \cup N
      /\ cursor' = page.next /\ page.next \in Nat
      /\ IF page.next = End THEN Complete ELSE GoesOn
  BY <1>0 DEF ResumeStep, Gathers, Got
<1>6. \A d \in S : Rank[d] \in Nat
  BY <1>3, Ranks
<1>7. \A d \in Settled \ Got' : d \in S /\ d \notin page.items /\ d \in Settled \ Got
  BY <1>3, <1>5 DEF Settled
<1> HIDE DEF page, N
<1>8. \A d \in Settled \ Got' : Behind(d) \/ (cursor' # End /\ Rank[d] >= cursor')
  <2> SUFFICES ASSUME NEW d \in Settled \ Got' PROVE Behind(d) \/ (cursor' # End /\ Rank[d] >= cursor')
    OBVIOUS
  <2>1. Rank[d] \in Nat /\ (Rank[d] < cursor => Behind(d))
    BY <1>1, <1>6, <1>7 DEF Behind
  <2> QED
    BY <1>3, <1>4, <1>5, <1>7, <2>1
<1>9. Lost' \in SUBSET Lost
  <2> SUFFICES ASSUME NEW d \in Settled', d \notin Got', Behind(d)' PROVE d \in Lost
    BY DEF Lost
  <2>1. d \in Settled \ Got'
    BY <1>1, SameRemote
  <2>2. Rank[d] < cursor'
    BY <1>1, SameWishes DEF Behind
  <2>3. Behind(d)
    BY <1>5, <1>6, <1>7, <1>8, <2>1, <2>2
  <2> QED
    BY <1>7, <2>1, <2>3 DEF Lost
<1>10. cursor' = End => (Settled \ Got)' \in SUBSET Lost
  BY <1>1, <1>7, <1>8, SameRemote DEF Lost
<1>11. phase' \in {"listed", "download"} => cursor' = End
  BY <1>1, <1>5 DEF GoesOn, Listing
<1>12. Topmost(Settled \ Got)' \in SUBSET (Settled \ Got)'
  BY DEF Topmost
<1>13. phase' # "probe" /\ ~Walk'
  BY <1>1, <1>5, SameWishes DEF GoesOn, Complete, Listing
<1> QED
  BY <1>1, <1>9, <1>10, <1>11, <1>12, <1>13, ReachedAfter DEF Reached

LEMMA ReachedDrive ==
  ASSUME Basis, Basis', Reached, FindsDrive, ListsOn
  PROVE  Reached'
<1>1. /\ UNCHANGED <<opt, remoteVars, cut, cursor, items, phase>>
      /\ Listing /\ ByToken /\ ~Walk /\ opt.kind = "sharepoint"
  BY DEF FindsDrive, ByToken, Walk
<1>2. Got' = Got /\ Settled' = Settled
  BY <1>1, SameRemote DEF Got
<1>3. Lost' \in SUBSET Lost
  BY <1>1, <1>2, SameWishes DEF Lost, Behind
<1> QED
  BY <1>1, <1>3, SameWishes, ReachedAfter DEF Reached, Listing

\* A child of another page has its place among the children.
LEMMA ChildPlace ==
  ASSUME Basis, NEW d \in remote, parent[d] # d
  PROVE  Place(d, ChildrenOf(parent[d]), Rank) \in Nat \ {0}
<1>1. ChildrenOf(parent[d]) \in SUBSET remote /\ d \in ChildrenOf(parent[d])
  BY DEF ChildrenOf
<1> HIDE DEF ChildrenOf
<1> QED
  BY <1>1, PlacesKeyed, PlaceBounds

LEMMA ReachedRoot ==
  ASSUME Basis, Basis', Reached, ConfluenceRoot, ListsOn
  PROVE  Reached'
<1>1. /\ Listing /\ opt.kind = "confluence" /\ Walk /\ GoesOn
      /\ UNCHANGED <<opt, remoteVars, cut, cursor>>
      /\ seen = {} /\ cursor = Start
  BY DEF ConfluenceRoot, Walk, Plain, GoesOn, Basis, Control
<1>2. UNCHANGED <<remote, recent, parent, touched, phase>>
  BY <1>1 DEF remoteVars, GoesOn
<1>3. PICK r \in remote : parent[r] = r /\ items' = Entries(<<r>>) /\ seen' = {r} /\ queue' = <<r>>
  BY DEF ConfluenceRoot
<1>4. r \in Docs /\ rev \in [Docs -> 0..MaxEdits] /\ <<r>> \in Seq(Docs)
  BY DEF Basis, Typed, RemoteTypeOK
<1>5. Got' = {r}
  <2>1. /\ Entries(<<r>>) \in Seq(Entry)
        /\ DOMAIN Entries(<<r>>) = DOMAIN <<r>>
        /\ \A i \in DOMAIN <<r>> : Entries(<<r>>)[i].doc = <<r>>[i]
    BY <1>4, EntriesOf
  <2>2. DOMAIN <<r>> = {1} /\ <<r>>[1] = r
    OBVIOUS
  <2>3. /\ \A i \in {1} : Entries(<<r>>)[i].doc \in DocsOf(ToSet(Entries(<<r>>)))
        /\ \A d \in DocsOf(ToSet(Entries(<<r>>))) : \E i \in {1} : Entries(<<r>>)[i].doc = d
    BY <2>1, <2>2, DocsOfSeq
  <2> QED
    BY <1>3, <2>1, <2>2, <2>3 DEF Got
<1>6. Lost' = {}
  <2> SUFFICES ASSUME NEW d \in Settled', d \notin Got', Behind(d)' PROVE FALSE
    BY DEF Lost
  <2>1. d \in remote /\ d # r
    BY <1>2, <1>5 DEF Settled
  <2>2. WalkBehind(d)'
    BY <1>1, SameWishes DEF Behind, ByToken, Walk
  <2>3. ToSet(queue') = {r} /\ Head(queue') = r
    BY <1>3 DEF ToSet
  <2>4. parent[d] = r /\ Place(d, ChildrenOf(parent[d]), Rank) < 1
    BY <1>1, <1>2, <1>3, <2>2, <2>3 DEF WalkBehind, ChildrenOf, Start
  <2> QED
    BY <2>1, <2>4, ChildPlace
<1> QED
  BY <1>1, <1>2, <1>3, <1>5, <1>6, ReachedAfter DEF Reached, Listing

LEMMA ReachedWalk ==
  ASSUME Basis, Basis', Distinct, Reached, ConfluenceChildren, WalkStep, ListsOn
  PROVE  Reached'
<1> DEFINE h == Head(queue)
           page == ListChildren(h, cursor)
           S == ChildrenOf(h)
<1>1. /\ Listing /\ opt.kind = "confluence" /\ Walk /\ Part /\ queue # <<>>
      /\ UNCHANGED <<opt, remoteVars, cut>>
  BY DEF ConfluenceChildren, Walk, WalkStep
<1>2. UNCHANGED <<remote, recent, parent, touched>>
  BY <1>1 DEF remoteVars
<1>3. /\ seen \subseteq Got /\ Got \subseteq seen /\ ToSet(queue) \subseteq seen
      /\ queue \in Seq(Docs)
  BY <1>1 DEF Reached, Distinct, Basis, Control, Typed
<1>4. /\ Tail(queue) \in Seq(Docs) /\ ToSet(queue) = {h} \cup ToSet(Tail(queue)) /\ h \in ToSet(queue)
  BY <1>1, <1>3, MembersOf
<1>5. /\ page.items \in SUBSET S /\ page.next \in Nat
      /\ \A d \in S : Place(d, S, Rank) >= cursor /\ (page.next = End \/ Place(d, S, Rank) < page.next)
                        => d \in page.items
      /\ \A d \in S : Place(d, S, Rank) \in Nat
  <2>1. page = ByOffset(S, cursor)
    BY DEF ListChildren, ChildrenOf
  <2>2. S \in SUBSET remote
    BY DEF ChildrenOf
  <2>3. Keyed(S, Rank) /\ cursor \in Nat \ {0}
    BY <1>1, <2>2, PlacesKeyed, CursorAt
  <2> HIDE DEF page, S
  <2> QED
    BY <2>1, <2>3, OffsetPage, PlaceBounds
<1>6. /\ WalkNew = page.items \ seen
      /\ ByRank(WalkNew) \in Seq(Docs) /\ ToSet(ByRank(WalkNew)) = WalkNew /\ WalkNew \in SUBSET Docs
  BY <1>1, WalkTyped DEF WalkNew, Fresh
<1>7. Gathers(WalkNew)
  BY <1>6, DocsKeyed, Gathered DEF WalkStep, ByRank, Basis
<1>8. Got' = Got \cup WalkNew /\ seen' = seen \cup WalkNew
  BY <1>7 DEF Gathers, Got, WalkStep
<1>9. /\ page.next = End => /\ queue' = Tail(queue) \o ByRank(WalkNew)
                            /\ ToSet(queue') = ToSet(Tail(queue)) \cup WalkNew
                            /\ cursor' = Start
      /\ page.next # End => /\ queue' = queue \o ByRank(WalkNew)
                            /\ ToSet(queue') = ToSet(queue) \cup WalkNew
                            /\ cursor' = page.next
                            /\ Head(queue') = h /\ queue' # <<>>
  <2> DEFINE t == Tail(queue)
             b == ByRank(WalkNew)
  <2>1. t \in Seq(Docs) /\ b \in Seq(Docs) /\ queue \in Seq(Docs) /\ ToSet(b) = WalkNew
    BY <1>3, <1>4, <1>6
  <2>2. ToSet(queue \o b) = ToSet(queue) \cup WalkNew
    <3> HIDE DEF t, b
    <3> QED
      BY <2>1, MembersOf
  <2>3. ToSet(t \o b) = ToSet(t) \cup WalkNew
    <3> HIDE DEF t, b
    <3> QED
      BY <2>1, MembersOf
  <2>4. Head(queue \o b) = h /\ queue \o b # <<>>
    <3> HIDE DEF t, b
    <3> QED
      BY <1>1, <2>1
  <2>5. /\ queue' = (IF page.next = End THEN t ELSE queue) \o b
        /\ cursor' = IF page.next = End THEN Start ELSE page.next
    BY DEF WalkStep
  <2> QED
    BY <2>2, <2>3, <2>4, <2>5
<1>11. ASSUME NEW d \in Settled, d \notin Got', parent[d] = h
       PROVE  /\ parent[d] \in seen /\ d \in S
              /\ Place(d, S, Rank) < cursor \/ (page.next # End /\ Place(d, S, Rank) >= page.next)
  <2>1. d \in remote /\ d \notin seen /\ h \in seen
    BY <1>3, <1>4, <1>8, <1>11 DEF Settled
  <2>2. d \in S
    BY <2>1, <1>11 DEF ChildrenOf
  <2>3. d \notin page.items
    BY <1>6, <1>8, <1>11, <2>1
  <2>4. Place(d, S, Rank) \in Nat
    BY <1>5, <2>2
  <2>5. cursor \in Nat
    BY <1>1, CursorAt
  <2> HIDE DEF page, S
  <2> QED
    BY <1>5, <1>11, <2>1, <2>2, <2>3, <2>4, <2>5
<1>12. ASSUME NEW d \in Settled, d \notin Got, WalkBehind(d) PROVE d \in Lost
  BY <1>1, <1>12 DEF Lost, Behind
<1> HIDE DEF page, S, h
<1>13. Lost' \in SUBSET Lost
  <2> SUFFICES ASSUME NEW d \in Settled', d \notin Got', Behind(d)' PROVE d \in Lost
    BY DEF Lost
  <2>1. d \in Settled /\ d \in remote /\ d \notin Got /\ d \notin seen /\ d \notin WalkNew
    BY <1>1, <1>3, <1>8, SameRemote DEF Settled
  <2>2. /\ parent[d] \in seen'
        /\ \/ parent[d] \notin ToSet(queue')
           \/ parent[d] = Head(queue') /\ Place(d, ChildrenOf(parent[d]), Rank) < cursor'
    <3>1. WalkBehind(d)'
      BY <1>1, SameWishes DEF Behind, ByToken, Walk
    <3> QED
      BY <1>2, <3>1 DEF WalkBehind, ChildrenOf
  <2>3. parent[d] \in seen' => parent[d] # d
    BY <1>8, <2>1
  <2>4. Place(d, ChildrenOf(parent[d]), Rank) \in Nat \ {0}
    BY <2>1, <2>2, <2>3, ChildPlace
  <2>5. CASE parent[d] \notin seen
    <3>1. parent[d] \in WalkNew /\ parent[d] # h
      BY <1>3, <1>4, <1>8, <2>2, <2>5
    <3>2. page.next = End
      BY <1>9, <2>2, <3>1
    <3> QED
      BY <1>9, <2>2, <2>4, <3>1, <3>2 DEF Start
  <2>6. CASE parent[d] \in seen /\ parent[d] = h
    <3>1. Place(d, S, Rank) < cursor \/ (page.next # End /\ Place(d, S, Rank) >= page.next)
      BY <1>11, <2>1, <2>6
    <3>2. S = ChildrenOf(parent[d])
      BY <2>6 DEF S
    <3>3. ~(page.next # End /\ Place(d, S, Rank) >= page.next)
      <4> SUFFICES ASSUME page.next # End, Place(d, S, Rank) >= page.next PROVE FALSE
        OBVIOUS
      <4>1. Place(d, S, Rank) < page.next
        BY <1>4, <1>9, <2>2, <2>6, <3>2
      <4> QED
        BY <1>5, <2>4, <3>2, <4>1
    <3>4. WalkBehind(d)
      BY <2>6, <3>1, <3>2, <3>3 DEF WalkBehind, h
    <3> QED
      BY <1>12, <2>1, <3>4
  <2>7. CASE parent[d] \in seen /\ parent[d] # h
    <3>1. CASE parent[d] \notin ToSet(queue)
      BY <1>12, <2>1, <2>7, <3>1 DEF WalkBehind
    <3>2. CASE parent[d] \in ToSet(queue)
      <4>1. parent[d] \in ToSet(queue')
        BY <1>4, <1>9, <2>7, <3>2
      <4>2. parent[d] = Head(queue') /\ Place(d, ChildrenOf(parent[d]), Rank) < cursor'
        BY <2>2, <4>1
      <4>3. page.next = End
        BY <1>9, <2>7, <4>2
      <4> QED
        BY <1>9, <2>4, <4>2, <4>3 DEF Start
    <3> QED
      BY <3>1, <3>2
  <2> QED
    BY <2>5, <2>6, <2>7
<1>14. queue' = <<>> => Topmost(Settled \ Got)' \in SUBSET Lost
  <2> SUFFICES ASSUME queue' = <<>>, NEW d \in Topmost(Settled \ Got)' PROVE d \in Lost
    OBVIOUS
  <2>1. d \in Settled' /\ d \notin Got' /\ parent'[d] \in Got'
    <3>1. opt'.kind = "confluence" /\ Part'
      BY <1>1, SameWishes
    <3> QED
      BY <3>1 DEF Topmost, Got
  <2>2. d \in Settled /\ d \notin Got /\ parent[d] \in Got'
    BY <1>1, <1>2, <1>8, <2>1, SameRemote
  <2>3. ToSet(queue') = {}
    BY DEF ToSet
  <2>4. page.next = End /\ WalkNew = {} /\ ToSet(Tail(queue)) = {}
    BY <1>9, <2>3
  <2>5. parent[d] \in seen
    BY <1>3, <1>8, <2>2, <2>4
  <2>6. CASE parent[d] = h
    <3>1. Place(d, S, Rank) < cursor /\ S = ChildrenOf(parent[d])
      BY <1>11, <2>1, <2>2, <2>4, <2>6 DEF S
    <3>2. WalkBehind(d)
      BY <2>5, <2>6, <3>1 DEF WalkBehind, h
    <3> QED
      BY <1>12, <2>2, <3>2
  <2>7. CASE parent[d] # h
    BY <1>4, <1>12, <2>2, <2>4, <2>5, <2>7 DEF WalkBehind
  <2> QED
    BY <2>6, <2>7
<1>15. phase' \in {"listed", "download"} => queue' = <<>>
  BY <1>1 DEF WalkStep, GoesOn, Listing
<1>16. phase' # "probe" /\ (seen \subseteq Got)'
  BY <1>1, <1>3, <1>8 DEF WalkStep, GoesOn, Complete, Listing
<1> QED
  BY <1>1, <1>13, <1>14, <1>15, <1>16, ReachedAfter DEF Reached

\* The entries before the next page.
LEMMA BeforeAt ==
  /\ Before(1) = 0
  /\ \A c \in Int : Before(c) \in Int /\ Before(c + 1) = c * PageLimit /\ Before(c + 1) = Before(c) + PageLimit
<1> USE Limit
<1>1. Before(1) = 0
  BY DEF Before
<1>2. ASSUME NEW c \in Int
      PROVE  Before(c) \in Int /\ Before(c + 1) = c * PageLimit /\ Before(c + 1) = Before(c) + PageLimit
  <2>1. c * PageLimit \in Int /\ (c - 1) * PageLimit = c * PageLimit - PageLimit
    OBVIOUS
  <2>2. c + 1 - 1 = c
    OBVIOUS
  <2> QED
    BY <2>1, <2>2 DEF Before
<1> QED
  BY <1>1, <1>2

\* The projects of a group in their order.
LEMMA Grouped == Len(Projects) \in Nat /\ DOMAIN Projects = 1..Len(Projects)
BY ConnectorAssumption

\* A page of the group's projects: those of its places, and there are no more if it is short.
LEMMA GroupPage ==
  ASSUME NEW c \in Nat \ {0}
  PROVE  LET page == GroupProjects(c)
         IN  /\ page.next \in {End, c + 1}
             /\ \A i \in DOMAIN Projects :
                  i > Before(c) /\ (page.next = End \/ i <= Before(c + 1)) => i \in page.items
<1> USE Limit
<1> DEFINE a == Before(c)
           b == Before(c + 1)
           W == (a + 1 .. b) \cap DOMAIN Projects
           n == Len(Projects)
<1>1. GroupProjects(c) = [items |-> W, next |-> IF Cardinality(W) < PageLimit THEN End ELSE c + 1]
  <2>1. (c - 1) * PageLimit = a /\ c * PageLimit = b
    BY BeforeAt DEF Before
  <2> HIDE DEF a, b
  <2> QED
    BY <2>1, Zenon DEF GroupProjects
<1>2. a \in Int /\ b = a + PageLimit
  <2>1. c \in Int
    OBVIOUS
  <2> QED
    BY <2>1, BeforeAt
<1>3. n \in Nat /\ DOMAIN Projects = 1..n
  BY Grouped
<1>4. a >= 0
  <2>1. c - 1 \in Nat
    OBVIOUS
  <2>2. (c - 1) * PageLimit >= 0
    <3> DEFINE m == c - 1
    <3> HIDE DEF m
    <3>1. m \in Nat => m * PageLimit >= 0
      OBVIOUS
    <3> QED
      BY <2>1, <3>1 DEF m
  <2> QED
    BY <2>2 DEF Before
<1> HIDE DEF a, b, n
<1>5. ASSUME NEW i \in 1..n, i > b PROVE Cardinality(W) = PageLimit
  <2>1. W = a + 1 .. b
    BY <1>2, <1>3, <1>4, <1>5
  <2> DEFINE x == a + 1
  <2>2. x \in Int /\ b \in Int
    BY <1>2
  <2> HIDE DEF x
  <2>3. Cardinality(x .. b) = IF x > b THEN 0 ELSE b - x + 1
    BY <2>2, FS_Interval, Zenon
  <2>4. b - x + 1 = PageLimit /\ ~(x > b)
    BY <1>2, <2>2 DEF x
  <2> QED
    BY <2>1, <2>3, <2>4 DEF x
<1>6. ASSUME NEW i \in DOMAIN Projects, i > a, GroupProjects(c).next = End \/ i <= b
      PROVE  i \in W
  <2>1. i <= b
    <3> SUFFICES ASSUME i > b PROVE FALSE
      BY <1>2, <1>3
    <3>1. Cardinality(W) = PageLimit
      BY <1>3, <1>5
    <3>2. GroupProjects(c).next = c + 1
      BY <1>1, <3>1
    <3>3. i \in Int /\ b \in Int
      BY <1>2, <1>3
    <3> QED
      BY <1>6, <3>2, <3>3 DEF End
  <2> QED
    BY <1>2, <1>3, <1>6, <2>1
<1>7. GroupProjects(c).next \in {End, c + 1} /\ GroupProjects(c).items = W
  BY <1>1
<1> QED
  BY <1>6, <1>7 DEF a, b

LEMMA ReachedProjects ==
  ASSUME Basis, Basis', Reached, Resolving, GitlabProjects, ListsOn
  PROVE  Reached' /\ Resolving'
<1> DEFINE page == IF Part THEN [items |-> Sought, next |-> End] ELSE GroupProjects(cursor)
<1>1. /\ Listing /\ opt.kind = "gitlab" /\ ~Walk /\ GoesOn /\ ~resolved
      /\ UNCHANGED <<opt, remoteVars, items, cut>>
  BY DEF GitlabProjects, Walk, GoesOn, Plain
<1>2. cursor \in Nat \ {0}
  BY <1>1, CursorAt
<1>3. /\ projects' = projects \cup (page.items \cap Sought)
      /\ resolved' = (page.next = End)
      /\ left' = IF page.next = End THEN projects' ELSE {}
      /\ cursor' = IF page.next = End THEN Start ELSE page.next
  BY Zenon DEF GitlabProjects
<1>4. Sought \subseteq DOMAIN Projects /\ Sought' = Sought
  BY <1>1, SameWishes DEF Sought
<1>5. /\ Part => page.items = Sought /\ page.next = End
      /\ ~Part => /\ page.next \in {End, cursor + 1}
                  /\ \A i \in DOMAIN Projects :
                       i > Before(cursor) /\ (page.next = End \/ i <= Before(cursor + 1)) => i \in page.items
  BY <1>2, GroupPage
<1> HIDE DEF page
<1>6. \A i \in Sought : (page.next = End \/ i <= Before(cursor + 1)) => i \in projects'
  <2> SUFFICES ASSUME NEW i \in Sought, page.next = End \/ i <= Before(cursor + 1) PROVE i \in projects'
    OBVIOUS
  <2>1. CASE Part
    BY <1>3, <1>5, <2>1
  <2>2. CASE ~Part
    <3>1. i \in Int /\ Before(cursor) \in Int
      BY <1>2, <1>4, BeforeAt, Grouped
    <3>2. CASE i <= Before(cursor)
      BY <1>1, <1>3, <2>2, <3>2 DEF Resolving
    <3>3. CASE i > Before(cursor)
      BY <1>3, <1>4, <1>5, <2>2, <3>3
    <3> QED
      BY <3>1, <3>2, <3>3
  <2> QED
    BY <2>1, <2>2
<1>7. Resolving'
  <2>1. resolved' => Sought' \subseteq projects' /\ cursor' = Start
    BY <1>3, <1>4, <1>6
  <2>2. (~resolved' /\ ~Part') => \A i \in Sought' : i <= Before(cursor') => i \in projects'
    BY <1>1, <1>3, <1>4, <1>5, <1>6, SameWishes
  <2> QED
    BY <2>1, <2>2 DEF Resolving
<1>8. Lost' = {}
  <2> SUFFICES ASSUME NEW d \in Settled', d \notin Got', Behind(d)' PROVE FALSE
    BY DEF Lost
  <2>1. d \in remote
    BY <1>1 DEF Settled, remoteVars
  <2>2. PICK i \in DOMAIN Projects : resolved' /\ HomeOf(d, i)' /\ TreeBehind(d, i)'
    BY <1>1, SameWishes DEF Behind, ByToken
  <2>3. i \in Sought /\ d \in Tree(i) /\ Tree(i)' = Tree(i)
    BY <1>1, <1>4, <2>1, <2>2 DEF HomeOf, Tree, remoteVars
  <2>4. page.next = End /\ i \in projects' /\ left' = projects' /\ cursor' = 1
    BY <1>3, <1>6, <2>2, <2>3 DEF Start
  <2>5. Place(d, Tree(i), Rank) <= Before(1)
    BY <2>2, <2>3, <2>4 DEF TreeBehind
  <2>6. Keyed(Tree(i), Rank)
    BY PlacesKeyed
  <2>7. Place(d, Tree(i), Rank) \in Nat \ {0}
    BY <2>3, <2>6, PlaceBounds
  <2> QED
    BY <2>5, <2>7, BeforeAt
<1>9. Reached'
  <2>1. UNCHANGED <<phase>>
    BY <1>1 DEF GoesOn
  <2> QED
    BY <1>1, <1>8, <2>1, SameWishes, ReachedAfter DEF Reached, Listing
<1> QED
  BY <1>7, <1>9

LEMMA ReachedTree ==
  ASSUME Basis, Basis', Reached, Resolving, GitlabTree, ListsOn,
         TreeReads(Min(left)) \/ TreeSkips(Min(left))
  PROVE  Reached' /\ Resolving'
<1> DEFINE k == Min(left)
           page == IterTree(k, cursor)
<1>1. /\ Listing /\ opt.kind = "gitlab" /\ ~Walk /\ GoesOn /\ resolved /\ left # {}
      /\ UNCHANGED <<opt, phase, remoteVars, projects, resolved, cut>>
  BY DEF GitlabTree, Walk, GoesOn, TreeReads, TreeSkips
<1>2. cursor \in Nat \ {0}
  BY <1>1, CursorAt
<1>3. \A i : Keyed(Tree(i), Rank) /\ Tree(i)' = Tree(i)
  BY <1>1, PlacesKeyed DEF Tree, remoteVars
<1>4. \A i : \A d \in Tree(i) : Place(d, Tree(i), Rank) \in Nat \ {0}
  BY <1>3, PlaceBounds
<1>5. /\ page.next \in {End, cursor + 1}
      /\ \A d \in Tree(k) : Place(d, Tree(k), Rank) > Before(cursor)
                            /\ (page.next = End \/ Place(d, Tree(k), Rank) <= Before(cursor + 1))
                              => d \in page.items
  BY <1>2, <1>3, TreePage DEF Before
<1>6. Before(cursor) \in Int /\ Before(1) = 0 /\ Before(cursor + 1) \in Int
  BY <1>2, BeforeAt
\* A document that is counted as lost afterwards, and the project that says so.
<1>7. ASSUME NEW d \in Settled', d \notin Got', NEW i \in DOMAIN Projects, HomeOf(d, i)', TreeBehind(d, i)'
      PROVE  d \in Settled /\ d \in Tree(i) /\ HomeOf(d, i) /\ (i \notin left' \/ (i = Min(left') /\ Place(d, Tree(i), Rank) <= Before(cursor')))
  BY <1>1, <1>3, <1>7, SameRemote, SameWishes DEF HomeOf, TreeBehind, Tree, Settled, remoteVars
<1>8. CASE TreeSkips(k)
  <2>1. /\ Projects[k].bare /\ left' = left \ {k} /\ cursor' = cursor /\ items' = items /\ cursor = 1
    BY <1>1, <1>8 DEF TreeSkips, Resolving, Start
  <2>2. Got' = Got
    BY <2>1 DEF Got
  <2>3. Lost' \in SUBSET Lost
    <3> SUFFICES ASSUME NEW d \in Settled', d \notin Got', Behind(d)' PROVE d \in Lost
      BY DEF Lost
    <3>1. PICK i \in DOMAIN Projects : HomeOf(d, i)' /\ TreeBehind(d, i)'
      BY <1>1, SameWishes DEF Behind, ByToken
    <3>2. d \in Settled /\ d \in Tree(i) /\ HomeOf(d, i) /\ (i \notin left' \/ Place(d, Tree(i), Rank) <= Before(cursor'))
      BY <1>7, <3>1
    <3>3. i \notin left
      <4>1. i # k
        BY <2>1, <3>2 DEF HomeOf
      <4>2. Place(d, Tree(i), Rank) > 0
        BY <1>4, <3>2
      <4> QED
        BY <1>4, <1>6, <2>1, <3>2, <4>1, <4>2
    <3> QED
      BY <1>1, <2>2, <3>2, <3>3 DEF Lost, Behind, TreeBehind
  <2>4. Resolving'
    BY <1>1, <2>1, SameWishes DEF Resolving, Start
  <2> QED
    BY <1>1, <2>3, <2>4, SameWishes, ReachedAfter DEF Reached, Listing
<1>9. CASE TreeReads(k)
  <2>1. /\ ~Projects[k].bare
        /\ left' = IF page.next = End THEN left \ {k} ELSE left
        /\ cursor' = IF page.next = End THEN Start ELSE page.next
        /\ items' = items \o Entries(InOrder(TreeNew(k), Rank))
    BY <1>9 DEF TreeReads, ByRank
  <2>2. TreeNew(k) \in SUBSET Docs
    BY <1>1, TreeTyped
  <2>3. Got' = Got \cup TreeNew(k)
    BY <2>1, <2>2, DocsKeyed, Gathered DEF Gathers, Got, Basis
  <2> HIDE DEF k
  <2>4. ASSUME NEW d \in Settled, d \notin Got', d \in Tree(k), HomeOf(d, k)
        PROVE  Behind(d) \/ (page.next # End /\ Place(d, Tree(k), Rank) > Before(cursor + 1))
    <3>1. GitlabWanted(d)
      BY <1>1, <2>4 DEF Settled, Wanted
    <3>2. d \notin page.items
      BY <2>3, <2>4, <3>1 DEF TreeNew
    <3>3. Place(d, Tree(k), Rank) \in Nat
      BY <1>4, <2>4
    <3>4. Place(d, Tree(k), Rank) <= Before(cursor) => Behind(d)
      BY <1>1, <2>4 DEF Behind, TreeBehind, HomeOf, Sought, k
    <3> HIDE DEF page
    <3> QED
      BY <1>5, <1>6, <2>4, <3>2, <3>3, <3>4
  <2> HIDE DEF page
  <2>5. Lost' \in SUBSET Lost
    <3> SUFFICES ASSUME NEW d \in Settled', d \notin Got', Behind(d)' PROVE d \in Lost
      BY DEF Lost
    <3>1. PICK i \in DOMAIN Projects : HomeOf(d, i)' /\ TreeBehind(d, i)'
      BY <1>1, SameWishes DEF Behind, ByToken
    <3>2. /\ d \in Settled /\ d \in Tree(i) /\ HomeOf(d, i) /\ d \notin Got
          /\ i \notin left' \/ (i = Min(left') /\ Place(d, Tree(i), Rank) <= Before(cursor'))
      BY <1>7, <2>3, <3>1
    <3>3. CASE i \notin left
      BY <1>1, <3>2, <3>3 DEF Lost, Behind, TreeBehind
    <3>4. CASE i \in left /\ page.next = End
      <4>1. i = k
        <5> SUFFICES ASSUME i # k PROVE FALSE
          OBVIOUS
        <5>1. Place(d, Tree(i), Rank) <= Before(1)
          BY <2>1, <3>2, <3>4 DEF Start
        <5> QED
          BY <1>4, <1>6, <3>2, <5>1
      <4> QED
        BY <2>4, <3>2, <3>4, <4>1 DEF Lost
    <3>5. CASE i \in left /\ page.next # End
      <4>1. i = k /\ Place(d, Tree(i), Rank) <= Before(cursor + 1)
        BY <1>5, <2>1, <3>2, <3>5 DEF k
      <4>2. Place(d, Tree(k), Rank) \in Nat
        BY <1>4, <3>2, <4>1
      <4> QED
        BY <1>6, <2>4, <3>2, <4>1, <4>2 DEF Lost
    <3> QED
      BY <3>3, <3>4, <3>5
  <2>6. Resolving'
    BY <1>1, <2>1, SameWishes DEF Resolving, k
  <2> QED
    BY <1>1, <2>5, <2>6, SameWishes, ReachedAfter DEF Reached, Listing
<1> QED
  BY <1>8, <1>9

LEMMA ReachedDone ==
  ASSUME Basis, Basis', Reached, Resolving, GitlabDone, ListsOn
  PROVE  Reached' /\ Resolving'
<1>1. /\ Listing /\ opt.kind = "gitlab" /\ ~Walk /\ resolved /\ left = {}
      /\ UNCHANGED <<opt, remoteVars, projects, resolved, left, items, cut>>
      /\ cursor' = End /\ Complete
  BY DEF GitlabDone, Walk, Took, Plain, Unlisted
<1>2. \A d \in Settled \ Got : d \in Lost
  <2> SUFFICES ASSUME NEW d \in Settled \ Got PROVE Behind(d)
    BY DEF Lost
  <2>1. Wanted(d)
    BY DEF Settled
  <2>2. PICK i \in Sought : Projects[i].id = Home(d) /\ ~Projects[i].bare
    BY <1>1, <2>1 DEF Wanted
  <2> QED
    BY <1>1, <2>2 DEF Behind, TreeBehind, HomeOf, Sought
<1>3. (Settled \ Got)' = Settled \ Got
  BY <1>1, SameRemote DEF Got
<1>4. Topmost(Settled \ Got)' \in SUBSET (Settled \ Got)'
  BY DEF Topmost
<1>5. ~Listing' /\ phase' # "probe"
  BY <1>1 DEF Complete, Listing
<1>6. Resolving'
  BY <1>1, <1>5, SameWishes DEF Resolving
<1> QED
  BY <1>1, <1>2, <1>3, <1>4, <1>5, <1>6, ReachedAfter DEF Reached

\* Nothing that is settled is missing.
LEMMA ReachedAll ==
  ASSUME Basis, Basis', Reached, ListsOn, ~Listing', ~Walk,
         cut' => opt.kind = "github", cut => cut',
         (phase' # "probe" /\ ~cut') => Settled \subseteq Got',
         phase' = "probe" => Settled \subseteq (Got \cup DocsOf(todo))'
  PROVE  Reached'
<1>1. Settled' = Settled
  BY SameRemote DEF ListsOn
<1>2. (phase' \in {"listed", "download"} /\ ~cut') => (Settled \ Got)' = {}
  BY <1>1
<1> QED
  BY <1>1, <1>2, ReachedAfter

LEMMA ReachedGithub ==
  ASSUME Basis, Basis', Reached, Github, ListsOn
  PROVE  Reached'
<1> DEFINE S == {d \in TreeItems.items : Wanted(d)}
<1>1. /\ Listing /\ opt.kind = "github" /\ ~Walk
      /\ UNCHANGED <<opt, remoteVars>>
      /\ cut' = (cut \/ Cardinality(remote) > TreeLimit)
  BY DEF Github, Walk, Plain
<1>2. TreeItems.items = {d \in remote : Place(d, remote, Rank) <= TreeLimit} /\ TreeItems.next = End
  BY DEF TreeItems
<1>3. Gathers(S) /\ Complete
  <2>1. TreeItems.items \in SUBSET Docs
    BY <1>2 DEF Basis, Typed, RemoteTypeOK
  <2> QED
    BY <1>2, <2>1, GatheredPage DEF Github, Basis
<1>4. ~Listing' /\ phase' # "probe"
  BY <1>1, <1>3 DEF Complete, Listing
<1>5. ASSUME ~cut', NEW d \in Settled PROVE d \in Got'
  <2>1. Place(d, remote, Rank) \in 1..Cardinality(remote) /\ Cardinality(remote) \in Nat
    BY PlacesKeyed, PlaceBounds DEF Settled
  <2>2. TreeLimit \in Nat
    BY ConnectorAssumption
  <2>3. d \in remote /\ Wanted(d)
    BY DEF Settled
  <2>4. Place(d, remote, Rank) <= TreeLimit
    <3>1. ~(Cardinality(remote) > TreeLimit)
      BY <1>1, <1>5, Zenon
    <3> QED
      BY <2>1, <2>2, <3>1
  <2>5. d \in S
    BY <1>2, <2>3, <2>4
  <2> QED
    BY <1>3, <2>5 DEF Gathers, Got
<1> QED
  BY <1>1, <1>4, <1>5, ReachedAll

LEMMA ReachedFound ==
  ASSUME Basis, Basis', Reached, FsDiscover \/ UrlList, ListsOn
  PROVE  Reached'
<1>1. PICK S \in SUBSET Docs : /\ opt.kind \in {"fs", "url"} /\ Listing
                               /\ ProbesFrom(S) \/ FoundAll(S)
                               /\ Settled \subseteq S
  <2>1. CASE FsDiscover
    BY <2>1, FoundBy DEF FsFound, Settled, Wanted
  <2>2. CASE UrlList
    BY <2>2, FoundBy, Counted
  <2> QED
    BY <2>1, <2>2
<1>2. items = <<>> /\ ~Walk
  BY <1>1 DEF Basis, Control, Walk
<1>3. CASE ProbesFrom(S)
  <2>1. todo' = {Now(d) : d \in S} /\ phase' = "probe" /\ cut' = cut
    BY <1>3 DEF ProbesFrom, listVars
  <2>2. DocsOf(todo') = S
    BY <2>1, NowOf
  <2> QED
    BY <1>1, <1>2, <2>1, <2>2, ReachedAll DEF Reached, Listing
<1>4. CASE FoundAll(S)
  <2>1. Gathers(S)
    BY <1>2, <1>4, GatheredFound DEF FoundAll, Basis
  <2>2. Complete /\ cut' = cut
    BY <1>4 DEF FoundAll
  <2> QED
    BY <1>1, <1>2, <2>1, <2>2, ReachedAll DEF Reached, Gathers, Got, Complete, Listing
<1> QED
  BY <1>1, <1>3, <1>4

\* A document has a home among the two.
LEMMA Homes == \A d \in Docs : Meta[d].home \in (SUBSET {1, 2}) \ {{}}
BY RemoteAssumption

LEMMA ReachedProvider ==
  ASSUME Basis, Basis', Reached, Provider, ListsOn
  PROVE  Reached'
<1>1. /\ Listing /\ opt.kind = "provider" /\ ~Walk /\ cursor \in {1, 2}
      /\ UNCHANGED <<opt, remoteVars>>
  BY DEF Provider, Walk, Basis, Control, ListsOn
<1>2. (~Cached /\ ProviderReads) \/ ProviderKeeps
  BY ProviderCases DEF ListsOn, Breaks, Broken
<1>3. CASE ProviderKeeps
  <2>1. Got' = DocsOf(ToSet(listed)) /\ Complete /\ cut' = cut /\ phase = "relist" /\ ~opt.full
    BY <1>3 DEF ProviderKeeps, Got, Cached
  <2> QED
    BY <1>1, <2>1, ReachedAll DEF Reached, Complete, Listing
<1>4. CASE ProviderReads
  <2>1. /\ items' = items \o Entries(InOrder(ProviderNew, Rank))
        /\ cursor' = IF cursor = 2 THEN End ELSE cursor + 1
        /\ IF cursor' = End THEN Complete ELSE GoesOn
        /\ cut' = cut
    BY <1>4 DEF ProviderReads, ByRank
  <2>2. Got' = Got \cup ProviderNew
    BY <2>1, ProviderTyped, Gathered DEF Gathers, Got, Basis
  <2>3. ASSUME NEW d \in Settled, d \notin Got'
        PROVE  d \in Settled \ Got /\ cursor \notin Meta[d].home /\ Meta[d].home \subseteq {1, 2} /\ Meta[d].home # {}
    BY <2>2, <2>3, Homes DEF Settled, ProviderNew, Basis, Typed, RemoteTypeOK
  <2>4. CASE cursor = 1
    <3>1. GoesOn /\ cursor' = 2
      BY <2>1, <2>4 DEF End
    <3>2. Lost' = {}
      <4> SUFFICES ASSUME NEW d \in Settled', d \notin Got', Behind(d)' PROVE FALSE
        BY DEF Lost
      <4>1. d \in Settled
        BY <1>1, SameRemote
      <4>2. \E h \in Meta[d].home : h < 2
        BY <1>1, <3>1, SameWishes DEF Behind, ByToken
      <4> QED
        BY <2>3, <2>4, <4>1, <4>2
    <3> QED
      BY <1>1, <2>1, <3>1, <3>2, SameWishes, ReachedAfter DEF Reached, GoesOn, Listing
  <2>5. CASE cursor = 2
    <3>1. Complete
      BY <2>1, <2>5
    <3>2. \A d \in Settled \ Got' : d \in Lost
      <4> SUFFICES ASSUME NEW d \in Settled, d \notin Got' PROVE d \in Lost
        OBVIOUS
      <4>1. 1 \in Meta[d].home /\ d \in Settled \ Got
        BY <2>3, <2>5
      <4> QED
        BY <1>1, <2>5, <4>1 DEF Lost, Behind
    <3>3. Topmost(Settled \ Got)' \in SUBSET Lost
      BY <1>1, <3>2, SameRemote DEF Topmost
    <3> QED
      BY <1>1, <2>1, <3>1, <3>3, ReachedAfter DEF Reached, Complete, Listing
  <2> QED
    BY <1>1, <2>4, <2>5
<1> QED
  BY <1>2, <1>3, <1>4

LEMMA ReachedNone ==
  ASSUME Basis, Basis', Reached, NoneList, ListsOn
  PROVE  Reached'
<1>1. /\ Listing /\ opt.kind = "none" /\ ~Walk /\ cut' = cut /\ Complete
  BY DEF NoneList, Walk, Took, Plain, Unlisted, End
<1>2. Settled = {}
  BY <1>1 DEF Settled, Wanted
<1> QED
  BY <1>1, <1>2, ReachedAll DEF Reached, Complete, Listing

LEMMA ReachedProbe ==
  ASSUME Basis, Basis', Reached, Probe, ListsOn
  PROVE  Reached'
<1>1. PICK e \in todo : \E got : Probes(e, got)
  BY ProbeCases DEF ListsOn, Breaks, Broken
<1>2. PICK got : Probes(e, got)
  BY <1>1
<1>3. /\ phase = "probe" /\ todo' = todo \ {e} /\ cut' = cut
      /\ IF todo' = {} THEN phase' = "listed" /\ listed' = items' ELSE UNCHANGED <<phase, listed>>
  BY <1>2 DEF Probes
<1>4. opt.kind \in {"fs", "url"} /\ ~Walk /\ ~Listing'
  BY <1>3 DEF Basis, Control, Walk, Listing
<1>5. ASSUME NEW d \in Settled PROVE d \in Got' \cup DocsOf(todo')
  <2>1. d \in Got \cup DocsOf(todo)
    BY <1>3 DEF Reached
  <2>2. Got \subseteq Got'
    BY <1>2, Probed DEF Got
  <2>3. CASE d = e.doc
    <3>1. d \in remote /\ ~TooBig(d)
      BY <1>4 DEF Settled, Wanted
    <3> QED
      BY <1>2, <2>3, <3>1, Probed DEF Got
  <2>4. CASE d # e.doc
    BY <1>3, <2>1, <2>2, <2>4 DEF DocsOf
  <2> QED
    BY <2>3, <2>4
<1>6. todo' = {} => DocsOf(todo') = {}
  BY DEF DocsOf
<1>7. phase' # "probe" => todo' = {}
  BY <1>3
<1> QED
  BY <1>3, <1>4, <1>5, <1>6, <1>7, ReachedAll DEF Reached

\* So every step of a listing keeps what is reached.
LEMMA ReachedLists ==
  ASSUME Basis, Basis', Distinct, Reached, Resolving, Lists, ListsOn
  PROVE  Reached' /\ Resolving'
<1>1. ~Breaks /\ opt' = opt
  BY DEF ListsOn, Breaks, Broken
<1>2. CASE GitlabProjects \/ GitlabTree \/ GitlabDone
  <2>1. GitlabTree => TreeReads(Min(left)) \/ TreeSkips(Min(left))
    BY <1>1, TreeCases
  <2> QED
    BY <1>2, <2>1, ReachedProjects, ReachedTree, ReachedDone
<1>3. CASE ConfluenceSpace \/ ConfluenceRoot \/ ConfluenceChildren \/ Jira \/ Github \/ Resumes \/ FindsDrive
           \/ FsDiscover \/ UrlList \/ Provider \/ NoneList \/ Probe
  <2>1. opt.kind # "gitlab"
    BY <1>3 DEF ConfluenceSpace, ConfluenceRoot, ConfluenceChildren, Jira, Github, Resumes, ByToken, FindsDrive,
                FsDiscover, UrlList, Provider, NoneList, Probe, Basis, Control
  <2>2. Resolving'
    BY <1>1, <2>1 DEF Resolving
  <2>3. ConfluenceChildren => WalkStep
    BY <1>1, WalkCases
  <2>4. Reached'
    BY <1>3, <2>3, ReachedSpace, ReachedRoot, ReachedWalk, ReachedJira, ReachedGithub, ReachedResume, ReachedDrive,
       ReachedFound, ReachedProvider, ReachedNone, ReachedProbe
  <2> QED
    BY <2>2, <2>4
<1> QED
  BY <1>2, <1>3 DEF Lists

-----------------------------------------------------------------------------
(* What an edit of the service does to a listing under way.                 *)

\* An edit settles no document, and removes at most one from a list.
LEMMA SettledShrinks ==
  ASSUME Basis, RemoteEdit
  PROVE  /\ Settled' \in SUBSET Settled
         /\ UNCHANGED <<opt, phase, listVars, fetchVars>>
         /\ removed' \in {removed, removed + 1}
         /\ \A d \in Docs : d \notin touched' => parent'[d] = parent[d]
<1>1. UNCHANGED <<opt, phase, listVars, fetchVars>>
  BY DEF RemoteEdit
<1>2. /\ remote' \ touched' \subseteq remote \ touched
      /\ removed' \in {removed, removed + 1}
      /\ \A d \in Docs : d \notin touched' => parent'[d] = parent[d]
  <2>1. ASSUME NEW x \in Docs, Write(x) PROVE <1>2!:
    BY <2>1 DEF Write, Edited
  <2>2. ASSUME NEW x \in Docs, Vanish(x) PROVE <1>2!:
    BY <2>2 DEF Vanish, Edited
  <2>3. ASSUME NEW x \in Docs, NEW p \in Docs, Move(x, p) PROVE <1>2!:
    <3>1. x \in touched' /\ touched \subseteq touched' /\ remote' = remote /\ removed' = removed + 1
      BY <2>3 DEF Move, Edited, Subtree
    <3>2. parent' = [parent EXCEPT ![x] = p] /\ parent \in [Docs -> Docs]
      BY <2>3 DEF Move, Basis, Typed, RemoteTypeOK
    <3> QED
      BY <3>1, <3>2
  <2> QED
    BY <2>1, <2>2, <2>3 DEF RemoteEdit, Edit
<1> QED
  BY <1>1, <1>2, SameWishes DEF Settled

\* The list in which the listing by offset has a place, and its order.
Under ==
  IF Walk THEN ChildrenOf(Head(queue))
  ELSE IF opt.kind = "gitlab" THEN Tree(Min(left))
  ELSE remote
Order == IF opt.kind = "jira" THEN recent ELSE Rank
Mark == IF opt.kind = "gitlab" THEN Before(cursor) + 1 ELSE cursor

\* What decides whether a listing by offset is past a document.
ByPlace(d) ==
  /\ (opt.kind # "gitlab" /\ ~Walk) => (Behind(d) <=> Place(d, Under, Order) < Mark)
  /\ Walk => (Behind(d) <=> /\ parent[d] \in seen
                            /\ \/ parent[d] \notin ToSet(queue)
                               \/ parent[d] = Head(queue) /\ Place(d, Under, Order) < Mark)
  /\ opt.kind = "gitlab" =>
       (Behind(d) <=> resolved /\ \E i \in DOMAIN Projects : HomeOf(d, i) /\
                        (i \notin left \/ (i = Min(left) /\ Place(d, Under, Order) < Mark)))
AllByPlace == \A d \in remote : Mark \in Int /\ ByPlace(d)

\* By offset, a listing is past what has a place before its mark.
LEMMA BehindByPlace == Basis /\ Offset /\ Listing => AllByPlace
<1> SUFFICES ASSUME Basis, Offset, Listing, NEW d \in remote
             PROVE  Mark \in Int /\ ByPlace(d)
  BY DEF AllByPlace
<1> USE DEF ByPlace, Under
<1>1. cursor \in Nat \ {0} /\ Before(cursor) \in Int
  BY CursorAt, BeforeAt
<1>2. Mark \in Int
  BY <1>1 DEF Mark
<1>3. CASE opt.kind = "confluence" /\ ~Part
  BY <1>2, <1>3 DEF Behind, Walk, ByToken, Order, Mark
<1>4. CASE opt.kind = "confluence" /\ Part
  BY <1>2, <1>4 DEF Behind, WalkBehind, Walk, ByToken, Order, Mark
<1>5. CASE opt.kind = "jira"
  BY <1>2, <1>5 DEF Behind, Walk, ByToken, Order, Mark
<1>6. CASE opt.kind = "gitlab"
  <2>1. \A i : HomeOf(d, i) => Place(d, Tree(i), Rank) \in Nat
    <3> SUFFICES ASSUME NEW i, HomeOf(d, i) PROVE Place(d, Tree(i), Rank) \in Nat
      OBVIOUS
    <3>1. d \in Tree(i) /\ Keyed(Tree(i), Rank)
      BY PlacesKeyed DEF HomeOf, Tree
    <3> QED
      BY <3>1, PlaceBounds
  <2>2. \A i : HomeOf(d, i) => (Place(d, Tree(i), Rank) <= Before(cursor) <=> Place(d, Tree(i), Order) < Mark)
    BY <1>1, <1>6, <2>1 DEF Order, Mark
  <2>3. ~Walk /\ ~ByToken
    BY <1>6 DEF Walk, ByToken
  <2>4. Behind(d) <=> resolved /\ \E i \in DOMAIN Projects : HomeOf(d, i) /\ TreeBehind(d, i)
    BY <1>6, <2>3 DEF Behind
  <2> QED
    BY <1>2, <1>6, <2>2, <2>3, <2>4 DEF TreeBehind
<1> QED
  BY <1>3, <1>4, <1>5, <1>6 DEF Offset

\* An edit loses only what it moves from the mark on to before it.
LEMMA EditShifts ==
  ASSUME Basis, Basis', Reached, Offset, Listing, RemoteEdit, NEW Z,
         \A d \in Under : d \in Settled' /\ d \notin Z /\ Place(d, Under', Order') < Mark
                           => Place(d, Under, Order) < Mark
  PROVE  Lost' \subseteq Lost \cup Z
<1>1. /\ UNCHANGED <<opt, phase, cursor, items, queue, seen, projects, resolved, left>>
      /\ Settled' \in SUBSET Settled
      /\ \A d \in Docs : d \notin touched' => parent'[d] = parent[d]
  BY SettledShrinks DEF listVars
<1>2. Offset' /\ Listing' /\ (Walk' <=> Walk) /\ Sought' = Sought
  BY <1>1, SameWishes DEF Listing
<1> SUFFICES ASSUME NEW d \in Settled', d \notin Got', Behind(d)', d \notin Z PROVE d \in Lost
  BY DEF Lost
<1>3. d \in remote /\ d \in remote' /\ d \in Settled \ Got /\ d \in Docs /\ parent'[d] = parent[d]
  BY <1>1 DEF Settled, Got, Basis, Typed, RemoteTypeOK
<1>4. ByPlace(d)
  BY <1>3, BehindByPlace DEF AllByPlace
<1>5. ByPlace(d)'
  <2>1. (Basis /\ Offset /\ Listing => AllByPlace)'
    BY BehindByPlace, PTL
  <2> QED
    BY <1>2, <1>3, <2>1 DEF AllByPlace
<1>6. Mark' = Mark
  BY <1>1 DEF Mark
<1>7. d \in Under /\ Place(d, Under', Order') < Mark => Place(d, Under, Order) < Mark
  OBVIOUS
<1>8. CASE opt.kind # "gitlab" /\ ~Walk
  <2>1. d \in Under
    BY <1>3, <1>8 DEF Under
  <2>2. Place(d, Under', Order') < Mark
    BY <1>1, <1>2, <1>5, <1>6, <1>8 DEF ByPlace
  <2> QED
    BY <1>3, <1>4, <1>7, <1>8, <2>1, <2>2 DEF ByPlace, Lost
<1>9. CASE Walk
  <2>1. /\ parent[d] \in seen
        /\ \/ parent[d] \notin ToSet(queue)
           \/ parent[d] = Head(queue) /\ Place(d, Under', Order') < Mark
    BY <1>1, <1>2, <1>3, <1>5, <1>6, <1>9 DEF ByPlace
  <2>2. parent[d] # d
    BY <1>3, <1>9, <2>1 DEF Reached
  <2>3. parent[d] = Head(queue) => d \in Under
    BY <1>3, <1>9, <2>2 DEF Under, ChildrenOf
  <2> QED
    BY <1>3, <1>4, <1>7, <1>9, <2>1, <2>3 DEF ByPlace, Lost
<1>10. CASE opt.kind = "gitlab"
  <2>1. PICK i \in DOMAIN Projects : /\ resolved /\ HomeOf(d, i)
                                     /\ i \notin left \/ (i = Min(left) /\ Place(d, Under', Order') < Mark)
    BY <1>1, <1>2, <1>5, <1>6, <1>10 DEF ByPlace, HomeOf
  <2>2. i = Min(left) => d \in Under
    BY <1>3, <1>10, <2>1 DEF Under, Tree, HomeOf, Walk
  <2> QED
    BY <1>3, <1>4, <1>7, <1>10, <2>1, <2>2 DEF ByPlace, Lost
<1> QED
  BY <1>8, <1>9, <1>10

\* Nothing comes before a document when another is written; one goes when one is removed.
LEMMA UnderOrder ==
  ASSUME Basis
  PROVE  Under \in SUBSET remote /\ Keyed(Under, Order) /\ IsFiniteSet(Under)
<1>1. Under \in SUBSET remote
  BY DEF Under, ChildrenOf, Tree
<1>2. Keyed(Under, Order)
  BY <1>1, PlacesKeyed DEF Order
<1> QED
  BY <1>1, <1>2 DEF Keyed

\* A change moves no unchanged document to before the mark.
LEMMA LostByWrite ==
  ASSUME Basis, Basis', Reached, Offset, Listing, RemoteEdit, NEW y \in Docs, Write(y)
  PROVE  Lost' \subseteq Lost
<1>1. /\ UNCHANGED <<opt, queue, left, parent>>
      /\ remote' = remote \cup {y} /\ recent' = [recent EXCEPT ![y] = 0 - edits] /\ y \in touched'
  BY SettledShrinks DEF Write, Edited, listVars
<1>2. Under \subseteq Under'
  <2>1. /\ \A p : ChildrenOf(p) \subseteq ChildrenOf(p)'
        /\ \A i : Tree(i) \subseteq Tree(i)'
    BY <1>1 DEF ChildrenOf, Tree
  <2> QED
    BY <1>1, <2>1, SameWishes DEF Under
<1>3. IsFiniteSet(Under')
  <2>1. (Basis => Under \in SUBSET remote /\ Keyed(Under, Order) /\ IsFiniteSet(Under))'
    BY UnderOrder, PTL
  <2> QED
    BY <2>1
<1>4. ASSUME NEW d \in Under, d \in Settled', NEW x \in Under, Order[x] <= Order[d]
      PROVE  Order'[x] <= Order'[d]
  <2>1. d # y /\ x \in Docs /\ d \in Docs
    BY <1>1, <1>4, UnderOrder, PlacesKeyed DEF Settled
  <2>2. CASE opt.kind = "jira"
    <3>1. /\ recent'[d] = recent[d] /\ recent[d] \in Int /\ recent[d] > 0 - edits /\ edits \in Int
          /\ recent'[x] = IF x = y THEN 0 - edits ELSE recent[x]
      BY <1>1, <2>1, Bounds DEF Basis, Typed, RemoteTypeOK, Dated
    <3> QED
      BY <1>1, <1>4, <2>2, <3>1 DEF Order
  <2>3. CASE opt.kind # "jira"
    BY <1>1, <1>4, <2>3 DEF Order
  <2> QED
    BY <2>2, <2>3
<1> DEFINE S == Under
           T == Under'
           key == Order
           new == Order'
<1>5. ASSUME NEW d \in Under, d \in Settled', Place(d, Under', Order') < Mark
      PROVE  Place(d, Under, Order) < Mark
  <2>1. \A x \in S : key[x] <= key[d] => x \in T /\ new[x] <= new[d]
    BY <1>2, <1>4, <1>5
  <2>2. IsFiniteSet(T) /\ d \in S /\ Keyed(S, key)
    BY <1>3, <1>5, UnderOrder
  <2> HIDE DEF S, T, key, new
  <2>3. Place(d, S, key) <= Place(d, T, new)
    BY <2>1, <2>2, NoneShifts
  <2>4. Place(d, S, key) \in Nat
    BY <2>2, PlaceBounds
  <2>5. Place(d, T, new) \in Nat
    <3>1. {z \in T : new[z] <= new[d]} \in SUBSET T
      OBVIOUS
    <3>2. IsFiniteSet({z \in T : new[z] <= new[d]})
      BY <2>2, <3>1, FS_Subset, Zenon
    <3> QED
      BY <3>2, FS_CardinalityType DEF Place
  <2>6. Mark \in Int
    <3>1. cursor \in Nat /\ Before(cursor) \in Int
      BY CursorAt, BeforeAt
    <3> QED
      BY <3>1 DEF Mark
  <2>7. Place(d, T, new) < Mark
    BY <1>5 DEF T, new
  <2>8. Place(d, S, key) < Mark
    BY <2>3, <2>4, <2>5, <2>6, <2>7
  <2> QED
    BY <2>8 DEF S, key
<1>6. \A d \in Under : d \in Settled' /\ d \notin {} /\ Place(d, Under', Order') < Mark
                         => Place(d, Under, Order) < Mark
  BY <1>5
<1>7. Lost' \subseteq Lost \cup {}
  BY <1>6, EditShifts
<1> QED
  BY <1>7

\* A removal moves one at most.
LEMMA LostByRemoval ==
  ASSUME Basis, Basis', Reached, Offset, Listing, RemoteEdit, NEW y \in Docs,
         Vanish(y) \/ \E p \in Docs : Move(y, p)
  PROVE  \E z : Lost' \subseteq Lost \cup {z}
<1>1. /\ UNCHANGED <<opt, queue, left, recent>>
      /\ remote' \in {remote, remote \ {y}}
      /\ \A d \in Docs : d # y => parent'[d] = parent[d]
  <2>1. UNCHANGED <<opt, queue, left>>
    BY SettledShrinks DEF listVars
  <2>2. parent \in [Docs -> Docs]
    BY DEF Basis, Typed, RemoteTypeOK
  <2> QED
    BY <2>1, <2>2 DEF Vanish, Move
<1>2. Under \ {y} \subseteq Under'
  <2>1. /\ \A p : ChildrenOf(p) \ {y} \subseteq ChildrenOf(p)'
        /\ \A i : Tree(i) \ {y} \subseteq Tree(i)'
    BY <1>1 DEF ChildrenOf, Tree, Basis, Typed, RemoteTypeOK
  <2> QED
    BY <1>1, <2>1, SameWishes DEF Under
<1>3. IsFiniteSet(Under')
  <2>1. (Basis => Under \in SUBSET remote /\ Keyed(Under, Order) /\ IsFiniteSet(Under))'
    BY UnderOrder, PTL
  <2> QED
    BY <2>1
<1>4. Order' = Order
  BY <1>1 DEF Order
<1>5. Mark \in Int
  <2>1. cursor \in Nat /\ Before(cursor) \in Int
    BY CursorAt, BeforeAt
  <2> QED
    BY <2>1 DEF Mark
<1> DEFINE S == Under
           T == Under'
           key == Order
<1>6. PICK z : \A d \in S : Place(d, T, key) < Mark /\ d # z => Place(d, S, key) < Mark
  <2>1. Keyed(S, key)
    BY UnderOrder
  <2> HIDE DEF S, T, key
  <2> QED
    BY <1>2, <1>3, <1>5, <2>1, OneShifts DEF S, T
<1>7. \A d \in Under : d \in Settled' /\ d \notin {z} /\ Place(d, Under', Order') < Mark
                         => Place(d, Under, Order) < Mark
  BY <1>4, <1>6
<1> QED
  BY <1>7, EditShifts

\* So what is lost is no more than what was removed.
LEMMA LostByEdit ==
  ASSUME Basis, Basis', Reached, Listing, RemoteEdit, ~cut
  PROVE  Cardinality(Lost') <= Slack'
<1>1. /\ UNCHANGED <<opt, phase, cursor, items>> /\ Settled' \in SUBSET Settled
      /\ removed' \in {removed, removed + 1}
  BY SettledShrinks DEF listVars
<1>2. Cardinality(Lost) <= Slack /\ Slack \in Nat /\ removed \in Nat /\ Lost \in SUBSET Docs /\ IsFiniteSet(Lost)
  BY Counted DEF Reached
<1>3. CASE ~Offset
  <2>1. Lost' \in SUBSET Lost
    <3> SUFFICES ASSUME NEW d \in Settled', d \notin Got', Behind(d)' PROVE d \in Lost
      BY DEF Lost
    <3>1. Behind(d)
      BY <1>1, <1>3, SameWishes DEF Behind, Offset, Walk
    <3> QED
      BY <1>1, <3>1 DEF Lost, Got
  <2>2. Cardinality(Lost') <= Cardinality(Lost) /\ Cardinality(Lost) \in Nat /\ Cardinality(Lost') \in Nat
    BY <1>2, <2>1, Counted
  <2>3. Slack = 0 /\ Slack' = 0
    BY <1>1, <1>3, SameWishes DEF Slack
  <2> QED
    BY <1>2, <2>2, <2>3
<1>4. CASE Offset
  <2>1. Slack = removed /\ Slack' = removed'
    BY <1>1, <1>4, SameWishes DEF Slack
  <2>2. ASSUME NEW y \in Docs, Write(y) PROVE Cardinality(Lost') <= Slack'
    <3>1. Lost' \in SUBSET Lost /\ removed' = removed
      BY <1>4, <2>2, LostByWrite DEF Write
    <3>2. Cardinality(Lost') <= Cardinality(Lost) /\ Cardinality(Lost) \in Nat /\ Cardinality(Lost') \in Nat
      BY <1>2, <3>1, Counted
    <3> QED
      BY <1>2, <2>1, <3>1, <3>2
  <2>3. ASSUME NEW y \in Docs, Vanish(y) \/ \E p \in Docs : Move(y, p) PROVE Cardinality(Lost') <= Slack'
    <3>1. PICK z : Lost' \in SUBSET (Lost \cup {z})
      BY <1>4, <2>3, LostByRemoval
    <3>2. removed' = removed + 1
      BY <2>3 DEF Vanish, Move
    <3>3. /\ IsFiniteSet(Lost \cup {z})
          /\ Cardinality(Lost \cup {z}) = IF z \in Lost THEN Cardinality(Lost) ELSE Cardinality(Lost) + 1
      BY <1>2, FS_AddElement
    <3>4. Cardinality(Lost') <= Cardinality(Lost \cup {z}) /\ IsFiniteSet(Lost')
      BY <3>1, <3>3, FS_Subset, Zenon
    <3>5. Cardinality(Lost) \in Nat /\ Cardinality(Lost') \in Nat
      BY <1>2, <3>4, FS_CardinalityType
    <3> QED
      BY <1>2, <2>1, <3>2, <3>3, <3>4, <3>5
  <2> QED
    BY <2>2, <2>3 DEF RemoteEdit, Edit
<1> QED
  BY <1>3, <1>4

\* An edit keeps what is reached.
LEMMA ReachedEdit ==
  ASSUME Basis, Basis', Reached, RemoteEdit
  PROVE  Reached'
<1>1. /\ UNCHANGED <<opt, phase, cursor, items, queue, seen, cut, todo, listed>>
      /\ Settled' \in SUBSET Settled
      /\ removed' \in {removed, removed + 1}
      /\ \A d \in Docs : d \notin touched' => parent'[d] = parent[d]
  BY SettledShrinks DEF listVars, fetchVars
<1>2. /\ Got' = Got /\ (Offset' <=> Offset) /\ (Walk' <=> Walk) /\ (Listing' <=> Listing)
      /\ ListedNow' = ListedNow
  BY <1>1, SameWishes DEF Got, Listing, ListedNow
<1>3. NoneMissed'
  <2> SUFFICES ASSUME ~cut PROVE Cardinality(Topmost(Settled \ ListedNow)') <= Slack'
    BY <1>1 DEF NoneMissed, Slack
  <2> DEFINE M == Topmost(Settled \ ListedNow)'
             N == Topmost(Settled \ ListedNow)
  <2>1. M \in SUBSET N
    <3> SUFFICES ASSUME NEW d \in M PROVE d \in N
      OBVIOUS
    <3>1. d \in (Settled \ ListedNow)'
      BY DEF Topmost
    <3>2. d \in Settled \ ListedNow /\ parent'[d] = parent[d]
      BY <1>1, <1>2, <3>1, Counted DEF Settled
    <3>3. Walk => parent[d] \in Got
      BY <1>1, <1>2, <3>2, SameWishes DEF Topmost, Walk, Got
    <3> QED
      BY <3>2, <3>3 DEF Topmost, Walk, Got
  <2>2. N \in SUBSET Docs
    BY Counted
  <2>3. Cardinality(N) <= Slack
    BY DEF NoneMissed, Reached, Slack
  <2> HIDE DEF M, N
  <2>4. Cardinality(M) <= Cardinality(N) /\ Cardinality(N) \in Nat /\ Cardinality(M) \in Nat
    BY <2>1, <2>2, Counted
  <2>5. Slack \in Nat /\ Slack' \in Nat /\ Slack <= Slack'
    <3>1. removed \in Nat
      BY Counted
    <3> QED
      BY <1>1, <1>2, <3>1 DEF Slack
  <2>6. Cardinality(M) <= Slack'
    BY <2>3, <2>4, <2>5
  <2> QED
    BY <2>6 DEF M
<1>4. (Listing' /\ ~cut') => Cardinality(Lost') <= Slack'
  BY <1>1, <1>2, LostByEdit
<1> QED
  BY <1>1, <1>2, <1>3, <1>4 DEF Reached

\* So do steps that list nothing,
LEMMA ReachedStill ==
  ASSUME Basis, Basis', Reached, Resolving, Still \/ Ends \/ \E e \in todo : Loads(e)
  PROVE  Reached' /\ Resolving'
<1>1. UNCHANGED <<opt, remoteVars, listVars, listed>>
  BY DEF Still, Ends, Loads, fetchVars
<1>2. \/ phase' = phase /\ (phase = "probe" => todo' = todo)
      \/ phase \in {"listed", "download"} /\ phase' = "done"
  BY DEF Still, Ends, Loads, fetchVars
<1>3. /\ Settled' = Settled /\ Slack' = Slack /\ Got' = Got /\ UNCHANGED <<parent, items, removed, cut, seen, projects, left, cursor, resolved>>
      /\ (Walk' <=> Walk) /\ (Listing' <=> Listing) /\ (Offset' <=> Offset) /\ ListedNow' = ListedNow
  BY <1>1, <1>2, SameRemote, SameWishes DEF listVars, remoteVars, Got, Listing, ListedNow
<1>4. NoneMissed'
  <2>1. Topmost(Settled \ ListedNow)' = Topmost(Settled \ ListedNow)
    BY <1>1, <1>3, SameWishes DEF Topmost
  <2> QED
    BY <1>3, <2>1 DEF Reached, NoneMissed
<1>5. Lost' = Lost
  <2>1. \A d \in Settled : Behind(d)' <=> Behind(d)
    BY <1>1, SameWishes DEF Behind, WalkBehind, TreeBehind, HomeOf, Tree, ChildrenOf, remoteVars, listVars
  <2> QED
    BY <1>3, <2>1 DEF Lost
<1>6. Resolving'
  BY <1>1, <1>3, SameWishes DEF Resolving
<1>7. Reached'
  BY <1>1, <1>2, <1>3, <1>4, <1>5 DEF Reached
<1> QED
  BY <1>6, <1>7

\* and those that break off.
LEMMA ReachedBreaks ==
  ASSUME Basis, Basis', Reached, Resolving, Breaks
  PROVE  Reached' /\ Resolving'
<1>1. /\ UNCHANGED <<opt, remoteVars, projects, resolved, cut>>
      /\ phase' = "failed" /\ left' = {} /\ cursor' = Start
  BY DEF Breaks, Broken
<1>2. NoneMissed'
  <2>1. (Basis /\ phase \notin {"listed", "done", "download"} => NoneMissed)'
    BY NotYetMissed, PTL
  <2> QED
    BY <1>1, <2>1
<1>3. Resolving'
  <2>1. \A i \in Sought : i \in Int /\ ~(i <= 0) /\ Before(1) = 0
    BY BeforeAt, Grouped DEF Sought
  <2> QED
    BY <1>1, <2>1, SameWishes DEF Resolving, Start, Listing
<1>4. Reached'
  BY <1>1, <1>2 DEF Reached, Listing
<1> QED
  BY <1>3, <1>4

\* What is excused is a number.
LEMMA SlackCounts == Basis => Slack \in Nat
BY Counted

\* The second listing starts anew.
LEMMA ReachedChoose ==
  ASSUME Basis, Basis', Reached, Resolving, Choose
  PROVE  Reached' /\ Resolving'
<1>1. /\ phase = "listed" /\ phase' = "relist" /\ cursor' = 1
      /\ items' = <<>> /\ queue' = <<>> /\ seen' = {} /\ left' = projects
      /\ UNCHANGED <<opt, projects, resolved, cut, listed, remote, recent, rev, parent>>
      /\ opt.kind = "provider" => touched' = touched
  BY DEF Choose, Start
<1>2. remote \in SUBSET Docs /\ remote' = remote
  BY <1>1 DEF Basis, Typed, RemoteTypeOK
<1>3. ASSUME NEW d \in Settled', Behind(d)' PROVE FALSE
  <2>1. d \in remote /\ d \in Docs
    BY <1>2 DEF Settled
  <2>2. Keyed(remote, Rank) /\ Keyed(remote, recent)
    BY PlacesKeyed
  <2>3. Place(d, remote, Rank) \in Nat \ {0} /\ Place(d, remote, recent) \in Nat \ {0}
    BY <2>1, <2>2, PlaceBounds
  <2>4. ~(Place(d, remote, Rank) < cursor') /\ ~(Place(d, remote, recent) < cursor') /\ ~(Rank[d] < cursor')
    BY <1>1, <2>1, <2>3, Ranks
  <2>5. \A h \in Meta[d].home : ~(h < cursor')
    BY <1>1, <2>1, Homes
  <2>6. ~WalkBehind(d)'
    BY <1>1 DEF WalkBehind
  <2>7. ASSUME opt.kind = "gitlab", resolved, NEW i \in DOMAIN Projects, HomeOf(d, i)', TreeBehind(d, i)' PROVE FALSE
    <3>1. i \in Sought /\ d \in Tree(i) /\ Tree(i)' = Tree(i) /\ i \in projects
      BY <1>1, <2>1, <2>7, SameWishes DEF HomeOf, Tree, Resolving
    <3>2. Place(d, Tree(i), Rank) <= Before(1)
      BY <1>1, <2>7, <3>1 DEF TreeBehind
    <3>3. Keyed(Tree(i), Rank)
      BY PlacesKeyed
    <3>4. Place(d, Tree(i), Rank) \in Nat \ {0}
      BY <3>1, <3>3, PlaceBounds
    <3> QED
      BY <3>2, <3>4, BeforeAt
  <2> QED
    BY <1>1, <1>3, <2>4, <2>5, <2>6, <2>7, SameWishes DEF Behind
<1>4. Lost' = {} /\ Slack' \in Nat
  <2>1. (Basis => Slack \in Nat)'
    BY SlackCounts, PTL
  <2> QED
    BY <1>3, <2>1 DEF Lost
<1>5. NoneMissed'
  <2>1. (Basis /\ phase \notin {"listed", "done", "download"} => NoneMissed)'
    BY NotYetMissed, PTL
  <2> QED
    BY <1>1, <2>1
<1>6. opt.kind = "provider" => Settled' \subseteq DocsOf(ToSet(listed'))
  <2> SUFFICES ASSUME opt.kind = "provider" PROVE Settled' \subseteq DocsOf(ToSet(listed))
    BY <1>1
  <2>1. Settled' = Settled
    BY <1>1, SameWishes DEF Settled
  <2>2. ~cut /\ Slack = 0 /\ Topmost(Settled \ ListedNow) = Settled \ Got /\ items = listed
    BY <1>1 DEF Reached, Slack, Offset, Topmost, ListedNow, Got, Basis, Control
  <2>3. Cardinality(Settled \ Got) <= 0
    BY <2>2 DEF Reached, NoneMissed, Slack
  <2>4. IsFiniteSet(Settled \ Got) /\ Cardinality(Settled \ Got) \in Nat
    <3>1. Settled \ Got \in SUBSET Docs
      BY Counted
    <3> QED
      BY <3>1, Counted
  <2>5. Settled \ Got = {}
    <3>1. Cardinality(Settled \ Got) = 0
      BY <2>3, <2>4
    <3> QED
      BY <2>4, <3>1, FS_EmptySet
  <2> QED
    BY <2>1, <2>2, <2>5 DEF Got
<1>7. Resolving'
  <2>1. \A i \in Sought : i \in Int /\ ~(i <= 0) /\ Before(1) = 0
    BY BeforeAt, Grouped DEF Sought
  <2> QED
    BY <1>1, <2>1, SameWishes DEF Resolving, Start
<1>8. Reached'
  BY <1>1, <1>4, <1>5, <1>6, Counted DEF Reached
<1> QED
  BY <1>7, <1>8

\* The invariants of the listing together.
Surveyed == Distinct /\ Reached /\ Resolving

\* The invariant of a listing holds at the start.
LEMMA SurveyedInitially == Init => Surveyed
<1> SUFFICES ASSUME Init PROVE Surveyed
  OBVIOUS
<1>1. Basis /\ CInv
  BY BasisInitially DEF CInv
<1>2. /\ phase \in {"list", "relist"} /\ cursor = 1 /\ items = <<>> /\ listed = <<>>
      /\ seen = {} /\ resolved = FALSE /\ cut = FALSE
      /\ phase = "relist" => opt.full
  BY DEF Init, Start
<1>3. Distinct
  BY <1>2, NothingOnce DEF Distinct, Got
<1>4. Resolving
  <2>1. \A i \in Sought : i \in Int /\ ~(i <= 0) /\ Before(1) = 0
    BY BeforeAt, Grouped DEF Sought
  <2> QED
    BY <1>2, <2>1 DEF Resolving
<1>5. NoneMissed
  BY <1>1, <1>2, NotYetMissed
<1>6. Lost = {}
  <2> SUFFICES ASSUME NEW d \in Settled, Behind(d) PROVE FALSE
    BY DEF Lost
  <2>1. d \in remote /\ d \in Docs
    BY Counted, <1>1 DEF Settled
  <2>2. Keyed(remote, Rank) /\ Keyed(remote, recent)
    BY <1>1, PlacesKeyed
  <2>3. Place(d, remote, Rank) \in Nat \ {0} /\ Place(d, remote, recent) \in Nat \ {0}
    BY <2>1, <2>2, PlaceBounds
  <2>4. ~(Place(d, remote, Rank) < cursor) /\ ~(Place(d, remote, recent) < cursor) /\ ~(Rank[d] < cursor)
    BY <1>2, <2>1, <2>3, Ranks
  <2>5. \A h \in Meta[d].home : ~(h < cursor)
    BY <1>2, <2>1, Homes
  <2>6. ~WalkBehind(d)
    BY <1>2 DEF WalkBehind
  <2> QED
    BY <1>2, <2>4, <2>5, <2>6 DEF Behind
<1>7. Slack \in Nat
  BY <1>1, SlackCounts
<1>8. Reached
  BY <1>1, <1>2, <1>5, <1>6, <1>7, Counted DEF Reached
<1> QED
  BY <1>3, <1>4, <1>8 DEF Surveyed

\* Every step keeps it.
LEMMA SurveyedInductive ==
  ASSUME Basis, Basis', Surveyed, Moves \/ Still
  PROVE  Surveyed'
<1>1. Distinct'
  BY DistinctInductive DEF Surveyed
<1>2. Reached' /\ Resolving'
  <2>1. CASE Breaks
    BY <2>1, ReachedBreaks DEF Surveyed
  <2>2. CASE RemoteEdit
    <3>1. Reached'
      BY <2>2, ReachedEdit DEF Surveyed
    <3>2. UNCHANGED <<opt, phase, cursor, projects, resolved, left>>
      BY <2>2, SettledShrinks DEF listVars
    <3>3. Resolving'
      BY <3>2, SameWishes DEF Surveyed, Resolving, Listing
    <3> QED
      BY <3>1, <3>3
  <2>3. CASE Choose
    BY <2>3, ReachedChoose DEF Surveyed
  <2>4. CASE Still \/ Ends \/ \E e \in todo : Loads(e)
    BY <2>4, ReachedStill DEF Surveyed
  <2>5. CASE Lists
    <3>1. Breaks \/ ListsOn
      BY <2>5, ListsCases
    <3> QED
      BY <2>1, <2>5, <3>1, ReachedLists DEF Surveyed
  <2> QED
    BY <2>1, <2>2, <2>3, <2>4, <2>5 DEF Moves
<1> QED
  BY <1>1, <1>2 DEF Surveyed

\* So it always holds.
LEMMA SurveyedAlways == Spec => []Surveyed
<1>1. CInv /\ Surveyed /\ [Next]_vars => Surveyed'
  <2> SUFFICES ASSUME CInv, Surveyed, [Next]_vars PROVE Surveyed'
    OBVIOUS
  <2>1. CInv' /\ (Moves \/ Still)
    BY BasisInductive
  <2> QED
    BY <2>1, SurveyedInductive DEF CInv
<1> QED
  BY <1>1, SurveyedInitially, BasisAlways, PTL DEF Spec

(* A listing misses no document that was there and unchanged while it was   *)
(* made, but for one by offset per removal (with what is below it in a page *)
(* tree), whatever the order of pages, edits and retries: the loops of      *)
(* list_documents in src/alvis/sources.                                     *)
THEOREM MissesNothing == Spec => []NoneMissed
<1>1. Surveyed => NoneMissed
  BY DEF Surveyed, Reached
<1> QED
  BY <1>1, SurveyedAlways, PTL

-----------------------------------------------------------------------------
(* What was listed and asked for is delivered.                              *)

\* What was listed, asked for and not changed is delivered or to be.
Fetched ==
  phase \in {"download", "done"} =>
    \A d \in Settled \cap want : d \in Got /\ ~TooBig(d) /\ ~Withheld(d) => d \in DocsOf(todo) \cup DocsOf(WithBody)

\* Every step keeps it.
LEMMA FetchedInductive ==
  ASSUME Basis, Basis', Fetched, Moves \/ Still
  PROVE  Fetched'
<1>1. CASE Breaks \/ Choose
  BY <1>1 DEF Breaks, Broken, Choose, Fetched
<1>2. CASE RemoteEdit
  <2>1. UNCHANGED <<opt, phase, items, want, todo, arts>> /\ Settled' \in SUBSET Settled
    BY <1>2, SettledShrinks DEF listVars, fetchVars
  <2> QED
    BY <2>1, SameWishes DEF Fetched, Got, Withheld, WithBody
<1>3. CASE Still \/ Ends
  <2>1. UNCHANGED <<opt, items, want, todo, arts, remoteVars>>
    BY <1>3 DEF Still, Ends, listVars, fetchVars
  <2>2. \/ phase' = phase \/ want = {} \/ phase = "download"
    BY <1>3 DEF Still, Ends, Basis, Control
  <2> QED
    BY <2>1, <2>2, SameRemote, SameWishes DEF Fetched, Got, Withheld, WithBody
<1>4. ASSUME NEW e \in todo, Loads(e) PROVE Fetched'
  <2>1. /\ UNCHANGED <<opt, phase, items, want, remoteVars>> /\ phase = "download" /\ todo' = todo \ {e}
        /\ \/ arts' = arts /\ (FetchOne(e) = Skip \/ Withheld(e.doc))
           \/ arts' = arts \cup {FetchOne(e)} /\ FetchOne(e) \notin {Skip, Error}
    BY <1>4 DEF Loads, listVars
  <2>2. Settled' = Settled /\ Got' = Got
    BY <2>1, SameRemote DEF Got
  <2> SUFFICES ASSUME NEW d \in Settled, d \in want, d \in Got, ~TooBig(d), ~Withheld(d)
               PROVE  d \in DocsOf(todo') \cup DocsOf(WithBody')
    BY <2>1, <2>2, SameWishes DEF Fetched, Withheld
  <2>3. d \in DocsOf(todo) \cup DocsOf(WithBody)
    BY <2>1 DEF Fetched
  <2>4. CASE d = e.doc
    <3>1. /\ FetchOne(e) \in {Error, Now(e.doc), e} /\ Now(e.doc).doc = e.doc
          /\ Now(e.doc) \in Entry /\ e \in Entry
      BY <2>1, <2>4, FetchTyped DEF Settled
    <3>2. FetchOne(e) \in arts' /\ FetchOne(e).doc = d /\ FetchOne(e) \in Entry
      BY <2>1, <2>4, <3>1, Outcomes
    <3>3. FetchOne(e) \in WithBody'
      BY <3>2, Outcomes DEF WithBody
    <3> QED
      BY <3>2, <3>3 DEF DocsOf
  <2>5. CASE d # e.doc
    <3>1. d \in DocsOf(todo) => d \in DocsOf(todo')
      BY <2>1, <2>5 DEF DocsOf
    <3>2. d \in DocsOf(WithBody) => d \in DocsOf(WithBody')
      BY <2>1 DEF DocsOf, WithBody
    <3> QED
      BY <2>3, <3>1, <3>2
  <2> QED
    BY <2>4, <2>5
<1>5. CASE Lists /\ ListsOn
  <2> SUFFICES ASSUME phase' = "download" PROVE Fetched'
    BY <1>5 DEF ListsOn, Basis, Typed, Fetched
  <2>1. want' = want /\ todo' = {e \in ToSet(items') : e.doc \in want}
    BY <1>5 DEF ListsOn
  <2>2. \A d \in Got' : d \in want => d \in DocsOf(todo')
    BY <2>1 DEF Got, DocsOf
  <2> QED
    BY <2>1, <2>2 DEF Fetched
<1> QED
  BY <1>1, <1>2, <1>3, <1>4, <1>5, ListsCases DEF Moves

(* A fetch that ends well delivers, with its body, every document it was    *)
(* asked for that was there and unchanged meanwhile; by offset, but for one *)
(* per removal (fetch and _fetch_one of the connectors).  What it leaves    *)
(* out in silence is what is too big, what has no download URL in           *)
(* SharePoint, and the body that GitHub leaves out.                         *)
THEOREM DeliversWhatIsThere == Spec => []FetchComplete
<1>1. Init => Fetched
  BY DEF Init, Fetched
<1>2. CInv /\ Fetched /\ [Next]_vars => Fetched'
  <2> SUFFICES ASSUME CInv, Fetched, [Next]_vars PROVE Fetched'
    OBVIOUS
  <2>1. CInv' /\ (Moves \/ Still)
    BY BasisInductive
  <2> QED
    BY <2>1, FetchedInductive DEF CInv
<1>3. CInv /\ Surveyed /\ Fetched => FetchComplete
  <2> SUFFICES ASSUME Basis, NoneMissed, Fetched, phase = "done", ~cut
               PROVE  LET due == {d \in want \cap Settled : ~TooBig(d) /\ ~Withheld(d)}
                      IN Cardinality(Topmost(due \ DocsOf(WithBody))) <= Slack
    BY DEF CInv, Surveyed, Reached, FetchComplete, Slack
  <2> DEFINE due == {d \in want \cap Settled : ~TooBig(d) /\ ~Withheld(d)}
             M == Topmost(due \ DocsOf(WithBody))
             N == Topmost(Settled \ Got)
  <2>1. todo = {} /\ DocsOf(todo) = {}
    BY DEF Basis, Control, DocsOf
  <2>2. due \ DocsOf(WithBody) \subseteq Settled \ Got
    BY <2>1 DEF Fetched
  <2>3. M \in SUBSET N
    BY <2>2 DEF Topmost
  <2>4. N \in SUBSET Docs
    BY Counted
  <2>5. Cardinality(N) <= Slack /\ Slack \in Nat
    BY Counted DEF NoneMissed, ListedNow, Got, Slack
  <2> HIDE DEF M, N
  <2>6. Cardinality(M) <= Cardinality(N) /\ Cardinality(N) \in Nat /\ Cardinality(M) \in Nat
    BY <2>3, <2>4, Counted
  <2>7. Cardinality(M) <= Slack
    BY <2>5, <2>6
  <2> QED
    BY <2>7 DEF M
<1> QED
  BY <1>1, <1>2, <1>3, BasisAlways, SurveyedAlways, PTL DEF Spec
==============================================================================
