---------------------------- MODULE FanoutProofs ----------------------------
(***************************************************************************)
(* Proofs about Fanout, for any number of documents, any bound and any     *)
(* number of retries.                                                      *)
(***************************************************************************)
EXTENDS Fanout, FiniteSetTheorems, TLAPS

(* Which pools there are at each stage of the engine.  A second pool is    *)
(* opened only by what a failure left behind, after the source is closed;  *)
(* no task is left behind by a gather that returned.                       *)
PoolInv ==
  /\ engine = "fetching" => opened = 1 /\ cached = 1 /\ closed = {}
  /\ engine = "closing" => opened = 1 /\ cached = 1 /\ closed = {1}
  /\ engine = "closed" =>
       /\ closed = {1}
       /\ \/ cached \in {0, 1} /\ opened = 1
          \/ cached = 2 /\ opened = 2

GatherInv ==
  /\ engine # "fetching" => gather # "running"
  /\ gather = "returned" =>
       opened = 1 /\ \A i \in Items : task[i] \in {"kept", "skipped"}

FInv == TypeOK /\ PoolInv /\ GatherInv

-----------------------------------------------------------------------------
LEMMA FInvInit == Init => FInv
BY FanoutAssumption
   DEF Init, FInv, TypeOK, PoolInv, GatherInv, Items, Pools, NoPool, InFlight, Final

LEMMA FInvStep == FInv /\ [Next]_vars => FInv'
<1> SUFFICES ASSUME FInv, [Next]_vars PROVE FInv'
  OBVIOUS
<1> USE FanoutAssumption
    DEF FInv, TypeOK, PoolInv, GatherInv, Items, Pools, NoPool, InFlight, Final
<1>1. ASSUME NEW i \in Items, Acquire(i) PROVE FInv'
  <2> USE <1>1 DEF Acquire, Raised
  <2>1. gather # "returned"
    OBVIOUS
  <2>2. /\ Pool \in Pools
        /\ opened' \in {1, 2} /\ cached' = Pool
        /\ Pool = (IF cached = 0 THEN opened + 1 ELSE cached)
    BY DEF Pool
  <2>3. opened' \in Pools /\ cached' \in Pools /\ closed' \subseteq 1..opened'
    BY <2>2
  <2>4. TypeOK'
    BY <2>2, <2>3
  <2>5. PoolInv'
    BY <2>2
  <2>6. GatherInv'
    BY <2>1
  <2> QED
    BY <2>4, <2>5, <2>6
<1>2. ASSUME NEW i \in Items, Answer(i) PROVE FInv'
  BY <1>2 DEF Answer
<1>3. ASSUME NEW i \in Items, Transient(i) PROVE FInv'
  BY <1>3 DEF Transient
<1>4. ASSUME NEW i \in Items, Resend(i) PROVE FInv'
  BY <1>4 DEF Resend, Raised
<1>5. ASSUME NEW i \in Items, Refuse(i) PROVE FInv'
  BY <1>5 DEF Refuse, Raised
<1>6. CASE Return
  BY <1>6 DEF Return
<1>7. CASE CloseBegin
  <2>1. /\ engine' = "closing" /\ closed' = {} \cup {1} /\ opened' = 1
        /\ cached' = 1 /\ gather' # "running"
    BY <1>7 DEF CloseBegin
  <2>2. closed' = {1} /\ closed' \subseteq 1..opened'
    <3>1. {} \cup {1} = {1} /\ {1} \subseteq 1..1
      OBVIOUS
    <3> QED
      BY <2>1, <3>1
  <2>3. TypeOK'
    BY <1>7, <2>1, <2>2 DEF CloseBegin
  <2>4. PoolInv'
    BY <2>1, <2>2
  <2>5. GatherInv'
    BY <1>7, <2>1 DEF CloseBegin
  <2> QED
    BY <2>3, <2>4, <2>5
<1>8. CASE CloseEnd
  <2>1. cached' \in {0, 1} /\ closed' = {1} /\ opened' = 1 /\ engine' = "closed"
    BY <1>8 DEF CloseEnd
  <2> QED
    BY <1>8, <2>1 DEF CloseEnd
<1>9. CASE Shutdown
  BY <1>9 DEF Shutdown
<1>10. CASE UNCHANGED vars
  BY <1>10 DEF vars
<1> QED
  BY <1>1, <1>2, <1>3, <1>4, <1>5, <1>6, <1>7, <1>8, <1>9, <1>10
     DEF Next, Request

(* FInv holds of every state the downloads can reach.                      *)
THEOREM FInvAlways == Spec => []FInv
BY FInvInit, FInvStep, PTL DEF Spec

(* The attempts, pools and tasks stay in their ranges: no request is sent  *)
(* more than Retries + 1 times, and at most one pool is opened again.      *)
THEOREM FanoutTypeCorrect == Spec => []TypeOK
<1>1. FInv => TypeOK
  BY DEF FInv
<1> QED
  BY <1>1, FInvAlways, PTL

(* One pool at a time keeps connections, and none after a success.         *)
THEOREM FanoutOnePool == Spec => []OnePool
<1>1. FInv => OnePool
  <2> SUFFICES ASSUME FInv PROVE OnePool
    OBVIOUS
  <2>1. \/ (1..opened) \ closed = {}
        \/ (1..opened) \ closed = {1}
        \/ (1..opened) \ closed = {2}
    <3>1. /\ engine \in {"fetching", "closing", "closed"}
          /\ 1..1 = {1} /\ 1..2 = {1, 2}
      BY DEF FInv, TypeOK
    <3> QED
      BY <3>1 DEF FInv, PoolInv
  <2>2. Cardinality((1..opened) \ closed) <= 1
    <3>1. \A p \in {1, 2} : Cardinality({p}) = 1
      BY FS_Singleton
    <3>2. Cardinality({}) = 0
      BY FS_EmptySet
    <3> QED
      BY <2>1, <3>1, <3>2
  <2>3. engine = "closed" /\ gather = "returned" => closed = 1..opened
    BY DEF FInv, PoolInv, GatherInv
  <2> QED
    BY <2>2, <2>3 DEF OnePool
<1> QED
  BY <1>1, FInvAlways, PTL

-----------------------------------------------------------------------------
LEMMA InsideFinite == IsFiniteSet(Inside)
<1>1. IsFiniteSet(Items)
  BY FanoutAssumption, FS_Interval DEF Items
<1> QED
  BY <1>1, FS_Subset DEF Inside

(* Only Acquire adds a coroutine to those inside, and it adds one.         *)
LEMMA BoundedStep == FInv /\ Bounded /\ [Next]_vars => Bounded'
<1> SUFFICES ASSUME FInv, Bounded, [Next]_vars PROVE Bounded'
  OBVIOUS
<1> USE FanoutAssumption DEF FInv, TypeOK, Bounded, InFlight
<1>0. Cardinality(Inside) \in Nat /\ Cardinality(Inside') \in Nat
  <2>1. IsFiniteSet(Inside) /\ IsFiniteSet(Inside')
    <3>1. IsFiniteSet(Items)
      BY FS_Interval DEF Items
    <3>2. Inside' \subseteq Items
      BY DEF Inside
    <3> QED
      BY <3>1, <3>2, InsideFinite, FS_Subset
  <2> QED
    BY <2>1, FS_CardinalityType
<1>1. ASSUME Inside' \subseteq Inside PROVE Bounded'
  <2>1. Cardinality(Inside') <= Cardinality(Inside)
    BY <1>1, InsideFinite, FS_Subset
  <2> QED
    BY <2>1, <1>0
<1>2. ASSUME NEW i \in Items, Acquire(i) PROVE Bounded'
  <2>1. CASE task' = [task EXCEPT ![i] = "failed"]
    <3>1. Inside' \subseteq Inside
      BY <2>1 DEF Inside
    <3> QED
      BY <3>1, <1>1
  <2>2. CASE task' = [task EXCEPT ![i] = "request"]
    <3>1. Inside' = Inside \cup {i} /\ i \notin Inside
      BY <1>2, <2>2 DEF Acquire, Inside
    <3>2. Cardinality(Inside') = Cardinality(Inside) + 1
      BY <3>1, InsideFinite, FS_AddElement
    <3>3. Cardinality(Inside) < MaxConcurrency
      BY <1>2 DEF Acquire
    <3> QED
      BY <3>2, <3>3, <1>0
  <2> QED
    BY <1>2, <2>1, <2>2 DEF Acquire
<1>3. ASSUME NEW i \in Items, Answer(i) \/ Transient(i) \/ Resend(i) \/ Refuse(i)
      PROVE Inside' \subseteq Inside
  BY <1>3 DEF Answer, Transient, Resend, Refuse, Inside
<1>4. CASE Return \/ CloseBegin \/ CloseEnd \/ UNCHANGED vars
  BY <1>4, <1>1 DEF Return, CloseBegin, CloseEnd, vars, Inside
<1>5. CASE Shutdown
  <2>1. Inside' \subseteq Inside
    BY <1>5 DEF Shutdown, Inside, Final
  <2> QED
    BY <2>1, <1>1
<1> QED
  BY <1>1, <1>2, <1>3, <1>4, <1>5 DEF Next, Request

(* No more than MaxConcurrency coroutines are ever inside the semaphore,   *)
(* those that wait for a retry and those that a failure orphaned included. *)
THEOREM FanoutBounded == Spec => []Bounded
<1>1. Init => Bounded
  <2> SUFFICES ASSUME Init PROVE Bounded
    OBVIOUS
  <2>1. Inside = {}
    BY DEF Init, Inside, InFlight
  <2> QED
    BY <2>1, FS_EmptySet, FanoutAssumption DEF Bounded
<1> QED
  BY <1>1, BoundedStep, FInvAlways, PTL DEF Spec
=============================================================================
