---------------------------- MODULE WatchProofs ----------------------------
(***************************************************************************)
(* Proofs about Watch: type correctness at any degree of parallelism, and, *)
(* for pipelines that run one at a time, that the shared state file        *)
(* implements the ledger and agrees with the index.                        *)
(***************************************************************************)
EXTENDS Watch, FiniteSetTheorems, TLAPS

-----------------------------------------------------------------------------
(* Type correctness.                                                       *)

\* record_run keeps a history within its bound.
LEMMA NewestType ==
  ASSUME NEW ok \in BOOLEAN, NEW h \in Histories PROVE Newest(ok, h) \in Histories
<1> USE WatchAssumption DEF Histories
<1>1. CASE Len(h) < Keep
  BY <1>1 DEF Newest
<1>2. CASE ~(Len(h) < Keep)
  <2>1. SubSeq(h, 1, Keep - 1) \in Seq(BOOLEAN) /\ Len(SubSeq(h, 1, Keep - 1)) = Keep - 1
    BY <1>2
  <2> QED
    BY <1>2, <2>1 DEF Newest
<1> QED
  BY <1>1, <1>2

\* An empty state is a state.
LEMMA EmptyType == Empty \in Loaded
<1>1. <<>> \in Histories
  BY WatchAssumption DEF Histories
<1> QED
  BY <1>1 DEF Empty, Loaded

\* Changing one entry or one history of a state gives a state.
LEMMA LoadedType ==
  ASSUME NEW f \in Loaded, NEW p \in Pipelines
  PROVE  /\ \A v \in Versions \cup {None} : [f EXCEPT !.sources[p] = v] \in Loaded
         /\ \A ok \in BOOLEAN : [f EXCEPT !.runs[p] = Newest(ok, @)] \in Loaded
<1>1. \A ok \in BOOLEAN : Newest(ok, f.runs[p]) \in Histories
  BY NewestType DEF Loaded
<1> QED
  BY <1>1 DEF Loaded

\* The initial state has the right types.
LEMMA InitType == Init => TypeOK
  BY EmptyType DEF Init, TypeOK, Working

\* A step keeps the types.
LEMMA NextType == TypeOK /\ [Next]_vars => TypeOK'
<1> USE WatchAssumption DEF TypeOK, Working, taskVars
<1> SUFFICES ASSUME TypeOK, [Next]_vars PROVE TypeOK'
  OBVIOUS
<1>1. CASE Tick
  BY <1>1 DEF Tick, StartTick, EndTick
<1>2. ASSUME NEW p \in Pipelines, Acquire(p) PROVE TypeOK'
  BY <1>2 DEF Acquire
<1>3. ASSUME NEW p \in Pipelines, Read(p) PROVE TypeOK'
  BY <1>3 DEF Read
<1>4. ASSUME NEW p \in Pipelines, Publish(p) PROVE TypeOK'
  BY <1>4 DEF Publish
<1>5. ASSUME NEW p \in Pipelines, CommitSave(p) PROVE TypeOK'
  <2>1. store' = [store EXCEPT ![p] = [store[p] EXCEPT !.sources[p] = seen[p]]]
    BY <1>5 DEF CommitSave
  <2>2. [store[p] EXCEPT !.sources[p] = seen[p]] \in Loaded
    BY LoadedType
  <2>3. store' \in [Pipelines -> Loaded] /\ file' \in Loaded
    BY <1>5, <2>1, <2>2 DEF CommitSave
  <2> QED
    BY <1>5, <2>3 DEF CommitSave
<1>6. ASSUME NEW p \in Pipelines, NEW e \in Errors, Raise(p, e) PROVE TypeOK'
  <2>1. [store[p] EXCEPT !.sources[p] = seen[p]] \in Loaded
    BY LoadedType
  <2>2. store' \in [Pipelines -> Loaded]
    BY <1>6, <2>1 DEF Raise
  <2> QED
    BY <1>6, <2>2 DEF Raise
<1>7. ASSUME NEW p \in Pipelines, Record(p) PROVE TypeOK'
  <2>1. (err[p] = None) \in BOOLEAN
    OBVIOUS
  <2>2. [store[p] EXCEPT !.runs[p] = Newest(err[p] = None, @)] \in Loaded
    BY <2>1, LoadedType
  <2> QED
    BY <1>7, <2>2, EmptyType DEF Record, End
<1>8. ASSUME NEW p \in Pipelines, Cancel(p) PROVE TypeOK'
  BY <1>8, EmptyType DEF Cancel, End
<1>9. ASSUME NEW p \in Pipelines, Edit(p) PROVE TypeOK'
  BY <1>9 DEF Edit
<1>10. CASE Kill
  BY <1>10, EmptyType DEF Kill
<1>11. CASE Restart
  BY <1>11 DEF Restart
<1>12. CASE UNCHANGED vars
  BY <1>12 DEF vars
<1> QED
  BY <1>1, <1>2, <1>3, <1>4, <1>5, <1>6, <1>7, <1>8, <1>9, <1>10, <1>11, <1>12
     DEF Next, Advance, Fail

(* Any number of overlapping pipelines keeps the types; in particular no   *)
(* history outgrows its bound.                                             *)
THEOREM WatchTypeCorrect == Spec => []TypeOK
  BY InitType, NextType, PTL DEF Spec
-----------------------------------------------------------------------------
(* One pipeline at a time.                                                 *)

\* The instance the serial theorems are about: one slot, and a state file
\* that can be written.
Serial == Cap = 1 /\ Raises["commit"] = {}

\* The run under way knows the state file as it is, has not failed before it
\* closes, has read something by the time it publishes, and commits what its
\* points show.
RunKnows(p) ==
  /\ store[p] = file
  /\ pc[p] \in Working => err[p] = None
  /\ pc[p] \in {"index", "commit"} => seen[p] \in Versions
  /\ pc[p] = "commit" /\ ~Skips(p) => index[p] = seen[p]
  /\ pc[p] = "closing" /\ err[p] = None => seen[p] \in Versions

SInv ==
  /\ TypeOK
  /\ \A p, q \in Running : p = q
  /\ \A p \in Running : RunKnows(p)
  /\ \A p \in Pipelines : pc[p] \in {"waiting", "done"} => err[p] = None
  /\ driver = "sleeping" => \A p \in Pipelines : pc[p] = "done"
  /\ StateMatchesIndex

\* There is nothing to know before the first tick.
LEMMA InitSInv == Init => SInv
  BY InitType DEF Init, SInv, Running, Working, StateMatchesIndex, Empty

\* A task that gets the only slot is alone.
LEMMA AloneInside ==
  ASSUME Serial, TypeOK, Cardinality(Running) < Cap PROVE Running = {}
<1>1. IsFiniteSet(Pipelines)
  BY FS_Interval, WatchAssumption DEF Pipelines
<1>2. IsFiniteSet(Running)
  BY <1>1, FS_Subset DEF Running
<1>3. Cardinality(Running) \in Nat
  BY <1>2, FS_CardinalityType
<1>4. Cardinality(Running) = 0
  BY <1>3 DEF Serial
<1> QED
  BY <1>2, <1>4, FS_EmptySet

\* Each step keeps the invariant of the serial case.
LEMMA NextSInv == ASSUME Serial, SInv, [Next]_vars PROVE SInv'
<1> USE WatchAssumption DEF TypeOK, Working, taskVars, Running
<1> TypeOK
  BY DEF SInv
<1>0. TypeOK'
  BY NextType
<1>1. CASE Tick
  BY <1>0, <1>1 DEF Tick, StartTick, EndTick, SInv, RunKnows, Skips, StateMatchesIndex
<1>2. ASSUME NEW p \in Pipelines, Acquire(p) PROVE SInv'
  <2>1. Running = {}
    BY <1>2, AloneInside DEF Acquire, SInv
  <2> QED
    BY <1>0, <1>2, <2>1 DEF Acquire, SInv, RunKnows, Skips, StateMatchesIndex
<1>3. ASSUME NEW p \in Pipelines, Read(p) PROVE SInv'
  BY <1>0, <1>3 DEF Read, SInv, RunKnows, Skips, StateMatchesIndex
<1>4. ASSUME NEW p \in Pipelines, Publish(p) PROVE SInv'
  BY <1>0, <1>4 DEF Publish, SInv, RunKnows, Skips, StateMatchesIndex
<1>5. ASSUME NEW p \in Pipelines, CommitSave(p) PROVE SInv'
  <2>1. p \in Running /\ RunKnows(p) /\ \A q \in Running : q = p
    BY <1>5 DEF CommitSave, SInv
  <2>2. /\ file'.sources = [file.sources EXCEPT ![p] = seen[p]]
        /\ store'[p] = file'
    <3>1. store' = [store EXCEPT ![p] = [file EXCEPT !.sources[p] = seen[p]]]
      BY <1>5, <2>1 DEF CommitSave, RunKnows
    <3>2. file' = [file EXCEPT !.sources[p] = seen[p]]
      BY <1>5, <3>1 DEF CommitSave
    <3> QED
      BY <3>1, <3>2 DEF Loaded
  <2>3. err[p] = None /\ seen[p] \in Versions /\ (~Skips(p) => index[p] = seen[p])
    BY <1>5, <2>1 DEF CommitSave, RunKnows
  <2>4. StateMatchesIndex'
    <3>1. CASE Skips(p)
      <4>1. file'.sources = file.sources
        BY <2>1, <2>2, <3>1 DEF Skips, RunKnows, Loaded
      <4> QED
        BY <1>5, <3>1, <4>1 DEF CommitSave, SInv, StateMatchesIndex
    <3>2. CASE ~Skips(p)
      BY <1>5, <2>2, <2>3, <3>2 DEF CommitSave, SInv, StateMatchesIndex, Loaded
    <3> QED
      BY <3>1, <3>2
  <2>5. Running' = Running /\ RunKnows(p)'
    BY <1>5, <2>2, <2>3 DEF CommitSave, RunKnows
  <2> QED
    BY <1>0, <1>5, <2>1, <2>4, <2>5 DEF CommitSave, SInv
<1>6. ASSUME NEW p \in Pipelines, NEW e \in Errors, Raise(p, e) PROVE SInv'
  BY <1>0, <1>6 DEF Raise, SInv, RunKnows, Skips, StateMatchesIndex, Serial, Errors
<1>7. ASSUME NEW p \in Pipelines, Record(p) PROVE SInv'
  <2>1. p \in Running /\ RunKnows(p) /\ \A q \in Running : q = p
    BY <1>7 DEF Record, SInv
  <2>2. file'.sources = file.sources
    BY <1>7, <2>1 DEF Record, RunKnows, Loaded
  <2>3. StateMatchesIndex'
    BY <1>7, <2>2 DEF Record, SInv, StateMatchesIndex
  <2>4. Running' = {}
    BY <1>7, <2>1 DEF Record, End
  <2>5. \A q \in Pipelines : pc'[q] \in {"waiting", "done"} => err'[q] = None
    BY <1>7 DEF Record, End, SInv
  <2>6. driver' # "sleeping"
    BY <1>7 DEF Record, SInv
  <2> QED
    BY <1>0, <2>3, <2>4, <2>5, <2>6 DEF SInv
<1>8. ASSUME NEW p \in Pipelines, Cancel(p) PROVE SInv'
  BY <1>0, <1>8 DEF Cancel, End, SInv, RunKnows, Skips, StateMatchesIndex
<1>9. ASSUME NEW p \in Pipelines, Edit(p) PROVE SInv'
  BY <1>0, <1>9 DEF Edit, SInv, RunKnows, Skips, StateMatchesIndex
<1>10. CASE Kill
  BY <1>0, <1>10 DEF Kill, SInv, RunKnows, Skips, StateMatchesIndex
<1>11. CASE Restart
  BY <1>0, <1>11 DEF Restart, SInv, RunKnows, Skips, StateMatchesIndex
<1>12. CASE UNCHANGED vars
  BY <1>0, <1>12 DEF vars, SInv, RunKnows, Skips, StateMatchesIndex
<1> QED
  BY <1>1, <1>2, <1>3, <1>4, <1>5, <1>6, <1>7, <1>8, <1>9, <1>10, <1>11, <1>12
     DEF Next, Advance, Fail

\* SInv is an invariant of the serial case.
LEMMA SerialInductive == ASSUME Serial PROVE Spec => []SInv
<1>1. SInv /\ [Next]_vars => SInv'
  BY NextSInv
<1> QED
  BY InitSInv, <1>1, PTL DEF Spec

(* With one slot, the state file never claims points that are not there,   *)
(* whatever fails, is killed, or is edited in the middle of a run.         *)
THEOREM SerialStateMatchesIndex == ASSUME Serial PROVE Spec => []StateMatchesIndex
<1>1. SInv => StateMatchesIndex
  BY DEF SInv
<1> QED
  BY SerialInductive, <1>1, PTL

-----------------------------------------------------------------------------
(* The shared file implements the ledger.                                  *)

\* Pipelines that have committed and are not recorded yet.
Open == {p \in Pipelines : pc[p] = "closing" /\ err[p] = None}

\* A step of Watch that leaves the file and the open runs alone is invisible.
LEMMA Invisible ==
  ASSUME UNCHANGED file, Open' = Open PROVE UNCHANGED L!ledgerVars
  BY DEF L!ledgerVars, Open

\* Each step of the serial case is a step of the ledger.
LEMMA LedgerStep == ASSUME Serial, SInv, [Next]_vars PROVE [L!Next]_L!ledgerVars
<1> USE WatchAssumption DEF TypeOK, Working, taskVars, Running
<1> TypeOK
  BY DEF SInv
<1>1. CASE Tick
  <2>1. UNCHANGED file /\ Open' = Open
    BY <1>1 DEF Tick, StartTick, EndTick, SInv, Open
  <2> QED
    BY <2>1, Invisible
<1>2. ASSUME NEW p \in Pipelines, Acquire(p) \/ Read(p) \/ Publish(p)
      PROVE  [L!Next]_L!ledgerVars
  <2>1. UNCHANGED file /\ Open' = Open
    BY <1>2 DEF Acquire, Read, Publish, Open
  <2> QED
    BY <2>1, Invisible
<1>3. ASSUME NEW p \in Pipelines, CommitSave(p) PROVE [L!Next]_L!ledgerVars
  <2>1. /\ RunKnows(p) /\ err[p] = None /\ seen[p] \in Versions
        /\ p \notin Open /\ Open' = Open \cup {p}
    BY <1>3 DEF CommitSave, SInv, RunKnows, Open
  <2>2. file' = [file EXCEPT !.sources[p] = seen[p]]
    BY <1>3, <2>1 DEF CommitSave, RunKnows
  <2>3. file'.sources = [file.sources EXCEPT ![p] = seen[p]] /\ file'.runs = file.runs
    BY <2>2 DEF Loaded
  <2>4. L!Commit(p)
    BY <2>1, <2>3 DEF L!Commit, Open
  <2> QED
    BY <2>4 DEF L!Next
<1>4. ASSUME NEW p \in Pipelines, NEW e \in Errors, Raise(p, e)
      PROVE  [L!Next]_L!ledgerVars
  <2>1. UNCHANGED file /\ Open' = Open
    BY <1>4 DEF Raise, Open
  <2> QED
    BY <2>1, Invisible
<1>5. ASSUME NEW p \in Pipelines, Record(p) PROVE [L!Next]_L!ledgerVars
  <2>1. RunKnows(p)
    BY <1>5 DEF Record, SInv
  <2>2. file' = [file EXCEPT !.runs[p] = Newest(err[p] = None, @)]
    BY <1>5, <2>1 DEF Record, RunKnows
  <2>3. /\ file'.sources = file.sources
        /\ file'.runs = [file.runs EXCEPT ![p] = Newest(err[p] = None, file.runs[p])]
    BY <2>2 DEF Loaded
  <2>4. Open' = Open \ {p}
    BY <1>5 DEF Record, End, Open
  <2>5. CASE err[p] = None
    <3>1. p \in Open
      BY <1>5, <2>5 DEF Record, Open
    <3>2. Newest(err[p] = None, file.runs[p]) = L!Newest(TRUE, file.runs[p])
      BY <2>5 DEF Newest, L!Newest
    <3>3. L!RecordSuccess(p)
      BY <2>3, <2>4, <3>1, <3>2 DEF L!RecordSuccess, Open
    <3> QED
      BY <3>3 DEF L!Next
  <2>6. CASE err[p] # None
    <3>1. p \notin Open /\ Open' = Open
      BY <2>4, <2>6 DEF Open
    <3>2. (err[p] = None) = FALSE
      BY <2>6
    <3>3. Newest(err[p] = None, file.runs[p]) = L!Newest(FALSE, file.runs[p])
      BY <3>2 DEF Newest, L!Newest
    <3>4. L!RecordFailure(p)
      BY <2>3, <3>1, <3>3 DEF L!RecordFailure, Open
    <3> QED
      BY <3>4 DEF L!Next
  <2> QED
    BY <2>5, <2>6
<1>6. ASSUME NEW p \in Pipelines, Cancel(p) PROVE [L!Next]_L!ledgerVars
  <2>1. UNCHANGED file /\ Open' = Open \ {p}
    BY <1>6 DEF Cancel, End, Open
  <2>2. Open' = Open \ (Open \cap {p})
    BY <2>1
  <2>3. L!Killed
    BY <2>1, <2>2 DEF L!Killed, Open
  <2> QED
    BY <2>3 DEF L!Next
<1>7. ASSUME NEW p \in Pipelines, Edit(p) PROVE [L!Next]_L!ledgerVars
  <2>1. UNCHANGED file /\ Open' = Open
    BY <1>7 DEF Edit, Open
  <2> QED
    BY <2>1, Invisible
<1>8. CASE Kill
  <2>1. UNCHANGED file /\ Open' = Open \ Open
    BY <1>8 DEF Kill, Open
  <2>2. L!Killed
    BY <2>1 DEF L!Killed, Open
  <2> QED
    BY <2>2 DEF L!Next
<1>9. CASE Restart \/ UNCHANGED vars
  <2>1. UNCHANGED file /\ Open' = Open
    BY <1>9 DEF Restart, vars, Open
  <2> QED
    BY <2>1, Invisible
<1> QED
  BY <1>1, <1>2, <1>3, <1>4, <1>5, <1>6, <1>7, <1>8, <1>9 DEF Next, Advance, Fail

(* With one slot, the file the pipelines share is a ledger each source     *)
(* could have alone: only a successful run replaces an entry, and only its *)
(* own, failures leave every entry intact, and nobody's history is lost.   *)
THEOREM SerialLedger == ASSUME Serial PROVE Spec => Implements
<1>1. Init => L!Init
  BY DEF Init, L!Init, Empty
<1>2. SInv /\ [Next]_vars => [L!Next]_L!ledgerVars
  BY LedgerStep
<1> QED
  BY SerialInductive, <1>1, <1>2, PTL DEF Spec, Implements, L!Spec
=============================================================================
