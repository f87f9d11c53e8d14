------------------------------- MODULE Watch -------------------------------
(***************************************************************************)
(* Several pipelines run again and again by `alvis run --watch`            *)
(* (src/alvis/cli/_run.py) or watch_async (src/alvis/pipeline/runner.py),  *)
(* at most Cap at a time, all of them keeping their incremental state in   *)
(* one state file (src/alvis/docstore.py).                                 *)
(*                                                                         *)
(* The stages inside a run are those of module Ingest; here a run reads    *)
(* the whole source at once, and one value of Versions stands for what a   *)
(* source holds, for the entries committed for it and for its points.      *)
(* Every interleaving point is an await of the engine: the tasks share one *)
(* event loop, and what happens between two awaits is one action.          *)
(***************************************************************************)
EXTENDS Naturals, Sequences, FiniteSets

CONSTANTS
  N,          \* pipelines, in the order of the command line
  Cap,        \* --parallel, max_parallel
  Versions,   \* states of a source's documents
  Keep,       \* _RUN_HISTORY
  Raises,     \* [stage -> error classes that may escape from it]
  Caught,     \* error classes the scheduler turns into a failed result
  None        \* absence of a value

Pipelines == 1..N
Working == {"fetch", "index", "commit"}
Errors == UNION {Raises[s] : s \in Working}

ASSUME WatchAssumption ==
  /\ N \in Nat \ {0}
  /\ Cap \in Nat \ {0}
  /\ Keep \in Nat \ {0}
  /\ DOMAIN Raises = Working
  /\ None \notin Versions \cup Errors

VARIABLES
  src,      \* what each source holds
  index,    \* what the index shows of it; None when torn or empty
  file,     \* .alvis/state.json: an entry and a history per source
  store,    \* the DocStore of each run: the file as it was when it started
  pc,       \* where each pipeline's task is
  seen,     \* what its run has read from the source
  err,      \* the exception its run is going to end with
  driver,   \* the scheduler: "ticking", "sleeping", "raised", "killed"
  dirty     \* history: pipelines whose points changed since their last commit

taskVars == <<store, pc, seen, err>>
vars == <<src, index, file, taskVars, driver, dirty>>

Histories == {h \in Seq(BOOLEAN) : Len(h) <= Keep}
Loaded == [sources : [Pipelines -> Versions \cup {None}],
           runs : [Pipelines -> Histories]]

TypeOK ==
  /\ src \in [Pipelines -> Versions]
  /\ index \in [Pipelines -> Versions \cup {None}]
  /\ file \in Loaded
  /\ store \in [Pipelines -> Loaded]
  /\ pc \in [Pipelines -> Working \cup {"waiting", "closing", "done"}]
  /\ seen \in [Pipelines -> Versions \cup {None}]
  /\ err \in [Pipelines -> Errors \cup {None}]
  /\ driver \in {"ticking", "sleeping", "raised", "killed"}
  /\ dirty \subseteq Pipelines

\* Mutant of Running: a finished task does not give its slot back.
Started == {p \in Pipelines : pc[p] # "waiting"}

\* Tasks inside the semaphore.
Running == {p \in Pipelines : pc[p] \in Working \cup {"closing"}}

\* Mutant of Skips: any stored entry will do.
HasEntry(p) == store[p].sources[p] # None

\* The entry stored for the source matches what the run has read.
Skips(p) == store[p].sources[p] = seen[p]

\* Mutant of Newest: one record too many is kept.
NewestAndOneMore(ok, h) == <<ok>> \o (IF Len(h) <= Keep THEN h ELSE SubSeq(h, 1, Keep))

\* record_run: the newest record first, at most Keep of them.
Newest(ok, h) == <<ok>> \o (IF Len(h) < Keep THEN h ELSE SubSeq(h, 1, Keep - 1))

-----------------------------------------------------------------------------
Empty == [sources |-> [p \in Pipelines |-> None], runs |-> [p \in Pipelines |-> <<>>]]

\* The task of one pipeline is over.
End(p) ==
  /\ store' = [store EXCEPT ![p] = Empty]
  /\ pc' = [pc EXCEPT ![p] = "done"]
  /\ seen' = [seen EXCEPT ![p] = None]
  /\ err' = [err EXCEPT ![p] = None]

Init ==
  /\ src \in [Pipelines -> Versions]
  /\ index = [p \in Pipelines |-> None]
  /\ file = Empty
  /\ store = [p \in Pipelines |-> Empty]
  /\ pc = [p \in Pipelines |-> "done"]
  /\ seen = [p \in Pipelines |-> None]
  /\ err = [p \in Pipelines |-> None]
  /\ driver = "sleeping"
  /\ dirty = {}

(* The interval is over: gather starts a task for every engine.            *)
StartTick ==
  /\ driver = "sleeping"
  /\ driver' = "ticking"
  /\ pc' = [p \in Pipelines |-> "waiting"]
  /\ UNCHANGED <<src, index, file, store, seen, err, dirty>>

\* Mutant of Acquire: the semaphore is not asked.
AcquireUnbounded(p) ==
  /\ pc[p] = "waiting"
  /\ \A q \in Pipelines : pc[q] = "waiting" => p <= q
  /\ pc' = [pc EXCEPT ![p] = "fetch"]
  /\ store' = [store EXCEPT ![p] = file]
  /\ UNCHANGED <<src, index, file, seen, err, driver, dirty>>

(* A task gets the semaphore, first come first served, and loads the whole *)
(* state file; nothing is awaited in between.                              *)
Acquire(p) ==
  /\ pc[p] = "waiting"
  /\ \A q \in Pipelines : pc[q] = "waiting" => p <= q
  /\ Cardinality(Running) < Cap
  /\ pc' = [pc EXCEPT ![p] = "fetch"]
  /\ store' = [store EXCEPT ![p] = file]
  /\ UNCHANGED <<src, index, file, seen, err, driver, dirty>>

(* Listing and fetching.                                                   *)
Read(p) ==
  /\ pc[p] = "fetch"
  /\ pc' = [pc EXCEPT ![p] = "index"]
  /\ seen' = [seen EXCEPT ![p] = src[p]]
  /\ UNCHANGED <<src, index, file, store, err, driver, dirty>>

(* Upsert and reconcile.  Documents believed unchanged are not written,    *)
(* but points that do not carry their hash are pruned all the same.        *)
Publish(p) ==
  /\ pc[p] = "index"
  /\ pc' = [pc EXCEPT ![p] = "commit"]
  /\ index' = [index EXCEPT ![p] = IF Skips(p) /\ @ # seen[p] THEN None ELSE seen[p]]
  /\ dirty' = IF Skips(p) THEN dirty ELSE dirty \cup {p}
  /\ UNCHANGED <<src, file, store, seen, err, driver>>

(* CommitStage: the run's entry goes into its own copy of the state, and   *)
(* the copy is written over the file.                                      *)
CommitSave(p) ==
  /\ pc[p] = "commit"
  /\ pc' = [pc EXCEPT ![p] = "closing"]
  /\ store' = [store EXCEPT ![p].sources[p] = seen[p]]
  /\ file' = store'[p]
  /\ dirty' = IF Skips(p) THEN dirty ELSE dirty \ {p}
  /\ UNCHANGED <<src, index, seen, err, driver>>

(* A stage raises.  The adapters are closed next, which awaits.  A failure *)
(* of the index may leave its points half written; when the state file     *)
(* cannot be written, the run's own copy has the new entry already.        *)
Raise(p, e) ==
  /\ pc[p] \in Working
  /\ e \in Raises[pc[p]]
  /\ pc' = [pc EXCEPT ![p] = "closing"]
  /\ err' = [err EXCEPT ![p] = e]
  /\ IF pc[p] = "index"
     THEN /\ index' \in {index, [index EXCEPT ![p] = None]}
          /\ dirty' = dirty \cup {p}
     ELSE UNCHANGED <<index, dirty>>
  /\ store' = IF pc[p] = "commit" THEN [store EXCEPT ![p].sources[p] = seen[p]] ELSE store
  /\ UNCHANGED <<src, file, seen, driver>>

(* The end of PipelineEngine.run: record_run puts the outcome in the run's *)
(* copy of the state and writes the copy over the file, for a failure too. *)
(* An error the scheduler does not catch leaves gather and ends the loop.  *)
Record(p) ==
  /\ pc[p] = "closing"
  /\ file' = [store[p] EXCEPT !.runs[p] = Newest(err[p] = None, @)]
  /\ driver' = IF err[p] \in Caught \cup {None} THEN driver ELSE "raised"
  /\ End(p)
  /\ UNCHANGED <<src, index, dirty>>

(* gather has every result: they are reported, and the loop sleeps.        *)
EndTick ==
  /\ driver = "ticking"
  /\ \A p \in Pipelines : pc[p] = "done"
  /\ driver' = "sleeping"
  /\ UNCHANGED <<src, index, file, taskVars, dirty>>

(* Once an exception has ended the loop, asyncio.run cancels the tasks     *)
(* that are left; under watch_async they first go on for as long as the    *)
(* caller's event loop does.  A cancelled run records nothing.             *)
Cancel(p) ==
  /\ driver = "raised"
  /\ pc[p] # "done"
  /\ End(p)
  /\ dirty' = IF pc[p] = "index" THEN dirty \cup {p} ELSE dirty
  /\ index' \in IF pc[p] = "index" THEN {index, [index EXCEPT ![p] = None]} ELSE {index}
  /\ UNCHANGED <<src, file, driver>>

(* The process is killed at any point.                                     *)
Kill ==
  /\ driver \in {"ticking", "sleeping"}
  /\ driver' = "killed"
  /\ store' = [p \in Pipelines |-> Empty]
  /\ pc' = [p \in Pipelines |-> "done"]
  /\ seen' = [p \in Pipelines |-> None]
  /\ err' = [p \in Pipelines |-> None]
  /\ dirty' = dirty \cup {p \in Pipelines : pc[p] = "index"}
  /\ index' \in [Pipelines -> Versions \cup {None}]
  /\ \A p \in Pipelines : index'[p] # index[p] => pc[p] = "index" /\ index'[p] = None
  /\ UNCHANGED <<src, file>>

(* A supervisor starts the command again; tasks of the old process are gone. *)
Restart ==
  /\ driver \in {"raised", "killed"}
  /\ \A p \in Pipelines : pc[p] = "done"
  /\ driver' = "sleeping"
  /\ UNCHANGED <<src, index, file, taskVars, dirty>>

(* Somebody edits a source.                                                *)
Edit(p) ==
  /\ \E v \in Versions : v # src[p] /\ src' = [src EXCEPT ![p] = v]
  /\ UNCHANGED <<index, file, taskVars, driver, dirty>>

Advance(p) == Acquire(p) \/ Read(p) \/ Publish(p) \/ CommitSave(p) \/ Record(p)

Fail(p) == \E e \in Errors : Raise(p, e)

Tick == StartTick \/ EndTick

Next ==
  \/ Tick
  \/ \E p \in Pipelines : Advance(p) \/ Fail(p) \/ Cancel(p) \/ Edit(p)
  \/ Kill
  \/ Restart

Spec == Init /\ [][Next]_vars

-----------------------------------------------------------------------------
(* Safety.                                                                 *)

(* What lets the next run skip: whenever a pipeline's points have not been *)
(* changed since its last commit, the state file says of them what they    *)
(* are.  It needs the state to be loaded under the semaphore, and one      *)
(* pipeline at a time on a state file.                                     *)
StateMatchesIndex ==
  \A p \in Pipelines \ dirty :
    file.sources[p] # None => index[p] = file.sources[p]

(* The shared file implements the ledger each source would have alone.     *)
L == INSTANCE Ledger WITH
       committed <- file.sources,
       history <- file.runs,
       open <- {p \in Pipelines : pc[p] = "closing" /\ err[p] = None}

Implements == L!Spec

(* Claims of the documentation that the code does not meet.                *)

(* docstore.py: "a failed run leaves the previous state intact".  The step *)
(* that records a failure changes no source's entry.                       *)
FailedRunLeavesState ==
  [][ \A p \in Pipelines :
        Record(p) /\ err[p] # None => file'.sources = file.sources ]_vars

(* README: "a failing pipeline is reported and does not stop the others";  *)
(* watch_async: "Failures are soft".  No failure of a run ends the loop.   *)
FailuresAreSoft == driver # "raised"

-----------------------------------------------------------------------------
(* Liveness.                                                               *)

(* The event loop runs every task that can go on: whatever a run awaits    *)
(* ends, with a value or with an error, and sleeps are over some day.      *)
Fairness ==
  /\ WF_vars(Tick)
  /\ \A p \in Pipelines : WF_vars(Advance(p))

FairSpec == Spec /\ Fairness

(* No pipeline starves: it keeps being run and recorded for as long as no  *)
(* uncaught error and no signal ends the scheduler.                        *)
EveryPipelineRuns ==
  \A p \in Pipelines :
    []<>(pc[p] = "done" /\ driver = "ticking") \/ []<>(driver \in {"raised", "killed"})

(* "Steady state is a near-free tick; only what changed gets extracted":   *)
(* once sources rest and runs stop failing, the state file describes every *)
(* source as it is, for good, so that later ticks skip all of it.  It      *)
(* holds when the pipelines run one at a time.                             *)
Settles ==
  /\ <>[][\A p \in Pipelines : ~Fail(p) /\ ~Edit(p)]_vars
  /\ <>[](driver \in {"ticking", "sleeping"})
  => \A p \in Pipelines : <>[](file.sources[p] = src[p])
=============================================================================
