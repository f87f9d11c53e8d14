---------------------------- MODULE SourcePoints ----------------------------
(***************************************************************************)
(* What an index promises a pipeline (the Indexer protocol of              *)
(* src/alvis/index/base.py), as if every source had an index of its own:   *)
(* a run's upserts and its reconcile touch the points of its own source    *)
(* only, reconcile removes only points of documents that are not current,  *)
(* and after it the source's points are exactly those the run wanted.      *)
(* Where the index shows a run an older state of a point, that point is    *)
(* blurred, and nothing is promised of it until the next run.              *)
(***************************************************************************)
CONSTANTS
  Sources,
  Goals    \* the sets of points a run may want

VARIABLES
  own,      \* the points of each source
  wanted,   \* the points its last run is to end up with
  blurred,  \* points that run was shown an older state of
  phase     \* "running", "done" or "failed"

Init ==
  /\ own = [s \in Sources |-> {}]
  /\ wanted = [s \in Sources |-> {}]
  /\ blurred = [s \in Sources |-> {}]
  /\ phase = [s \in Sources |-> "done"]

(* A run begins, with the points of the documents it has read.             *)
Begin(s) ==
  /\ phase[s] # "running"
  /\ phase' = [phase EXCEPT ![s] = "running"]
  /\ \E W \in Goals : wanted' = [wanted EXCEPT ![s] = W]
  /\ blurred' = [blurred EXCEPT ![s] = {}]
  /\ UNCHANGED own

(* The run adds points it wants and removes points it does not want, or    *)
(* that are blurred, of its own source.                                    *)
Work(s) ==
  /\ \E add \in SUBSET (wanted[s] \ own[s]),
        drop \in SUBSET (own[s] \ (wanted[s] \ blurred[s])) :
       own' = [own EXCEPT ![s] = (@ \cup add) \ drop]
  /\ blurred' = [blurred EXCEPT ![s] = @ \cup blurred'[s]]
  /\ UNCHANGED wanted

(* It fails, or it ends, with all as it wanted.                            *)
End(s) ==
  \/ phase' = [phase EXCEPT ![s] = "failed"]
  \/ /\ own'[s] \ blurred'[s] = wanted[s] \ blurred'[s]
     /\ phase' = [phase EXCEPT ![s] = "done"]

Next ==
  \E s \in Sources :
    \/ Begin(s)
    \/ phase[s] = "running" /\ Work(s) /\ (UNCHANGED phase \/ End(s))

Spec == Init /\ [][Next]_<<own, wanted, blurred, phase>>
=============================================================================
