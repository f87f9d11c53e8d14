------------------------------- MODULE Ledger -------------------------------
(***************************************************************************)
(* What the state file promises to the pipelines that share it             *)
(* (src/alvis/docstore.py): each source has its own entry and its own      *)
(* history of runs; a run that succeeds replaces its source's entry and is *)
(* then recorded as a success, a run that fails is recorded as a failure   *)
(* and "leaves the previous state intact"; nobody touches what belongs to  *)
(* another source.                                                         *)
(***************************************************************************)
EXTENDS Naturals, Sequences

CONSTANTS
  Pipelines,  \* one source identity each
  Versions,   \* states of a source's documents
  Keep,       \* _RUN_HISTORY
  None        \* absence of a value

VARIABLES
  committed,  \* [Pipelines -> Versions or None]: the entry of each source
  history,    \* [Pipelines -> Seq(BOOLEAN)]: outcomes, newest first
  open        \* pipelines that have committed and are not recorded yet

ledgerVars == <<committed, history, open>>

\* record_run: insert at the front, keep the newest Keep records.
Newest(ok, h) == <<ok>> \o (IF Len(h) < Keep THEN h ELSE SubSeq(h, 1, Keep - 1))

Init ==
  /\ committed = [p \in Pipelines |-> None]
  /\ history = [p \in Pipelines |-> <<>>]
  /\ open = {}

Commit(p) ==
  /\ p \notin open
  /\ \E v \in Versions : committed' = [committed EXCEPT ![p] = v]
  /\ open' = open \cup {p}
  /\ UNCHANGED history

RecordSuccess(p) ==
  /\ p \in open
  /\ history' = [history EXCEPT ![p] = Newest(TRUE, @)]
  /\ open' = open \ {p}
  /\ UNCHANGED committed

RecordFailure(p) ==
  /\ p \notin open
  /\ history' = [history EXCEPT ![p] = Newest(FALSE, @)]
  /\ UNCHANGED <<committed, open>>

\* Runs that are killed after their commit are never recorded.
Killed ==
  /\ \E P \in SUBSET open : open' = open \ P
  /\ UNCHANGED <<committed, history>>

Next ==
  \/ \E p \in Pipelines : Commit(p) \/ RecordSuccess(p) \/ RecordFailure(p)
  \/ Killed

Spec == Init /\ [][Next]_ledgerVars
=============================================================================
