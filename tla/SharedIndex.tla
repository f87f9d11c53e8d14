---------------------------- MODULE SharedIndex ----------------------------
(***************************************************************************)
(* Several pipelines that write to one collection of a remote index: the   *)
(* protocols of src/alvis/index/qdrant.py, elasticsearch.py and            *)
(* pgvector.py, request by request.                                        *)
(*                                                                         *)
(* A request is one action.  The code waits for Qdrant to carry out its    *)
(* upserts and not its deletions, and it never refreshes Elasticsearch,    *)
(* which searches what was stored at the latest refresh.  The points of    *)
(* all sources share one key space, since point_id (core/ids.py) hashes    *)
(* the uri and the text of a chunk and not the source.  Keys are numbered  *)
(* in the order in which the server pages through them.  A document body   *)
(* is its hash, and Chunks[h] are the keys with a text of that body; which *)
(* documents a run can skip is the matter of module Ingest: here it writes *)
(* all of them.                                                            *)
(***************************************************************************)
EXTENDS Naturals, FiniteSetsExt

CONSTANTS
  Sources,    \* source identities, as source_identity tells them apart
  Last,       \* number of keys
  Uris,
  Uri,        \* [Keys -> Uris]
  Hashes,     \* document bodies
  Chunks,     \* [Hashes -> SUBSET Keys]
  Reach,      \* [Sources -> SUBSET Uris]: documents a source delivers
  Backends,   \* of "qdrant", "elasticsearch", "pgvector"
  BatchSize,  \* _UPSERT_BATCH_SIZE
  PageSize,   \* _SCROLL_LIMIT, _SEARCH_PAGE_SIZE
  None        \* absence of a value

Keys == 1..Last
Point == [source : Sources, hash : Hashes]
Docs(s) == {d \in [Uris -> Hashes \cup {None}] : \A u \in Uris \ Reach[s] : d[u] = None}
NoDocs == [u \in Uris |-> None]

ASSUME SharedAssumption ==
  /\ Last \in Nat
  /\ Uri \in [Keys -> Uris]
  /\ Chunks \in [Hashes -> SUBSET Keys]
  /\ Reach \in [Sources -> SUBSET Uris]
  /\ Backends \subseteq {"qdrant", "elasticsearch", "pgvector"}
  /\ BatchSize \in Nat \ {0}
  /\ PageSize \in Nat \ {0}
  /\ None \notin Hashes \cup Point

VARIABLES
  backend,  \* the index type the pipelines are configured with
  exists,   \* the collection, index or table exists
  points,   \* what is stored under each key
  doomed,   \* keys whose deletion Qdrant has accepted and not yet carried out
  view,     \* what was stored at the latest refresh of Elasticsearch
  pc,       \* the request each run is about to make
  current,  \* ctx.current: the hash of every document of the run
  pending,  \* keys the run has still to write
  stale,    \* stale_ids
  cursor,   \* offset, search_after: the keys up to it have been paged
  misread   \* keys that a page of this run showed otherwise than they were

server == <<exists, points, doomed, view>>
runVars == <<current, pending, stale, cursor, misread>>
vars == <<backend, server, pc, runVars>>

Active == {"ensure", "create", "write", "prune", "delete"}

TypeOK ==
  /\ backend \in Backends
  /\ exists \in BOOLEAN
  /\ points \in [Keys -> Point \cup {None}]
  /\ doomed \in SUBSET Keys
  /\ view \in [Keys -> Point \cup {None}]
  /\ pc \in [Sources -> Active \cup {"done", "failed"}]
  /\ current \in [Sources -> [Uris -> Hashes \cup {None}]]
  /\ \A s \in Sources : current[s] \in Docs(s)
  /\ pending \in [Sources -> SUBSET Keys]
  /\ stale \in [Sources -> SUBSET Keys]
  /\ cursor \in [Sources -> 0..Last]
  /\ misread \in [Sources -> SUBSET Keys]

-----------------------------------------------------------------------------
(* The points a run wants: each chunk of each document, under its hash.    *)
Wanted(docs) == {k \in Keys : docs[Uri[k]] # None /\ k \in Chunks[docs[Uri[k]]]}

\* Only Elasticsearch lacks upsert_batch.
Batch == IF backend = "elasticsearch" THEN 1 ELSE BatchSize

\* What a search sees now.
Sight == IF backend = "elasticsearch" THEN view ELSE points

\* What is stored but for the deletions that are on their way.
Settled == [k \in Keys |-> IF k \in doomed THEN None ELSE points[k]]

Owned(s, p) == {k \in Keys : p[k] # None /\ p[k].source = s}

\* Mutant of Outdated: only documents that are gone are pruned.
Missing(s, p) == {k \in Owned(s, p) : current[s][Uri[k]] = None}

\* uri not in current or current[uri] != hash
Outdated(s, p) == {k \in Owned(s, p) : current[s][Uri[k]] # p[k].hash}

\* The points of this source behind the cursor, and the first page of them.
Rest(s, p) == {k \in Owned(s, p) : k > cursor[s]}
PageOf(s, p) == {k \in Rest(s, p) : Cardinality({j \in Rest(s, p) : j < k}) < PageSize}

\* Mutant of LastPage: a full page is taken for the last.
FullPageIsLast(s, p) == Cardinality(PageOf(s, p)) <= PageSize

\* Qdrant says whether there is more; Elasticsearch is asked until a page
\* is short.
LastPage(s, p) ==
  IF backend = "qdrant" THEN Rest(s, p) = PageOf(s, p)
  ELSE Cardinality(PageOf(s, p)) < PageSize

\* Mutant of Ahead: every page starts where the first one did.
FromStart(s, p) == 0

\* Where the next page starts: Qdrant names the first point of it,
\* Elasticsearch is told the last one seen.
Ahead(s, p) ==
  IF backend = "qdrant" THEN Min(Rest(s, p) \ PageOf(s, p)) - 1 ELSE Max(PageOf(s, p))

\* The keys a page is about: those up to where the next one starts, or the rest.
Paged(s, p) == {k \in Keys : k > cursor[s] /\ (LastPage(s, p) \/ k <= Ahead(s, p))}

\* ... of which it shows this source what is not there, or not what is there.
Misread(s, p) == {k \in Paged(s, p) \cap (Owned(s, p) \cup Owned(s, points)) : p[k] # points[k]}

\* Write the points of K.  What is asked of a point is done in the order asked.
Put(s, K) ==
  /\ points' = [k \in Keys |->
       IF k \in K THEN [source |-> s, hash |-> current[s][Uri[k]]] ELSE points[k]]
  /\ doomed' = doomed \ K

Without(K) == [k \in Keys |-> IF k \in K THEN None ELSE points[k]]

\* Delete the points of K.  Of the three only Qdrant answers before it is done.
Drop(K) ==
  IF backend = "qdrant" THEN doomed' = doomed \cup K /\ UNCHANGED points
  ELSE points' = Without(K) /\ UNCHANGED doomed

Goto(s, step) == pc' = [pc EXCEPT ![s] = step]
-----------------------------------------------------------------------------
Init ==
  /\ backend \in Backends
  /\ exists = FALSE
  /\ points = [k \in Keys |-> None]
  /\ doomed = {}
  /\ view = points
  /\ pc = [s \in Sources |-> "done"]
  /\ current = [s \in Sources |-> NoDocs]
  /\ pending = [s \in Sources |-> {}]
  /\ stale = [s \in Sources |-> {}]
  /\ cursor = [s \in Sources |-> 0]
  /\ misread = [s \in Sources |-> {}]

(* A run has read and embedded its documents.  UpsertStage is left out     *)
(* when there is nothing to write, ReconcileStage never is.                *)
Begin(s) ==
  /\ pc[s] \in {"done", "failed"}
  /\ \E docs \in Docs(s) :
       /\ current' = [current EXCEPT ![s] = docs]
       /\ pending' = [pending EXCEPT ![s] = Wanted(docs)]
       /\ Goto(s, IF Wanted(docs) = {} THEN "prune" ELSE "ensure")
  /\ stale' = [stale EXCEPT ![s] = {}]
  /\ cursor' = [cursor EXCEPT ![s] = 0]
  /\ misread' = [misread EXCEPT ![s] = {}]
  /\ UNCHANGED <<backend, server>>

(* _ensure_collection, _ensure_index: ask whether it is there.  The table  *)
(* of pgvector is created if it is not there, in one statement.            *)
Ensure(s) ==
  /\ pc[s] = "ensure"
  /\ exists' = (exists \/ backend = "pgvector")
  /\ Goto(s, IF exists' THEN "write" ELSE "create")
  /\ UNCHANGED <<backend, points, doomed, view, runVars>>

(* Create what was not there when the run asked.  Another run may have     *)
(* created it since, or the first attempt of this very request: Qdrant     *)
(* takes that for success, and for Elasticsearch the 400 is forgiven when  *)
(* the index exists.                                                       *)
Create(s) ==
  /\ pc[s] = "create"
  /\ exists' = TRUE
  /\ Goto(s, "write")
  /\ UNCHANGED <<backend, points, doomed, view, runVars>>

(* upsert_batch, upsert: the next points.                                  *)
Write(s) ==
  /\ pc[s] = "write"
  /\ \E K \in SUBSET pending[s] :
       /\ K # {} /\ Cardinality(K) <= Batch
       /\ Cardinality(K) = Batch \/ K = pending[s]
       /\ Put(s, K)
       /\ pending' = [pending EXCEPT ![s] = @ \ K]
       /\ Goto(s, IF K = pending[s] THEN "prune" ELSE "write")
  /\ UNCHANGED <<backend, exists, view, current, stale, cursor, misread>>

(* reconcile of Qdrant and Elasticsearch: read a page of the source's      *)
(* points and note those that are not current.                             *)
Scan(s) ==
  /\ pc[s] = "prune" /\ backend # "pgvector"
  /\ exists
  /\ stale' = [stale EXCEPT ![s] = @ \cup (PageOf(s, Sight) \cap Outdated(s, Sight))]
  /\ misread' = [misread EXCEPT ![s] = @ \cup Misread(s, Sight)]
  /\ IF LastPage(s, Sight)
     THEN /\ Goto(s, IF stale'[s] = {} THEN "done" ELSE "delete")
          /\ UNCHANGED cursor
     ELSE /\ cursor' = [cursor EXCEPT ![s] = Ahead(s, Sight)]
          /\ UNCHANGED pc
  /\ UNCHANGED <<backend, server, current, pending>>

(* There is nothing to reconcile yet: Elasticsearch is content with that,  *)
(* for the others the run fails.                                           *)
ScanNothing(s) ==
  /\ pc[s] = "prune"
  /\ ~exists
  /\ Goto(s, IF backend = "elasticsearch" THEN "done" ELSE "failed")
  /\ UNCHANGED <<backend, server, runVars>>

(* The noted points are deleted by their ids, in one request by Qdrant and *)
(* one by one by Elasticsearch.                                            *)
Delete(s) ==
  /\ pc[s] = "delete"
  /\ \E K \in SUBSET stale[s] :
       /\ IF backend = "qdrant" THEN K = stale[s] ELSE Cardinality(K) = 1
       /\ Drop(K)
       /\ stale' = [stale EXCEPT ![s] = @ \ K]
       /\ Goto(s, IF K = stale[s] THEN "done" ELSE "delete")
  /\ UNCHANGED <<backend, exists, view, current, pending, cursor, misread>>

(* reconcile of pgvector: one DELETE statement.                            *)
DeleteWhere(s) ==
  /\ pc[s] = "prune" /\ backend = "pgvector"
  /\ exists
  /\ Drop(Outdated(s, points))
  /\ Goto(s, "done")
  /\ UNCHANGED <<backend, exists, view, runVars>>

(* What a write request does to the server when its answer is lost on the  *)
(* way: a batch may be carried out in part.                                *)
Effect(s) ==
  \/ /\ pc[s] = (IF backend = "pgvector" THEN "ensure" ELSE "create")
     /\ exists' = TRUE
     /\ UNCHANGED <<points, doomed>>
  \/ /\ pc[s] = "write"
     /\ \E K \in SUBSET pending[s] : Cardinality(K) <= Batch /\ Put(s, K)
     /\ UNCHANGED exists
  \/ /\ pc[s] = "delete"
     /\ \E K \in SUBSET stale[s] :
          /\ backend = "elasticsearch" => Cardinality(K) <= 1
          /\ Drop(K)
     /\ UNCHANGED exists
  \/ /\ pc[s] = "prune" /\ backend = "pgvector" /\ exists
     /\ Drop(Outdated(s, points))
     /\ UNCHANGED exists

(* The answer is lost, and HttpClient sends the request again, or gives up *)
(* and the run fails, as a run on pgvector does at once.                   *)
Lost(s) ==
  /\ Effect(s)
  /\ \/ backend # "pgvector" /\ UNCHANGED pc
     \/ Goto(s, "failed")
  /\ UNCHANGED <<backend, view, runVars>>

(* Any request may be refused for good, and any process killed.            *)
Fail(s) ==
  /\ pc[s] \in Active
  /\ Goto(s, "failed")
  /\ UNCHANGED <<backend, server, runVars>>

(* Qdrant carries out deletions it has accepted.                           *)
Apply ==
  /\ \E K \in SUBSET doomed : K # {} /\ points' = Without(K) /\ doomed' = doomed \ K
  /\ UNCHANGED <<backend, exists, view, pc, runVars>>

(* Elasticsearch refreshes, in its own time.                               *)
Refresh ==
  /\ backend = "elasticsearch"
  /\ view' = points
  /\ UNCHANGED <<backend, exists, points, doomed, pc, runVars>>

Progress(s) ==
  \/ Ensure(s) \/ Create(s) \/ Write(s)
  \/ Scan(s) \/ ScanNothing(s) \/ Delete(s) \/ DeleteWhere(s)

Next ==
  \/ \E s \in Sources : Begin(s) \/ Progress(s) \/ Lost(s) \/ Fail(s)
  \/ Apply \/ Refresh

Spec == Init /\ [][Next]_vars

(* The server answers, and the event loop runs the task that waits for it. *)
FairSpec == Spec /\ \A s \in Sources : WF_vars(Progress(s))

-----------------------------------------------------------------------------
(* Properties.                                                             *)

PointsOf(s, p) == {<<k, p[k].hash>> : k \in Owned(s, p)}
GoalOf(docs) == {<<k, docs[Uri[k]]>> : k \in Wanted(docs)}
Blurred(s) == misread[s] \X Hashes

(* A run that ended well leaves its source with exactly the points of the  *)
(* documents it read, once the deletions that Qdrant has accepted are      *)
(* carried out, and they stay so until its next run, whatever the other    *)
(* sources do in the same collection, before, during or after.  Only where *)
(* a search of Elasticsearch showed the run an older state of a key may    *)
(* that key be wrong.                                                      *)
Exact ==
  \A s \in Sources : pc[s] = "done" =>
    PointsOf(s, Settled) \ Blurred(s) = GoalOf(current[s]) \ Blurred(s)

(* The collection is to every source as an index of its own.               *)
Private == INSTANCE SourcePoints WITH
  Goals <- UNION {{GoalOf(d) : d \in Docs(s)} : s \in Sources},
  own <- [s \in Sources |-> PointsOf(s, Settled)],
  wanted <- [s \in Sources |-> GoalOf(current[s])],
  blurred <- [s \in Sources |-> Blurred(s)],
  phase <- [s \in Sources |-> IF pc[s] \in Active THEN "running" ELSE pc[s]]

Isolated == Private!Spec

(* Claims that the code does not meet.                                     *)

Prunes(s) == Delete(s) \/ DeleteWhere(s)
Lose(docs) == \E k \in Wanted(docs) : Settled[k] # None /\ Settled'[k] = None

(* index/base.py: reconcile deletes "this source's points not present in   *)
(* current".  What it deletes is no point that its own run wants.          *)
PrunesNothingCurrent == [][ \A s \in Sources : Prunes(s) => ~Lose(current[s]) ]_vars

(* README: with distinct source identities, "the per-source reconcile pass *)
(* does not prune each other's points".  What it deletes is no point that  *)
(* another source's last run wanted and left there.                        *)
PrunesNoOther ==
  [][ \A s, t \in Sources :
        Prunes(s) /\ s # t /\ pc[t] = "done" => ~Lose(current[t]) ]_vars

(* Paging and creating come to an end: every run ends.                     *)
RunsEnd == \A s \in Sources : pc[s] \in Active ~> pc[s] \notin Active
=============================================================================
