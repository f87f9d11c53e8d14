------------------------------- MODULE Ingest -------------------------------
(***************************************************************************)
(* One pipeline of alvis: PipelineEngine.run over a source that other      *)
(* people keep editing (src/alvis/pipeline/engine.py, stages.py), the      *)
(* incremental state it keeps for that source (docstore.py) and the index  *)
(* it writes and prunes (index/).                                          *)
(*                                                                         *)
(* Data is abstracted to what the properties tell apart.  A document body  *)
(* is a member of Contents and stands for its own sha256 (content_hash is  *)
(* injective); its listing fingerprint is Fingerprint[body]; the chunks a body   *)
(* is split into depend on the pipeline settings, Chunks[settings][body],  *)
(* and two bodies may share chunk texts, exactly as two revisions of a     *)
(* page do.  A point of the index is keyed by (uri, text), as point_id is, *)
(* and carries the artifact hash and the settings that produced it.        *)
(***************************************************************************)

CONSTANTS
  Uris,       \* documents the source may hold
  Contents,   \* document bodies, each standing for its content hash
  Fingerprints,     \* listing fingerprints (ETag, blob sha, version number, ...)
  Fingerprint,      \* [Contents -> Fingerprints]: the fingerprint a listing reports
  Texts,      \* chunk texts
  Settings,   \* what pipeline_signature hashes
  Chunks,     \* [Settings -> [Contents -> SUBSET Texts]]: extract, then chunk
  Targets,    \* indexes a configuration may name; NoIndex may be one of them
  NoIndex,    \* stands for a configuration without an index stage
  Edits,      \* [body or Gone -> the bodies (or Gone) an edit may leave]
  Connectors, \* whether a connector implements list_documents, of those there are
  Modes,      \* values of --incremental the operator uses
  Gone,       \* the source does not deliver the document: deleted, too large
  None        \* absence of a value

Bodies == Contents \cup {Gone}
Indexes == Targets \ {NoIndex}
Keys == Uris \X Texts
Entry == [content : Contents, listing : Fingerprints \cup {None}]
Point == [hash : Contents, settings : Settings]

ASSUME IngestAssumption ==
  /\ Fingerprint \in [Contents -> Fingerprints]
  /\ Chunks \in [Settings -> [Contents -> SUBSET Texts]]
  /\ Edits \in [Bodies -> SUBSET Bodies]
  /\ Connectors \subseteq BOOLEAN
  /\ Modes \subseteq BOOLEAN
  /\ Gone \notin Contents
  /\ None \notin Contents \cup Fingerprints \cup Settings \cup Entry \cup Point

VARIABLES
  src,        \* the remote documents
  settings,   \* the settings in the pipeline's configuration now
  target,     \* the index it names now
  canList,    \* its source's connector implements list_documents
  index,      \* the points of every index
  file,       \* this source's entry of .alvis/state.json
  pc,         \* the stage the run is in; "idle" and "done" between runs
  inc,        \* the run has a DocStore
  todo,       \* documents the current stage has not reached yet
  listed,     \* fingerprints of the documents whose body has to be fetched
  fetched,    \* bodies that were downloaded (ctx.artifacts)
  entries,    \* ctx.entries; ctx.current[u] is entries[u].content throughout
  pending,    \* keys of ctx.pending that have not been written yet
  reindexed,  \* documents whose chunks went into ctx.pending
  torn        \* history: documents whose points a run changed without commit

runVars == <<inc, todo, listed, fetched, entries, pending, reindexed>>
confVars == <<settings, target, canList>>
vars == <<src, confVars, index, file, pc, runVars, torn>>

Stages == {"list", "fetch", "upsert", "reconcile", "commit"}

Nothing == [u \in Uris |-> None]
NoFile == [settings |-> None, docs |-> Nothing]

TypeOK ==
  /\ src \in [Uris -> Bodies]
  /\ settings \in Settings
  /\ target \in Targets
  /\ canList \in Connectors
  /\ index \in [Indexes -> [Keys -> Point \cup {None}]]
  /\ file \in [settings : Settings \cup {None}, docs : [Uris -> Entry \cup {None}]]
  /\ pc \in Stages \cup {"idle", "done"}
  /\ inc \in BOOLEAN
  /\ todo \subseteq Uris
  /\ listed \in [Uris -> Fingerprints \cup {None}]
  /\ fetched \in [Uris -> Contents \cup {None}]
  /\ entries \in [Uris -> Entry \cup {None}]
  /\ pending \subseteq Keys
  /\ reindexed \subseteq Uris
  /\ torn \subseteq Uris

-----------------------------------------------------------------------------
(* What a run reads and derives.                                           *)

\* Mutant of Stored: the signature is not compared.
StoredUnderAnySettings(u) == file.docs[u]

\* DocStore.entry: nothing when the state was written under other settings.
Stored(u) == IF file.settings = settings THEN file.docs[u] ELSE None

\* FetchStage uses the listing only with a DocStore and a listing connector.
UseListing == inc /\ canList

\* Mutant of ListedUnchanged: any stored fingerprint will do.
ListedBefore(u) ==
  /\ UseListing
  /\ Stored(u) # None
  /\ Stored(u).listing # None

\* The listing alone shows that the document did not change.
ListedUnchanged(u) ==
  /\ UseListing
  /\ Stored(u) # None
  /\ Stored(u).listing # None
  /\ Stored(u).listing = Fingerprint[src[u]]

\* Without a listing, the downloaded body is compared by its hash.
BodyUnchanged(u) ==
  /\ inc /\ ~canList
  /\ Stored(u) # None
  /\ Stored(u).content = fetched[u]

\* Mutant of Stale: documents that are gone are forgotten.
StaleBody(k) ==
  /\ index[target][k] # None
  /\ entries[k[1]] # None
  /\ entries[k[1]].content # index[target][k].hash

\* Mutant of Stale: points are held against the previous state.
StaleInFile(k) ==
  /\ index[target][k] # None
  /\ file.docs[k[1]] # None => file.docs[k[1]].content # index[target][k].hash

\* A point the reconcile pass deletes: its document is not part of this run,
\* or is there with another hash.
Stale(k) ==
  /\ index[target][k] # None
  /\ entries[k[1]] # None => entries[k[1]].content # index[target][k].hash

\* Documents whose points the run may have written or deleted so far.
Touched ==
  CASE pc = "upsert" -> reindexed
    [] pc \in {"reconcile", "commit"} -> reindexed \cup {u \in Uris : entries[u] = None}
    [] OTHER -> {}

-----------------------------------------------------------------------------
Init ==
  /\ src \in [Uris -> Bodies]
  /\ settings \in Settings
  /\ target \in Targets
  /\ canList \in Connectors
  /\ index = [x \in Indexes |-> [k \in Keys |-> None]]
  /\ file = NoFile
  /\ pc = "idle"
  /\ inc = FALSE
  /\ todo = {} /\ pending = {} /\ reindexed = {}
  /\ listed = Nothing /\ fetched = Nothing /\ entries = Nothing
  /\ torn = {}

(* A fresh RunContext: _build_context, and a DocStore when incremental.    *)
StartRun(incremental) ==
  /\ pc \in {"idle", "done"}
  /\ pc' = "list"
  /\ inc' = incremental
  /\ todo' = Uris
  /\ pending' = {} /\ reindexed' = {}
  /\ listed' = Nothing /\ fetched' = Nothing /\ entries' = Nothing
  /\ UNCHANGED <<src, confVars, index, file, torn>>

(* The source reports document u, in a listing or at the head of a full    *)
(* fetch.  Pages, directory entries and files are read one after another,  *)
(* so the source may change between two documents.  An unchanged document  *)
(* keeps its stored entry; any other is wanted.                            *)
ListDoc(u) ==
  /\ pc = "list"
  /\ u \in todo
  /\ todo' = todo \ {u}
  /\ \/ /\ src[u] = Gone
        /\ UNCHANGED <<listed, entries>>
     \/ /\ src[u] # Gone
        /\ ListedUnchanged(u)
        /\ entries' = [entries EXCEPT ![u] = Stored(u)]
        /\ UNCHANGED listed
     \/ /\ src[u] # Gone
        /\ ~ListedUnchanged(u)
        /\ listed' = [listed EXCEPT ![u] = Fingerprint[src[u]]]
        /\ UNCHANGED entries
  /\ UNCHANGED <<src, confVars, index, file, pc, inc, fetched, pending, reindexed, torn>>

ListDone ==
  /\ pc = "list"
  /\ todo = {}
  /\ pc' = "fetch"
  /\ todo' = {u \in Uris : listed[u] # None}
  /\ UNCHANGED <<src, confVars, index, file, inc, listed, fetched,
                 entries, pending, reindexed, torn>>

\* Mutant of FetchDoc: a document that went away is kept as an artifact.
FetchDocGone(u) ==
  /\ pc = "fetch"
  /\ u \in todo
  /\ todo' = todo \ {u}
  /\ fetched' = [fetched EXCEPT ![u] = src[u]]
  /\ UNCHANGED <<src, confVars, index, file, pc, inc, listed, entries,
                 pending, reindexed, torn>>

(* The body is downloaded some time after it was listed; a document that   *)
(* went away or outgrew max_bytes in between is left out of the artifacts. *)
FetchDoc(u) ==
  /\ pc = "fetch"
  /\ u \in todo
  /\ todo' = todo \ {u}
  /\ fetched' = [fetched EXCEPT ![u] = IF src[u] = Gone THEN None ELSE src[u]]
  /\ UNCHANGED <<src, confVars, index, file, pc, inc, listed, entries,
                 pending, reindexed, torn>>

(* ExtractStage over every artifact: the content-hash decision, the entry  *)
(* to be committed, and the chunks to be written.  EmbedStage only computes*)
(* vectors; when it fails the run aborts with nothing written.             *)
Extract ==
  LET arrived == {u \in Uris : fetched[u] # None}
      work == {u \in arrived : ~BodyUnchanged(u)}
  IN
  /\ pc = "fetch"
  /\ todo = {}
  /\ entries' = [u \in Uris |->
       IF u \in work THEN [content |-> fetched[u], listing |-> IF UseListing THEN listed[u] ELSE None]
       ELSE IF u \in arrived THEN [content |-> fetched[u], listing |-> None]
       ELSE entries[u]]
  /\ reindexed' = work
  /\ IF target = NoIndex
     THEN /\ pending' = {}
          /\ pc' = IF inc THEN "commit" ELSE "done"
     ELSE /\ pending' = {k \in Keys : k[1] \in work /\ k[2] \in Chunks[settings][fetched[k[1]]]}
          /\ pc' = IF pending' = {} THEN "reconcile" ELSE "upsert"
  /\ UNCHANGED <<src, confVars, index, file, inc, todo, listed, fetched, torn>>

(* One point of a batch.  Every backend overwrites the point of an equal   *)
(* (uri, text), whatever hash it carried; batches are cut differently by   *)
(* each backend, so a failure may fall between any two points.             *)
Upsert(k) ==
  /\ pc = "upsert"
  /\ k \in pending
  /\ index' = [index EXCEPT ![target][k] =
                 [hash |-> entries[k[1]].content, settings |-> settings]]
  /\ pending' = pending \ {k}
  /\ pc' = IF pending' = {} THEN "reconcile" ELSE "upsert"
  /\ UNCHANGED <<src, confVars, file, inc, todo, listed, fetched,
                 entries, reindexed, torn>>

(* One deletion of the reconcile pass.  Elasticsearch deletes one by one;  *)
(* the other backends delete all at once, module SharedIndex has the       *)
(* requests.                                                               *)
Prune(k) ==
  /\ pc = "reconcile"
  /\ Stale(k)
  /\ index' = [index EXCEPT ![target][k] = None]
  /\ UNCHANGED <<src, confVars, file, pc, runVars, torn>>

(* Reconcile is over.  Without a DocStore there is no CommitStage, and the *)
(* state file keeps describing what the index held before this run.        *)
ReconcileDone ==
  /\ pc = "reconcile"
  /\ \A k \in Keys : ~Stale(k)
  /\ pc' = IF inc THEN "commit" ELSE "done"
  /\ torn' = IF inc THEN torn ELSE torn \cup Touched
  /\ UNCHANGED <<src, confVars, index, file, runVars>>

(* CommitStage: DocStore.commit, then save (record_run saves it again).    *)
Commit ==
  /\ pc = "commit"
  /\ pc' = "done"
  /\ file' = [settings |-> settings, docs |-> entries]
  /\ torn' = torn \ reindexed
  /\ UNCHANGED <<src, confVars, index, runVars>>

(* A stage raised, or the process died: nothing is committed, and points   *)
(* already written or deleted stay so.                                     *)
Abort ==
  /\ pc \in Stages
  /\ pc' = "idle"
  /\ inc' = FALSE
  /\ todo' = {} /\ pending' = {} /\ reindexed' = {}
  /\ listed' = Nothing /\ fetched' = Nothing /\ entries' = Nothing
  /\ torn' = torn \cup Touched
  /\ UNCHANGED <<src, confVars, index, file>>

-----------------------------------------------------------------------------
(* The environment.                                                        *)

\* Somebody edits, deletes or restores a document, at any time.
Edit(u) ==
  /\ \E body \in Edits[src[u]] : src' = [src EXCEPT ![u] = body]
  /\ UNCHANGED <<confVars, index, file, pc, runVars, torn>>

\* The operator changes the configuration between two runs.
Reconfigure(s, x) ==
  /\ pc \in {"idle", "done"}
  /\ <<s, x>> # <<settings, target>>
  /\ settings' = s /\ target' = x
  /\ pc' = "idle"
  /\ torn' = IF x = target THEN torn ELSE Uris
  /\ UNCHANGED <<src, canList, index, file, runVars>>

\* The state file is deleted, or its JSON is damaged and reads as empty.
LoseState ==
  /\ pc \in {"idle", "done"}
  /\ file # NoFile
  /\ file' = NoFile
  /\ pc' = "idle"
  /\ UNCHANGED <<src, confVars, index, runVars, torn>>

RunStep ==
  \/ \E u \in Uris : ListDoc(u) \/ FetchDoc(u)
  \/ \E k \in Keys : Upsert(k) \/ Prune(k)
  \/ ListDone \/ Extract \/ ReconcileDone \/ Commit

Next ==
  \/ \E m \in Modes : StartRun(m)
  \/ RunStep
  \/ Abort
  \/ \E u \in Uris : Edit(u)
  \/ \E s \in Settings, x \in Targets : Reconfigure(s, x)
  \/ LoseState

Spec == Init /\ [][Next]_vars

-----------------------------------------------------------------------------
(* Safety.                                                                 *)

\* Every chunk of u's committed body is in the index under that body's hash.
Complete(u) ==
  \A t \in Chunks[file.settings][file.docs[u].content] :
    /\ index[target][<<u, t>>] # None
    /\ index[target][<<u, t>>].hash = file.docs[u].content

(* What makes skipping sound: a document with a committed entry is wholly  *)
(* in the index, at any moment of any run, unless a run has been changing  *)
(* its points and has not committed (it is still running, it aborted, it   *)
(* ran without a DocStore), or the configuration has changed its index.    *)
CommittedIndexed ==
  target # NoIndex =>
    \A u \in Uris \ (torn \cup Touched) : file.docs[u] # None => Complete(u)

(* After the reconcile pass the index holds nothing of the source but      *)
(* points of documents of this run, at their current hash and with a text  *)
(* that is one of that body's chunks, whatever aborted runs, full runs and *)
(* other settings left behind.                                             *)
NoOrphans ==
  pc \in {"commit", "done"} /\ target # NoIndex =>
    \A k \in Keys :
      LET point == index[target][k] IN
      point # None =>
        /\ entries[k[1]] # None
        /\ point.hash = entries[k[1]].content
        /\ k[2] \in Chunks[point.settings][point.hash]

(* Everything the run extracted is in the index when it commits: the       *)
(* reconcile pass of a run deletes no point the same run has written, even *)
(* where a chunk text survived from the previous body.                     *)
Published ==
  pc \in {"reconcile", "commit", "done"} /\ target # NoIndex =>
    \A u \in reindexed : \A t \in Chunks[settings][fetched[u]] :
      index[target][<<u, t>>] = [hash |-> fetched[u], settings |-> settings]

(* Claims of the documentation that the code does not meet.                *)

(* README: changing the settings invalidates the state, "so chunks are     *)
(* never silently left stale".  After an incremental run every point was   *)
(* made under the current settings.                                        *)
NoStaleChunks ==
  pc = "done" /\ inc /\ target # NoIndex =>
    \A k \in Keys : index[target][k] # None => index[target][k].settings = settings

(* docstore.py: the content hash of an entry is "identical to what         *)
(* ingestion stores per point".  After a successful incremental run every  *)
(* committed document has all its chunks in the index under that hash.     *)
EntriesIndexed ==
  pc = "done" /\ inc /\ target # NoIndex =>
    \A u \in Uris : file.docs[u] # None => Complete(u)

-----------------------------------------------------------------------------
(* Liveness.                                                               *)

(* The scheduler starts a run when none is under way, and a run that       *)
(* neither fails nor is killed goes on: nothing in the engine waits for    *)
(* anything but its own next step.  Failures and edits are not fair.       *)
Fairness ==
  /\ WF_vars(\E m \in Modes : StartRun(m))
  /\ WF_vars(RunStep)

FairSpec == Spec /\ Fairness

\* The index shows exactly the chunks of what the source holds now.
Synced ==
  \A k \in Keys :
    LET body == src[k[1]]
        shown == body # Gone /\ k[2] \in Chunks[settings][body]
    IN index[target][k] = IF shown THEN [hash |-> body, settings |-> settings] ELSE None

(* When runs keep succeeding and the source comes to rest, the index ends  *)
(* up equal to the source for good, whatever runs failed, crashed or read  *)
(* a document between two edits before.  It holds where an edit never      *)
(* brings back an old body (see the README for what happens when it does). *)
Heals == []<>(pc = "done") => <>[]Synced

=============================================================================
