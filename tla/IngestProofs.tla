---------------------------- MODULE IngestProofs ----------------------------
(***************************************************************************)
(* Proofs about Ingest for every source, connector and configuration:      *)
(* type correctness and the three safety invariants of the component.      *)
(***************************************************************************)
EXTENDS Ingest, TLAPS

-----------------------------------------------------------------------------
(* The inductive invariant.                                                *)

\* While listing and fetching, a document is either kept from the state file
\* or waiting for its body, and nothing is ready to be written.
Gathering ==
  pc \in {"list", "fetch"} =>
    /\ pending = {} /\ reindexed = {}
    /\ pc = "list" => fetched = Nothing /\ \A u \in todo : listed[u] = None /\ entries[u] = None
    /\ pc = "fetch" => \A u \in todo : listed[u] # None
    /\ \A u \in Uris :
         /\ fetched[u] # None => listed[u] # None
         /\ entries[u] # None =>
              /\ listed[u] = None
              /\ inc /\ file.settings = settings
              /\ entries[u] = file.docs[u]

\* After extraction, an entry is that of a body just extracted or stands for
\* the same content as the committed entry.
Decided ==
  pc \in {"upsert", "reconcile", "commit"} =>
    /\ \A u \in reindexed : entries[u] # None /\ entries[u].content = fetched[u]
    /\ \A u \in Uris \ reindexed : entries[u] # None =>
         /\ file.settings = settings
         /\ file.docs[u] # None
         /\ entries[u].content = file.docs[u].content

\* The keys still to be written are those of the run's chunks that are not
\* in the index yet.
Writing ==
  pc = "upsert" =>
    /\ \A k \in pending : k[1] \in reindexed /\ k[2] \in Chunks[settings][fetched[k[1]]]
    /\ \A u \in reindexed : \A t \in Chunks[settings][fetched[u]] :
         \/ <<u, t>> \in pending
         \/ index[target][<<u, t>>] = [hash |-> fetched[u], settings |-> settings]

\* The index is written and pruned only when there is one.
HasIndex == pc \in {"upsert", "reconcile"} => target # NoIndex

\* A point's text is a chunk of the body it claims to come from.
HonestPoints ==
  \A x \in Indexes : \A k \in Keys :
    index[x][k] # None => k[2] \in Chunks[index[x][k].settings][index[x][k].hash]

\* State that holds documents is tagged with the settings that made it.
Tagged == file.settings = None => file.docs = Nothing

IInv ==
  /\ TypeOK
  /\ Tagged
  /\ Gathering
  /\ Decided
  /\ Writing
  /\ HasIndex
  /\ HonestPoints
  /\ CommittedIndexed
  /\ NoOrphans
  /\ Published

-----------------------------------------------------------------------------
(* Type correctness.                                                       *)


\* The initial state satisfies the invariant.
LEMMA InitIInv == Init => IInv
<1> USE IngestAssumption DEF Bodies, Indexes, Entry, Point, Stages
<1> SUFFICES ASSUME Init PROVE IInv
  OBVIOUS
<1>1. TypeOK
  <2>1. index \in [Indexes -> [Keys -> Point \cup {None}]]
    BY DEF Init
  <2>2. Nothing \in [Uris -> Entry \cup {None}]
    BY DEF Nothing
  <2>3. file \in [settings : Settings \cup {None}, docs : [Uris -> Entry \cup {None}]]
    BY <2>2 DEF Init, NoFile
  <2> QED
    BY <2>1, <2>2, <2>3 DEF Init, TypeOK, Nothing
<1>2. Tagged /\ Gathering /\ Decided /\ Writing /\ HasIndex
  BY DEF Init, Tagged, NoFile, Gathering, Decided, Writing, HasIndex
<1>3. HonestPoints
  BY DEF Init, HonestPoints
<1>4. CommittedIndexed /\ NoOrphans /\ Published
  BY DEF Init, CommittedIndexed, NoOrphans, Published, NoFile, Nothing
<1> QED
  BY <1>1, <1>2, <1>3, <1>4 DEF IInv

\* A step keeps the types.  Upsert needs more than TypeOK: that the document
\* of a pending key has an entry.
LEMMA TypeStep == IInv /\ [Next]_vars => TypeOK'
<1> USE IngestAssumption DEF Bodies, Indexes, Entry, Point, Stages
<1> SUFFICES ASSUME IInv, [Next]_vars PROVE TypeOK'
  OBVIOUS
<1> TypeOK
  BY DEF IInv
<1>1. ASSUME NEW m \in Modes, StartRun(m) PROVE TypeOK'
  BY <1>1 DEF TypeOK, StartRun, Nothing, confVars
<1>2. ASSUME NEW u \in Uris, ListDoc(u) PROVE TypeOK'
  <2>1. ListedUnchanged(u) => Stored(u) \in Entry
    BY DEF TypeOK, ListedUnchanged, Stored
  <2>2. src[u] # Gone => Fingerprint[src[u]] \in Fingerprints
    BY DEF TypeOK
  <2>3. listed' \in [Uris -> Fingerprints \cup {None}] /\ entries' \in [Uris -> Entry \cup {None}]
    BY <1>2, <2>1, <2>2 DEF TypeOK, ListDoc
  <2> QED
    BY <1>2, <2>3 DEF TypeOK, ListDoc, confVars
<1>3. ASSUME NEW u \in Uris, FetchDoc(u) PROVE TypeOK'
  BY <1>3 DEF TypeOK, FetchDoc, confVars
<1>4. ASSUME NEW k \in Keys, Upsert(k) PROVE TypeOK'
  <2>1. PICK u \in Uris, t \in Texts : k = <<u, t>>
    BY DEF Keys
  <2>2. entries[u] # None
    BY <1>4, <2>1 DEF IInv, Upsert, Writing, Decided
  <2>3. [hash |-> entries[u].content, settings |-> settings] \in Point
    BY <2>2 DEF TypeOK
  <2> QED
    BY <1>4, <2>1, <2>3 DEF TypeOK, Upsert, confVars
<1>5. ASSUME NEW k \in Keys, Prune(k) PROVE TypeOK'
  BY <1>5 DEF TypeOK, Prune, confVars, runVars
<1>6. CASE ListDone
  BY <1>6 DEF TypeOK, ListDone, confVars
<1>7. CASE Extract
  BY <1>7 DEF TypeOK, Extract, BodyUnchanged, Stored, UseListing, confVars
<1>8. CASE ReconcileDone
  BY <1>8 DEF TypeOK, ReconcileDone, Touched, confVars, runVars
<1>9. CASE Commit
  BY <1>9 DEF TypeOK, Commit, confVars, runVars
<1>10. CASE Abort
  BY <1>10 DEF TypeOK, Abort, Touched, Nothing, confVars
<1>11. ASSUME NEW u \in Uris, Edit(u) PROVE TypeOK'
  BY <1>11 DEF TypeOK, Edit, confVars, runVars
<1>12. ASSUME NEW s \in Settings, NEW x \in Targets, Reconfigure(s, x) PROVE TypeOK'
  BY <1>12 DEF TypeOK, Reconfigure, runVars
<1>13. CASE LoseState
  BY <1>13 DEF TypeOK, LoseState, NoFile, Nothing, confVars, runVars
<1>14. CASE UNCHANGED vars
  BY <1>14 DEF TypeOK, vars, confVars, runVars
<1> QED
  BY <1>1, <1>2, <1>3, <1>4, <1>5, <1>6, <1>7, <1>8, <1>9, <1>10, <1>11,
     <1>12, <1>13, <1>14 DEF Next, RunStep

-----------------------------------------------------------------------------
(* What each action preserves, beyond the types.                           *)

\* The conjuncts of IInv other than TypeOK.
Safety ==
  /\ Tagged /\ Gathering /\ Decided /\ Writing /\ HasIndex
  /\ HonestPoints
  /\ CommittedIndexed
  /\ NoOrphans
  /\ Published

\* A fresh run touches neither the index nor the state file.
LEMMA StartRunStep ==
  ASSUME IInv, NEW m \in Modes, StartRun(m) PROVE Safety'
<1> USE DEF IInv, StartRun, confVars
<1>1. Tagged' /\ Gathering' /\ Decided' /\ Writing' /\ HasIndex'
  BY DEF Tagged, Gathering, Decided, Writing, HasIndex, Nothing
<1>2. HonestPoints'
  BY DEF HonestPoints
<1>3. CommittedIndexed'
  BY DEF CommittedIndexed, Complete, Touched
<1>4. NoOrphans' /\ Published'
  BY DEF NoOrphans, Published
<1> QED
  BY <1>1, <1>2, <1>3, <1>4 DEF Safety

\* An entry kept from the state file is the stored one, under the same settings.
LEMMA ListDocStep ==
  ASSUME IInv, NEW u \in Uris, ListDoc(u) PROVE Safety'
<1> USE IngestAssumption DEF IInv, ListDoc, confVars
<1>1. Gathering'
  <2>1. CASE src[u] = Gone
    BY <2>1 DEF Gathering
  <2>2. CASE src[u] # Gone /\ ListedUnchanged(u)
    BY <2>2 DEF Gathering, TypeOK, ListedUnchanged, UseListing, Stored, Nothing
  <2>3. CASE src[u] # Gone /\ ~ListedUnchanged(u)
    BY <2>3 DEF Gathering, TypeOK, Nothing, Bodies
  <2> QED
    BY <2>1, <2>2, <2>3
<1>2. Tagged' /\ Decided' /\ Writing' /\ HasIndex'
  BY DEF Tagged, Decided, Writing, HasIndex
<1>3. HonestPoints'
  BY DEF HonestPoints
<1>4. CommittedIndexed'
  BY DEF CommittedIndexed, Complete, Touched
<1>5. NoOrphans' /\ Published'
  BY DEF NoOrphans, Published
<1> QED
  BY <1>1, <1>2, <1>3, <1>4, <1>5 DEF Safety

\* Every document still to be fetched has a listed fingerprint.
LEMMA ListDoneStep ==
  ASSUME IInv, ListDone PROVE Safety'
<1> USE DEF IInv, ListDone, confVars
<1>1. Gathering'
  BY DEF Gathering
<1>2. Tagged' /\ Decided' /\ Writing' /\ HasIndex'
  BY DEF Tagged, Decided, Writing, HasIndex
<1>3. HonestPoints'
  BY DEF HonestPoints
<1>4. CommittedIndexed'
  BY DEF CommittedIndexed, Complete, Touched
<1>5. NoOrphans' /\ Published'
  BY DEF NoOrphans, Published
<1> QED
  BY <1>1, <1>2, <1>3, <1>4, <1>5 DEF Safety

\* A download changes nothing but ctx.artifacts.
LEMMA FetchDocStep ==
  ASSUME IInv, NEW u \in Uris, FetchDoc(u) PROVE Safety'
<1> USE DEF IInv, FetchDoc, confVars
<1>1. Gathering'
  BY DEF Gathering, TypeOK
<1>2. Tagged' /\ Decided' /\ Writing' /\ HasIndex'
  BY DEF Tagged, Decided, Writing, HasIndex
<1>3. HonestPoints'
  BY DEF HonestPoints
<1>4. CommittedIndexed'
  BY DEF CommittedIndexed, Complete, Touched
<1>5. NoOrphans' /\ Published'
  BY DEF NoOrphans, Published
<1> QED
  BY <1>1, <1>2, <1>3, <1>4, <1>5 DEF Safety

\* What was extracted and what is still to be written are the same chunks.
LEMMA ExtractStep ==
  ASSUME IInv, Extract PROVE Safety'
<1> USE IngestAssumption DEF IInv, confVars
<1> DEFINE arrived == {u \in Uris : fetched[u] # None}
           work == {u \in arrived : ~BodyUnchanged(u)}
<1>1. /\ pc = "fetch" /\ reindexed' = work
      /\ pc' \in {"upsert", "reconcile", "commit", "done"}
      /\ pc' \in {"upsert", "reconcile"} => target # NoIndex
      /\ pc' # "upsert" => pending' = {}
      /\ target # NoIndex => pending' = {k \in Keys : k[1] \in work /\ k[2] \in Chunks[settings][fetched[k[1]]]}
      /\ UNCHANGED <<src, settings, target, index, file, inc, todo, listed, fetched, torn>>
  BY DEF Extract
<1>2. \A u \in Uris :
        /\ u \in work => entries'[u] # None /\ entries'[u].content = fetched[u]
        /\ u \in arrived \ work => entries'[u] # None /\ entries'[u].content = fetched[u]
        /\ u \notin arrived => entries'[u] = entries[u]
  <2> TAKE u \in Uris
  <2>1. \A c \in Contents, l \in Fingerprints \cup {None} :
          [content |-> c, listing |-> l] # None
    BY DEF Entry
  <2>2. u \in arrived => fetched[u] \in Contents
    BY DEF TypeOK
  <2>3. listed[u] \in Fingerprints \cup {None}
    BY DEF TypeOK
  <2> QED
    BY <2>1, <2>2, <2>3 DEF Extract
<1>3. Tagged' /\ Gathering' /\ HasIndex'
  BY <1>1 DEF Tagged, Gathering, HasIndex
<1>4. Decided'
  <2>1. ASSUME NEW u \in Uris \ reindexed', entries'[u] # None
        PROVE  /\ file.settings = settings
               /\ file.docs[u] # None
               /\ entries'[u].content = file.docs[u].content
    <3>1. CASE u \in arrived
      BY <1>1, <1>2, <2>1, <3>1 DEF BodyUnchanged, Stored
    <3>2. CASE u \notin arrived
      BY <1>1, <1>2, <2>1, <3>2 DEF Gathering
    <3> QED
      BY <3>1, <3>2
  <2> QED
    BY <1>1, <1>2, <2>1 DEF Decided
<1>5. \A u \in work : \A t \in Chunks[settings][fetched[u]] : <<u, t>> \in Keys
  BY DEF TypeOK, Keys
<1>6. Writing'
  BY <1>1, <1>5 DEF Writing
<1>7. HonestPoints'
  BY <1>1 DEF HonestPoints
<1>8. CommittedIndexed'
  BY <1>1 DEF CommittedIndexed, Complete, Touched
<1>9. NoOrphans'
  BY <1>1 DEF NoOrphans, Extract
<1>10. Published'
  <2>1. SUFFICES ASSUME pc' = "reconcile", NEW u \in work,
                        NEW t \in Chunks[settings][fetched[u]]
                 PROVE FALSE
    BY <1>1 DEF Published, Extract
  <2>2. <<u, t>> \in pending'
    BY <1>1, <1>5, <2>1
  <2> QED
    BY <1>1, <2>1, <2>2
<1> QED
  BY <1>3, <1>4, <1>6, <1>7, <1>8, <1>9, <1>10 DEF Safety

\* A point written belongs to a document the run has touched.
LEMMA UpsertStep ==
  ASSUME IInv, NEW k \in Keys, Upsert(k) PROVE Safety'
<1> USE IngestAssumption DEF IInv, confVars
<1>1. PICK u \in Uris, t \in Texts : k = <<u, t>>
  BY DEF Keys
<1> DEFINE new == [hash |-> fetched[u], settings |-> settings]
<1>2. /\ u \in reindexed /\ t \in Chunks[settings][fetched[u]]
      /\ entries[u] # None /\ entries[u].content = fetched[u]
      /\ target \in Indexes
  BY <1>1 DEF Upsert, Writing, Decided, HasIndex, TypeOK, Indexes
<1>3. /\ index' = [index EXCEPT ![target][k] = new]
      /\ pending' = pending \ {k}
      /\ pc = "upsert" /\ pc' \in {"upsert", "reconcile"}
      /\ pc' = "reconcile" => pending' = {}
      /\ UNCHANGED <<src, settings, target, file, inc, todo, listed, fetched, entries, reindexed, torn>>
  BY <1>1, <1>2 DEF Upsert
<1>4. /\ index'[target][k] = new
      /\ \A x \in Indexes : \A j \in Keys : <<x, j>> # <<target, k>> => index'[x][j] = index[x][j]
  BY <1>2, <1>3 DEF TypeOK
<1>5. Tagged' /\ Gathering' /\ Decided' /\ HasIndex'
  BY <1>3 DEF Tagged, Gathering, Decided, HasIndex
<1>6. \A v \in reindexed : \A w \in Chunks[settings][fetched[v]] :
        \/ <<v, w>> \in pending'
        \/ index'[target][<<v, w>>] = [hash |-> fetched[v], settings |-> settings]
  <2> TAKE v \in reindexed
  <2> TAKE w \in Chunks[settings][fetched[v]]
  <2>1. v \in Uris /\ fetched[v] \in Contents
    BY <1>3 DEF Decided, TypeOK, Entry
  <2>2. <<v, w>> \in Keys
    BY <2>1 DEF TypeOK, Keys
  <2>3. CASE <<v, w>> = k
    BY <1>1, <1>4, <2>3
  <2>4. CASE <<v, w>> # k
    BY <1>2, <1>3, <1>4, <2>2, <2>4 DEF Writing
  <2> QED
    BY <2>3, <2>4
<1>7. Writing' /\ Published'
  BY <1>3, <1>6 DEF Writing, Published
<1>8. HonestPoints'
  BY <1>1, <1>2, <1>3, <1>4 DEF HonestPoints
<1>9. CommittedIndexed'
  <2> SUFFICES ASSUME NEW v \in Uris \ (torn' \cup Touched'), target # NoIndex, file.docs[v] # None
               PROVE Complete(v)'
    BY <1>3 DEF CommittedIndexed
  <2>1. v \notin reindexed /\ v # u
    BY <1>2, <1>3 DEF Touched
  <2>2. Complete(v)
    BY <1>3, <2>1 DEF CommittedIndexed, Touched
  <2>3. file.docs[v] \in Entry /\ file.settings \in Settings
    BY DEF TypeOK, Tagged, Nothing
  <2> SUFFICES ASSUME NEW w \in Chunks[file.settings][file.docs[v].content]
               PROVE index'[target][<<v, w>>] = index[target][<<v, w>>]
    BY <1>3, <2>2 DEF Complete
  <2>4. <<v, w>> \in Keys
    BY <2>3 DEF Keys, Entry
  <2> QED
    BY <1>1, <1>2, <1>4, <2>1, <2>4
<1>10. NoOrphans'
  BY <1>3 DEF NoOrphans
<1> QED
  BY <1>5, <1>7, <1>8, <1>9, <1>10 DEF Safety

\* Reconcile deletes no point of a committed or a re-indexed document.
LEMMA PruneStep ==
  ASSUME IInv, NEW k \in Keys, Prune(k) PROVE Safety'
<1> USE IngestAssumption DEF IInv, confVars, runVars
<1>1. PICK u \in Uris, t \in Texts : k = <<u, t>>
  BY DEF Keys
<1>2. /\ pc = "reconcile" /\ pc' = "reconcile"
      /\ target \in Indexes
      /\ index[target][k] # None
      /\ entries[u] # None => entries[u].content # index[target][k].hash
      /\ UNCHANGED <<src, settings, target, file, inc, todo, listed, fetched, entries, pending, reindexed, torn>>
  BY <1>1 DEF Prune, Stale, HasIndex, TypeOK, Indexes
<1>3. /\ index'[target][k] = None
      /\ \A x \in Indexes : \A j \in Keys : <<x, j>> # <<target, k>> => index'[x][j] = index[x][j]
  BY <1>2 DEF TypeOK, Prune
<1>4. Tagged' /\ Gathering' /\ Decided' /\ Writing' /\ HasIndex'
  BY <1>2 DEF Tagged, Gathering, Decided, Writing, HasIndex
<1>5. HonestPoints'
  BY <1>2, <1>3 DEF HonestPoints
<1>6. CommittedIndexed'
  <2> SUFFICES ASSUME NEW v \in Uris \ (torn \cup Touched), file.docs[v] # None
               PROVE Complete(v)'
    BY <1>2 DEF CommittedIndexed, Touched
  <2>1. /\ file.settings = settings /\ entries[v] # None
        /\ entries[v].content = file.docs[v].content
    BY <1>2 DEF Decided, Touched
  <2>2. Complete(v)
    BY <1>2 DEF CommittedIndexed, HasIndex
  <2>3. file.docs[v] \in Entry
    BY DEF TypeOK
  <2> SUFFICES ASSUME NEW w \in Chunks[file.settings][file.docs[v].content]
               PROVE index'[target][<<v, w>>] = index[target][<<v, w>>]
    BY <1>2, <2>2 DEF Complete
  <2>4. <<v, w>> \in Keys
    BY <2>1, <2>3 DEF Keys, Entry, TypeOK
  <2>5. <<v, w>> # k
    BY <1>1, <1>2, <2>1, <2>2 DEF Complete
  <2> QED
    BY <1>2, <1>3, <2>4, <2>5
<1>7. NoOrphans'
  BY <1>2 DEF NoOrphans
<1>8. Published'
  <2> SUFFICES ASSUME NEW v \in reindexed, NEW w \in Chunks[settings][fetched[v]]
               PROVE index'[target][<<v, w>>] = [hash |-> fetched[v], settings |-> settings]
    BY <1>2 DEF Published
  <2>1. index[target][<<v, w>>] = [hash |-> fetched[v], settings |-> settings]
    BY <1>2 DEF Published, HasIndex
  <2>2. entries[v] # None /\ entries[v].content = fetched[v]
    BY <1>2 DEF Decided
  <2>3. v \in Uris /\ fetched[v] \in Contents
    BY <2>2 DEF TypeOK, Entry
  <2>4. <<v, w>> \in Keys
    BY <2>3 DEF TypeOK, Keys
  <2>5. <<v, w>> # k
    BY <1>1, <1>2, <2>1, <2>2
  <2> QED
    BY <1>2, <1>3, <2>1, <2>4, <2>5
<1> QED
  BY <1>4, <1>5, <1>6, <1>7, <1>8 DEF Safety

\* Touched documents stay touched, in the history when nothing is committed.
LEMMA ReconcileDoneStep ==
  ASSUME IInv, ReconcileDone PROVE Safety'
<1> USE DEF IInv, confVars, runVars
<1>1. /\ pc = "reconcile" /\ pc' \in {"commit", "done"}
      /\ \A k \in Keys : ~Stale(k)
      /\ UNCHANGED <<src, settings, target, index, file, runVars>>
      /\ torn' = IF inc THEN torn ELSE torn \cup Touched
      /\ pc' = IF inc THEN "commit" ELSE "done"
  BY DEF ReconcileDone
<1>2. Tagged' /\ Gathering' /\ Decided' /\ Writing' /\ HasIndex'
  BY <1>1 DEF Tagged, Gathering, Decided, Writing, HasIndex
<1>3. HonestPoints'
  BY <1>1 DEF HonestPoints
<1>4. CommittedIndexed'
  <2>1. torn' \cup Touched' = torn \cup Touched
    BY <1>1 DEF Touched
  <2> QED
    BY <1>1, <2>1 DEF CommittedIndexed, Complete
<1>5. NoOrphans'
  BY <1>1 DEF NoOrphans, Stale, HonestPoints, HasIndex, TypeOK, Indexes
<1>6. Published'
  BY <1>1 DEF Published
<1> QED
  BY <1>2, <1>3, <1>4, <1>5, <1>6 DEF Safety

\* A committed entry is complete: just published, or untouched and complete before.
LEMMA CommitStep ==
  ASSUME IInv, Commit PROVE Safety'
<1> USE DEF IInv, confVars, runVars
<1>1. /\ pc = "commit" /\ pc' = "done"
      /\ file'.settings = settings /\ file'.docs = entries
      /\ torn' = torn \ reindexed
      /\ UNCHANGED <<src, settings, target, index, runVars>>
  BY DEF Commit
<1>2. Tagged' /\ Gathering' /\ Decided' /\ Writing' /\ HasIndex'
  BY <1>1, IngestAssumption DEF Tagged, Gathering, Decided, Writing, HasIndex, TypeOK
<1>3. HonestPoints'
  BY <1>1 DEF HonestPoints
<1>4. CommittedIndexed'
  <2> SUFFICES ASSUME target # NoIndex, NEW v \in Uris \ torn', entries[v] # None
               PROVE Complete(v)'
    BY <1>1 DEF CommittedIndexed
  <2>1. CASE v \in reindexed
    <3>1. /\ entries[v].content = fetched[v]
          /\ fetched[v] \in Contents /\ settings \in Settings
      BY <1>1, <2>1 DEF Decided, TypeOK, Entry
    <3>2. \A t \in Chunks[settings][fetched[v]] :
            index[target][<<v, t>>] = [hash |-> fetched[v], settings |-> settings]
      BY <1>1, <2>1 DEF Published
    <3>3. [hash |-> fetched[v], settings |-> settings] # None
      BY <3>1, IngestAssumption DEF Point
    <3> QED
      BY <1>1, <3>1, <3>2, <3>3 DEF Complete
  <2>2. CASE v \notin reindexed
    <3>1. /\ file.settings = settings /\ file.docs[v] # None
          /\ entries[v].content = file.docs[v].content
      BY <1>1, <2>2 DEF Decided
    <3>2. Complete(v)
      BY <1>1, <2>2, <3>1 DEF CommittedIndexed, Touched
    <3> QED
      BY <1>1, <3>1, <3>2 DEF Complete
  <2> QED
    BY <2>1, <2>2
<1>5. NoOrphans'
  BY <1>1 DEF NoOrphans
<1>6. Published'
  BY <1>1 DEF Published
<1> QED
  BY <1>2, <1>3, <1>4, <1>5, <1>6 DEF Safety

\* What an aborted run has touched is recorded as torn.
LEMMA AbortStep ==
  ASSUME IInv, Abort PROVE Safety'
<1> USE DEF IInv, confVars
<1>1. /\ pc' = "idle" /\ torn' = torn \cup Touched
      /\ UNCHANGED <<settings, target, index, file>>
  BY DEF Abort
<1>2. Tagged' /\ Gathering' /\ Decided' /\ Writing' /\ HasIndex'
  BY <1>1 DEF Tagged, Gathering, Decided, Writing, HasIndex
<1>3. HonestPoints'
  BY <1>1 DEF HonestPoints
<1>4. CommittedIndexed'
  BY <1>1 DEF CommittedIndexed, Complete
<1>5. NoOrphans' /\ Published'
  BY <1>1 DEF NoOrphans, Published
<1> QED
  BY <1>2, <1>3, <1>4, <1>5 DEF Safety

\* Edits, new settings or targets and a lost state file break nothing.
LEMMA EnvironmentStep ==
  ASSUME IInv,
         \/ \E u \in Uris : Edit(u)
         \/ \E s \in Settings, x \in Targets : Reconfigure(s, x)
         \/ LoseState
         \/ UNCHANGED vars
  PROVE  Safety'
<1> USE DEF IInv, confVars, runVars, vars
<1>1. CASE (\E u \in Uris : Edit(u)) \/ UNCHANGED vars
  <2>1. UNCHANGED <<settings, target, index, file, pc, runVars, torn>>
    BY <1>1 DEF Edit
  <2>2. Tagged' /\ Gathering' /\ Decided' /\ Writing' /\ HasIndex' /\ HonestPoints'
    BY <2>1 DEF Tagged, Gathering, Decided, Writing, HasIndex, HonestPoints
  <2>3. CommittedIndexed' /\ NoOrphans' /\ Published'
    BY <2>1 DEF CommittedIndexed, Complete, Touched, NoOrphans, Published
  <2> QED
    BY <2>2, <2>3 DEF Safety
<1>2. ASSUME NEW s \in Settings, NEW x \in Targets, Reconfigure(s, x) PROVE Safety'
  <2>1. /\ pc' = "idle" /\ pc \in {"idle", "done"} /\ UNCHANGED <<index, file>>
        /\ target' = x /\ torn' = IF x = target THEN torn ELSE Uris
    BY <1>2 DEF Reconfigure
  <2>2. Tagged' /\ Gathering' /\ Decided' /\ Writing' /\ HasIndex' /\ HonestPoints'
    BY <2>1 DEF Tagged, Gathering, Decided, Writing, HasIndex, HonestPoints
  <2>3. CommittedIndexed'
    BY <2>1 DEF CommittedIndexed, Complete, Touched
  <2>4. NoOrphans' /\ Published'
    BY <2>1 DEF NoOrphans, Published
  <2> QED
    BY <2>2, <2>3, <2>4 DEF Safety
<1>3. CASE LoseState
  <2>1. pc' = "idle" /\ file' = NoFile /\ UNCHANGED index
    BY <1>3 DEF LoseState
  <2>2. Tagged' /\ Gathering' /\ Decided' /\ Writing' /\ HasIndex' /\ HonestPoints'
    BY <2>1 DEF Tagged, NoFile, Gathering, Decided, Writing, HasIndex, HonestPoints
  <2>3. CommittedIndexed' /\ NoOrphans' /\ Published'
    BY <2>1 DEF CommittedIndexed, NoFile, Nothing, NoOrphans, Published
  <2> QED
    BY <2>2, <2>3 DEF Safety
<1> QED
  BY <1>1, <1>2, <1>3

-----------------------------------------------------------------------------
(* The theorems.                                                           *)

\* IInv is an invariant of the specification.
LEMMA Inductive == Spec => []IInv
<1>1. IInv /\ [Next]_vars => IInv'
  <2> SUFFICES ASSUME IInv, [Next]_vars PROVE IInv'
    OBVIOUS
  <2>1. Safety'
    BY StartRunStep, ListDocStep, ListDoneStep, FetchDocStep, ExtractStep, UpsertStep,
       PruneStep, ReconcileDoneStep, CommitStep, AbortStep, EnvironmentStep
       DEF Next, RunStep
  <2> QED
    BY <2>1, TypeStep DEF IInv, Safety
<1> QED
  BY InitIInv, <1>1, PTL DEF Spec

(* Every variable keeps its type along any run, edit or reconfiguration;   *)
(* in particular Upsert never meets a pending chunk without an entry.      *)
THEOREM TypeCorrect == Spec => []TypeOK
<1>1. IInv => TypeOK
  BY DEF IInv
<1> QED
  BY Inductive, <1>1, PTL

(* Skipping is sound: for any source, connector and history of failures,   *)
(* a committed document that no unfinished, failed or stateless run has    *)
(* touched has all its chunks in the index.                                *)
THEOREM SkippingSound == Spec => []CommittedIndexed
<1>1. IInv => CommittedIndexed
  BY DEF IInv
<1> QED
  BY Inductive, <1>1, PTL

(* After the reconcile pass no point of a deleted or superseded body is    *)
(* left, whatever aborted runs left behind.                                *)
THEOREM ReconcileExact == Spec => []NoOrphans
<1>1. IInv => NoOrphans
  BY DEF IInv
<1> QED
  BY Inductive, <1>1, PTL

(* Every chunk a run extracted is in the index when the run commits.       *)
THEOREM CommitAfterPublish == Spec => []Published
<1>1. IInv => Published
  BY DEF IInv
<1> QED
  BY Inductive, <1>1, PTL
=============================================================================
