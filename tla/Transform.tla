------------------------------ MODULE Transform ------------------------------
(***************************************************************************)
(* Pipelines of one process that share an index, from the text of their    *)
(* documents to rows: each is cut into chunks, the chunks are embedded     *)
(* through a cache that may be one file for all of them, in batches under  *)
(* a semaphore, and the vectors are written over the connection of a       *)
(* SqliteIndex (in threads) or a PgVectorIndex (under its asyncio lock).   *)
(*                                                                         *)
(* A world is [index, cache, exclusive, service, document, strategy,       *)
(* model]: which index and cache, whether the cache file can be open twice,*)
(* whether the embeddings service answers for every input, and what each   *)
(* pipeline works on.  The vector of a text is <<model, text>>.            *)
(***************************************************************************)
EXTENDS Chunking

CONSTANTS
  Runs,
  Worlds,
  Dimensions,   \* of the vectors of each model
  BatchSize,    \* ApiEmbedder.batch_size
  InFlight,     \* ApiEmbedder.max_concurrency
  RowsPerInsert,\* _UPSERT_BATCH_SIZE
  Nothing,      \* no connection, no vector
  Queued, Sent, \* a batch before its request, and during it
  MaxDrops      \* bound: connections the server drops

ASSUME TransformAssumption ==
  /\ {BatchSize, InFlight, RowsPerInsert} \subseteq Nat \ {0}
  /\ MaxDrops \in Nat
  /\ Nothing \notin Nat \cup Runs
  /\ \A w \in Worlds :
       /\ w.document \in [Runs -> Seq([heading : {<<>>} \cup Texts, paragraphs : Seq(Texts)])]
       /\ w.strategy \in [Runs -> [name : {"auto", "size", "sections"}, size : Nat \ {0}, overlap : Nat]]

VARIABLES
  world,
  pc,         \* [Runs -> where the run is]
  chunks,     \* RunContext.pending
  vectors,    \* CachingEmbedder.embed_batch: vectors
  missing,    \* ... and missing
  replies,    \* what became of each batch of the missing ones
  cached,     \* the cache file: <<key, vector>> pairs
  shelf,      \* the runs that have it open
  item,       \* how many chunks are written
  table,      \* the runs that have made sure of the table
  have,       \* the connection a run writes over
  connection, \* _connection of the index
  lock,       \* who holds _connection_lock
  opened,     \* connections that work
  noticed,    \* connections known not to
  made,       \* connections ever made
  dimensions, \* PgVectorIndex._dimensions
  rows        \* <<place, run, text, vector>>

embedding == <<chunks, vectors, missing, replies, cached, shelf>>
store == <<table, have, connection, lock, opened, noticed, made, dimensions>>
vars == <<world, pc, embedding, item, store, rows>>

(* ------------------------------- embedding ------------------------------ *)

\* Mutant of CacheKey: vectors of one model pass for those of another.
CacheKeyOfText(model, text) == text
CacheKey(model, text) == <<model, text>>
VectorOf(t, text) == <<world.model[t], text>>

KeyOf(t, i) == CacheKey(world.model[t], chunks[t][i])
Known(t, i) == {e[2] : e \in {e \in cached : e[1] = KeyOf(t, i)}}

Ceil(n, d) == (n + d - 1) \div d
Batch(t, b) == SubSeq(missing[t], (b - 1) * BatchSize + 1, Min({b * BatchSize, Len(missing[t])}))
NoReplies(count) == [b \in 1..Ceil(count, BatchSize) |-> Queued]

\* The members of a set of numbers, the least first.
Ascending(S) == CHOOSE s \in SetToSeqs(S) : \A i, j \in DOMAIN s : i < j => s[i] < s[j]

Init ==
  /\ world \in Worlds
  /\ pc = [t \in Runs |-> "chunk"]
  /\ chunks = [t \in Runs |-> <<>>] /\ vectors = chunks /\ missing = chunks /\ replies = chunks
  /\ cached = {} /\ shelf = {}
  /\ item = [t \in Runs |-> 0] /\ table = {} /\ have = [t \in Runs |-> Nothing]
  /\ connection = Nothing /\ lock = Nothing /\ opened = {} /\ noticed = {} /\ made = 0
  /\ dimensions = Nothing /\ rows = {}

Goto(t, there) == pc' = [pc EXCEPT ![t] = there]

\* ExtractStage.  Without an index, or without a chunk, the run is over.
ChunkStep(t) ==
  /\ pc[t] = "chunk"
  /\ chunks' = [chunks EXCEPT ![t] = ChunksOf(world.document[t], world.strategy[t])]
  /\ Goto(t, IF world.index = "none" \/ chunks'[t] = <<>> THEN "done" ELSE "lookup")
  /\ UNCHANGED <<world, vectors, missing, replies, cached, shelf, item, store, rows>>

\* The cache is looked up for every chunk, without a pause.  A cache file
\* that is open elsewhere may refuse to be opened.
Lookup(t) ==
  /\ pc[t] = "lookup"
  /\ IF world.cache = "file" /\ world.exclusive /\ shelf # {}
       THEN Goto(t, "failed") /\ UNCHANGED embedding
       ELSE LET found(i) == IF world.cache = "file" THEN Known(t, i) ELSE {}
                misses == Ascending({i \in DOMAIN chunks[t] : found(i) = {}})
            IN /\ vectors' = [vectors EXCEPT ![t] =
                    [i \in DOMAIN chunks[t] |-> IF found(i) = {} THEN Nothing ELSE CHOOSE v \in found(i) : TRUE]]
               /\ missing' = [missing EXCEPT ![t] = misses]
               /\ replies' = [replies EXCEPT ![t] = NoReplies(Len(misses))]
               /\ shelf' = IF world.cache = "file" /\ misses # <<>> THEN shelf \cup {t} ELSE shelf
               /\ Goto(t, IF misses = <<>> THEN "write" ELSE "embed")
               /\ UNCHANGED <<chunks, cached>>
  /\ UNCHANGED <<world, item, store, rows>>

\* One request of ApiEmbedder: those in flight hold the semaphore.
Send(t, b) ==
  /\ pc[t] = "embed"
  /\ replies[t][b] = Queued /\ \A a \in 1..(b - 1) : replies[t][a] # Queued
  /\ Cardinality({a \in DOMAIN replies[t] : replies[t][a] = Sent}) < InFlight
  /\ replies' = [replies EXCEPT ![t][b] = Sent]
  /\ UNCHANGED <<world, pc, chunks, vectors, missing, cached, shelf, item, store, rows>>

\* The entries come in any order, each with the index of its input.
Sorted(entries) ==
  LET order == Ascending({entries[k].index : k \in DOMAIN entries})
  IN [k \in DOMAIN entries |-> (CHOOSE e \in ToSet(entries) : e.index = order[k]).embedding]

Reply(t, b) ==
  /\ pc[t] = "embed" /\ replies[t][b] = Sent
  /\ LET n == Len(Batch(t, b)) IN
     \E order \in SetToSeqs(1..n), lost \in IF world.service = "short" THEN {0, 1} ELSE {0} :
       LET entries == [k \in 1..(n - lost) |->
                         [index |-> order[k], embedding |-> VectorOf(t, chunks[t][Batch(t, b)[order[k]]])]]
       IN replies' = [replies EXCEPT ![t][b] = Sorted(entries)]
  /\ UNCHANGED <<world, pc, chunks, vectors, missing, cached, shelf, item, store, rows>>

\* A request fails for good: so does the stage, which closes the cache.
EmbedFails(t) ==
  /\ pc[t] = "embed"
  /\ \E b \in DOMAIN replies[t] : replies[t][b] = Sent
  /\ Goto(t, "failed")
  /\ shelf' = shelf \ {t}
  /\ replies' = [replies EXCEPT ![t] = <<>>]
  /\ UNCHANGED <<world, chunks, vectors, missing, cached, item, store, rows>>

\* gather returns: the vectors go to their places one by one, each into the
\* cache too, until one side is used up.  The lengths are compared then.
Gather(t) ==
  /\ pc[t] = "embed"
  /\ \A b \in DOMAIN replies[t] : replies[t][b] \notin {Queued, Sent}
  /\ LET computed == FlattenSeq(replies[t])
         places == missing[t]
         paired == 1..Min({Len(computed), Len(places)})
     IN /\ vectors' = [vectors EXCEPT ![t] =
             [i \in DOMAIN @ |-> IF \E k \in paired : places[k] = i
                                   THEN computed[CHOOSE k \in paired : places[k] = i] ELSE @[i]]]
        /\ cached' = IF world.cache # "file" THEN cached
                     ELSE LET keys == {KeyOf(t, places[k]) : k \in paired}
                              last(key) == Max({k \in paired : KeyOf(t, places[k]) = key})
                          IN {e \in cached : e[1] \notin keys} \cup {<<key, computed[last(key)]>> : key \in keys}
        /\ Goto(t, IF Len(computed) = Len(places) THEN "write" ELSE "failed")
  /\ shelf' = shelf \ {t}
  /\ replies' = [replies EXCEPT ![t] = <<>>]
  /\ UNCHANGED <<world, chunks, missing, item, store, rows>>

(* -------------------------- the SQLite connection ----------------------- *)

\* Mutant of Place: rows are seen by the connection that wrote them only.
PlaceUncommitted(c) == c
\* Where a row goes that is committed over c.
Place(c) == IF world.index = "memory" THEN c ELSE world.index

Row(t, i) == <<Place(have[t]), t, chunks[t][i], vectors[t][i]>>

Sqlite == world.index \in {"file", "memory"}

\* _get_connection in a thread of its own, before the lock.
Check(t) ==
  /\ Sqlite /\ pc[t] = "write"
  /\ Goto(t, IF connection = Nothing THEN "connect" ELSE "use")
  /\ UNCHANGED <<world, embedding, item, store, rows>>

Connect(t) ==
  /\ Sqlite /\ pc[t] = "connect"
  /\ made' = made + 1 /\ connection' = made' /\ opened' = opened \cup {made'}
  /\ Goto(t, "use")
  /\ UNCHANGED <<world, embedding, item, table, have, lock, noticed, dimensions, rows>>

Use(t) ==
  /\ Sqlite /\ pc[t] = "use"
  /\ have' = [have EXCEPT ![t] = connection]
  /\ Goto(t, "execute")
  /\ UNCHANGED <<world, embedding, item, table, connection, lock, opened, noticed, made, dimensions, rows>>

\* The statement and its commit, under the lock of the index.
Write(t) ==
  /\ Sqlite /\ pc[t] = "execute"
  /\ item' = [item EXCEPT ![t] = @ + 1]
  /\ rows' = rows \cup {Row(t, item'[t])}
  /\ Goto(t, IF item'[t] = Len(chunks[t]) THEN "done" ELSE "write")
  /\ UNCHANGED <<world, embedding, store>>

(* ------------------------ the PostgreSQL connection --------------------- *)

Pg == world.index = "pgvector"

\* _ensure_table fixes the dimensions, even if the table is never made.
EnsureTable(t) ==
  /\ Pg /\ pc[t] = "write"
  /\ LET d == Dimensions[world.model[t]] IN
     IF dimensions \in {Nothing, d}
       THEN dimensions' = d /\ Goto(t, "acquire")
       ELSE UNCHANGED dimensions /\ Goto(t, "failed")
  /\ UNCHANGED <<world, embedding, item, table, have, connection, lock, opened, noticed, made, rows>>

\* Mutant of Acquire: without the lock.
AcquireUnlocked(t) ==
  /\ Pg /\ pc[t] = "acquire"
  /\ IF connection = Nothing \/ connection \in noticed
       THEN Goto(t, "connecting") /\ UNCHANGED <<lock, have>>
       ELSE Goto(t, "execute") /\ have' = [have EXCEPT ![t] = connection] /\ UNCHANGED lock
  /\ UNCHANGED <<world, embedding, item, table, connection, opened, noticed, made, dimensions, rows>>

\* _get_connection: the connection is made while the lock is held.
Acquire(t) ==
  /\ Pg /\ pc[t] = "acquire" /\ lock = Nothing
  /\ IF connection = Nothing \/ connection \in noticed
       THEN Goto(t, "connecting") /\ lock' = t /\ UNCHANGED have
       ELSE Goto(t, "execute") /\ have' = [have EXCEPT ![t] = connection] /\ UNCHANGED lock
  /\ UNCHANGED <<world, embedding, item, table, connection, opened, noticed, made, dimensions, rows>>

Connected(t) ==
  /\ Pg /\ pc[t] = "connecting"
  /\ lock' = Nothing
  /\ \/ /\ made' = made + 1 /\ connection' = made' /\ opened' = opened \cup {made'}
        /\ have' = [have EXCEPT ![t] = made']
        /\ Goto(t, "execute")
     \/ Goto(t, "failed") /\ UNCHANGED <<made, connection, opened, have>>
  /\ UNCHANGED <<world, embedding, item, table, noticed, dimensions, rows>>

\* PostgreSQL refuses ON CONFLICT DO UPDATE for a row that a statement has twice.
Repeats(t, from, to) == \E i, j \in (from + 1)..to : i # j /\ chunks[t][i] = chunks[t][j]

\* The table first, then a statement for every RowsPerInsert chunks.  On a
\* connection that was dropped the statement fails and the run with it.
Execute(t) ==
  /\ Pg /\ pc[t] = "execute"
  /\ IF have[t] \notin opened
       THEN Goto(t, "failed") /\ noticed' = noticed \cup {have[t]} /\ UNCHANGED <<table, item, rows>>
     ELSE IF t \notin table
       THEN Goto(t, "acquire") /\ table' = table \cup {t} /\ UNCHANGED <<noticed, item, rows>>
     ELSE LET last == Min({item[t] + RowsPerInsert, Len(chunks[t])}) IN
          IF Repeats(t, item[t], last)
            THEN Goto(t, "failed") /\ UNCHANGED <<noticed, table, item, rows>>
          ELSE /\ rows' = rows \cup {Row(t, i) : i \in (item[t] + 1)..last}
               /\ item' = [item EXCEPT ![t] = last]
               /\ Goto(t, IF last = Len(chunks[t]) THEN "done" ELSE "execute")
               /\ UNCHANGED <<noticed, table>>
  /\ UNCHANGED <<world, embedding, have, connection, lock, opened, made, dimensions>>

\* The server drops the connection: nobody knows until a statement fails.
Drop ==
  /\ Pg /\ opened # {} /\ \E t \in Runs : pc[t] \notin {"done", "failed"}
  /\ made - Cardinality(opened) < MaxDrops
  /\ \E c \in opened : opened' = opened \ {c}
  /\ UNCHANGED <<world, pc, embedding, item, table, have, connection, lock, noticed, made, dimensions, rows>>

(* ------------------------------- the whole ------------------------------ *)

Over == \A t \in Runs : pc[t] \in {"done", "failed"}

\* aclose of PgVectorIndex, by the owner of the index.
Close ==
  /\ Pg /\ Over /\ connection # Nothing
  /\ opened' = opened \ {connection} /\ connection' = Nothing
  /\ UNCHANGED <<world, pc, embedding, item, table, have, lock, noticed, made, dimensions, rows>>

Ended == Over /\ (Pg => connection = Nothing) /\ UNCHANGED vars

Next ==
  \/ \E t \in Runs :
       \/ ChunkStep(t) \/ Lookup(t) \/ EmbedFails(t) \/ Gather(t)
       \/ \E b \in DOMAIN replies[t] : Send(t, b) \/ Reply(t, b)
       \/ Check(t) \/ Connect(t) \/ Use(t) \/ Write(t)
       \/ EnsureTable(t) \/ Acquire(t) \/ Connected(t) \/ Execute(t)
  \/ Drop
  \/ Close
  \/ Ended

Spec == Init /\ [][Next]_vars

(* ------------------------------ properties ------------------------------ *)

Stops == {"chunk", "lookup", "embed", "write", "connect", "use", "execute", "acquire", "connecting",
          "done", "failed"}

TypeOK ==
  /\ pc \in [Runs -> Stops]
  /\ shelf \subseteq Runs /\ table \subseteq Runs
  /\ lock \in Runs \cup {Nothing}
  /\ connection \in (1..made) \cup {Nothing}
  /\ have \in [Runs -> (1..made) \cup {Nothing}]
  /\ opened \subseteq 1..made /\ noticed \subseteq (1..made) \cup {Nothing}
  /\ made \in Nat

\* Every character of a document is in one of its chunks, wherever budgets,
\* overlaps and blanks fall, and a chunk that carries something over exceeds
\* its budget by no more than that (chunk/auto.py:58-106, chunk/size.py:41-65,
\* chunk/sections.py:25-47).
ChunksComplete ==
  \A t \in Runs : pc[t] # "chunk" =>
    /\ Covers(chunks[t], world.document[t])
    /\ world.strategy[t].overlap > 0 => WithinBudget(chunks[t], world.document[t], world.strategy[t])

\* Chunks are "token-budgeted" with `overlap` tokens carried between them
\* (chunk/auto.py:19-23), also when the overlap is 0.
OverlapBounded ==
  \A t \in Runs : WithinBudget(chunks[t], world.document[t], world.strategy[t])

\* A row has the vector of its own text by its own model, through cache
\* hits, batches answered out of order, texts that occur twice and a cache
\* file that pipelines of different models share (embed/cache.py:107-113),
\* as long as the service answers for every input.
VectorsFollow ==
  world.service = "whole" => \A r \in rows : r[4] = VectorOf(r[2], r[3])

\* When a run has succeeded its chunks are found over the index's connection,
\* although a SqliteIndex may have been given two connections by two threads
\* (index/sqlite.py:61-64) and PostgreSQL may have dropped one.
StoredFound ==
  world.index \in {"file", "pgvector"} =>
    \A t \in Runs : pc[t] = "done" =>
      \A i \in DOMAIN chunks[t] :
        \E r \in rows : r[1] = Place(connection) /\ r[2] = t /\ r[3] = chunks[t][i]

\* A PgVectorIndex has one connection at a time however many runs share it,
\* and none after aclose (index/pgvector.py:84-96).
OneConnection ==
  /\ Pg => Cardinality(opened) <= 1
  /\ Pg /\ connection = Nothing /\ Over => opened = {}
=============================================================================
