# A TLA+ model of alvis

alvis ingests documents from sources (files, GitHub, Confluence, ...), splits
and embeds them, keeps an index equal to what the sources hold, and answers
questions over it. This directory models both directions: the connectors, the
pipeline engine and its incremental state, chunking, embedding and its cache,
the protocols of the indexes, the schedulers that run many pipelines again and
again; and queries, answers, chats and evaluations, down to the clients they
open and close; and the start of a process, with its plugins, environment and
configurations. TLC checks small instances; TLAPS proves every safety property
the runs check for every value of the constants. `PROJECT.json` maps every definition to its lines.

## The system

| component | state it keeps | operations | interacts with |
|---|---|---|---|
| engine, stages (`pipeline/`) | a `RunContext` per run: artifacts, entries, pending chunks, hashes | `run`: fetch, extract, embed, upsert, reconcile, commit; close; record | calls source, embedder, index; reads and writes the DocStore |
| DocStore (`docstore.py`) | `.alvis/state.json`: per source a signature, an entry per document, the last runs | `entry`, `commit`, `record_run`, `save`, load | one object per run, one file for all pipelines |
| schedulers (`pipeline/runner.py`, `cli/_run.py`) | semaphore, tick | `run_many_async`, `watch_async`, `alvis run [--watch]` | start engines as tasks of one event loop |
| sources (`sources/`) | tokens, a cached listing | `list_documents`, `fetch` | HTTP client, remote services that change all the time |
| HTTP client, `gather_bounded` | the connection pool, a semaphore per fetch | `request` with retries, `aclose` | every source, the HTTP indexes, the API embedder |
| chunkers (`chunk/`) | none | text to overlapping chunks within a budget | the engine |
| embedders, embedding cache (`embed/`) | vectors by model and text hash, in one `shelve` file | `embed_batch`, `get`, `set`, `close` | an embeddings service, in batches under a semaphore |
| indexes (`index/`) | points keyed by `point_id(uri, text)` with source, hash; a connection | `upsert`, `upsert_batch`, `reconcile`, `search`, `keyword_search` | a collection shared by pipelines and by readers |
| retrieval (`index/fusion.py`, `rerank.py`, `answer.py`, `pipeline/runner.py`) | clients opened by a call | `query_async`, `answer_async`, `evaluate_async` | embedder, index, reranking and answering models |
| plugins, factories (`plugin.py`, `registry.py`, `factories.py`) | types and their constructors | `discover`, `load_local`, `install`; `build_*` | entry points, files; the engine |
| configuration, environment (`config/`, `env.py`, `secrets.py`) | the resolver, `os.environ` | `load_dotenv`, `load_config`, `missing_env`, `resolve` | the command line |
| extractors, DSL, observability, test support | none that decides anything | parsing, building objects, counting | users |

What is hard about it, and what correctness means:

* *Two stores without a transaction.* The index is written before the state
  file. A run can fail or be killed between any two requests, and the next run
  decides by the state file what it need not look at. Correct: skipping is
  sound, reconcile is exact, and runs that keep succeeding heal everything.
* *A source that changes during the run.* A listing and the download that
  follows it see different revisions; so do two pages of one listing. Correct:
  what was there all the time is listed and delivered, once.
* *Tokens that lapse* while many coroutines use them and retries wait.
* *One file, many pipelines.* Each run loads the whole state and later writes
  its whole copy, after failures too. Correct: each source has its own ledger.
* *Soft failures and slots.* A failure of one pipeline must neither stop the
  others nor keep the slot of the semaphore.
* *Exceptions in a gather.* Tasks go on after the failure was handed on and
  after their client was closed.
* *A shared collection.* Several runs create it, page through it, and delete in
  it. Answers get lost, requests are repeated.
* *From text to row through shared stores.* Overlaps and budgets at their
  boundaries; batches answered in any order, paired again by position; a cache
  file that pipelines of different models share; a connection threads race for,
  or that the server drops. Correct: no text is lost, and each row has the
  vector of its own text.
* *Questions with partial failures.* Any request of a query, a chat or an
  evaluation may fail; a model may send back anything. Correct: what was opened
  is closed and what was borrowed is not, no document is shown to who may not
  see it, in any of five query languages, and no result is lost.
* *Plugins that break half way*, and an environment put together from a shell, a
  file and a secrets backend before anything is checked.

The hazards in `PROJECT.json` list these at their lines, each with the
properties that would catch it going wrong; those without one carry a note.

## Modules

| module | what it is |
|---|---|
| `Ingest` | one pipeline: every stage of a run, over a source that is edited meanwhile |
| `IngestProofs`, `MCIngest` | its inductive invariant and theorems; its instances: revisions of a page that share a chunk |
| `Ledger` | abstract: a committed entry and a bounded history per source |
| `Watch` | many pipelines, semaphore, ticks, one state file; refines `Ledger` |
| `WatchProofs`, `MCWatch` | its proofs; the error classes each stage lets out and each scheduler catches |
| `Fanout`, `FanoutProofs` | `gather_bounded` over one `HttpClient`; its proofs |
| `Remote` | the services: documents that come, change, move and go, and pages of them |
| `AccessToken` | the token of the Microsoft and the Google connector |
| `Connectors`, `MCConnectors` | every connector over `Remote`; refines `AccessToken` |
| `ConnectorsProofs` | proofs about pages, listings and downloads, and about the token |
| `Chunking` | the three chunking strategies as functions |
| `Transform`, `TransformProofs`, `MCTransform` | chunks, vectors, the cache file, rows and connections of several pipelines; proofs about all of these, from the characters of a text to its row |
| `SourcePoints` | abstract: what an index promises a pipeline, per source |
| `SharedIndex`, `SharedIndexProofs`, `MCSharedIndex` | collections written by several pipelines, request by request; refines `SourcePoints` |
| `Retrieval` | filters, visibility, searches of the five indexes, fusion, reranking, as operators |
| `Session`, `MCSession` | query, answer, chat, evaluation, status, and a program that brings its own index |
| `SessionProofs` | proofs about `Retrieval` and `Session` |
| `Startup`, `StartupProofs`, `MCStartup` | a process of the command line up to its engines |

An action is what the code does between two awaits, or one request. Mutants of
a definition (an operator that stands before it, said to be its mutant) are the
bugs each property was tested against; no specification uses them.

### Ingest and the code

| model | code |
|---|---|
| `src`, `Edit` | the remote documents; `Gone` also stands for "too large" |
| `settings`, `target`, `Reconfigure` | what `pipeline_signature` hashes; the index of the configuration, which it does not hash |
| `canList` | whether the connector implements `list_documents` |
| `file` | this source's part of the state file |
| `index` | points of the source, `[uri, text] -> hash, settings` |
| `listed`, `fetched`, `entries`, `pending` | `RunContext` |
| `StartRun(inc)` | `_build_context`, with a DocStore or without |
| `ListDoc`, `ListDone`, `FetchDoc` | `FetchStage`, document by document |
| `Extract` | `ExtractStage` and `EmbedStage`, which await nothing another task can see |
| `Upsert`, `Prune`, `ReconcileDone`, `Commit` | the stages of those names |
| `Abort` | any exception, cancellation or kill |

A body stands for its hash, a fingerprint is a function of the body, extraction
and chunking are `Chunks[settings][body]`. `torn` is a history variable: the
documents whose points a run changed without committing.

### Watch and the code

The stages of a run are merged to fetch, index, commit and closing, the points
at which runs of different pipelines can interleave; what a source holds, what
was committed for it and what its points show are one value each. `store[p]` is
the copy of the state file a run loads when it gets the semaphore (`Acquire`)
and writes at `CommitSave` and `Record`. `Raise(p, e)` is an exception of class
`e`, `Cap` is `--parallel` or `max_parallel`; zero, which the code takes for no
limit, is a `Cap` of `N`.

### Fanout and the code

A task is a coroutine of `gather_bounded`; `using` is the client that
`HttpClient.request` takes before its retry loop and keeps; pools are numbered
as they are opened. The engine's `CloseBegin` and `CloseEnd` are the two sides
of `await self._async_client.aclose()`, which may raise when requests are under
way, and is then logged and forgotten by `aclose_quietly`.

### Connectors, Remote, AccessToken and the code

`phase` goes from `list_documents` ("list", and "probe" for the connectors that
look at each file or page) over the engine's choice (`Choose`) to `fetch`, which
lists again ("relist") and downloads. One action is one page: the page functions
(`ListSpacePages`, `Search`, `IterTree`, `Delta`, ...) bear the names of the
connectors' loops and say what the service returns at a cursor and where the
loop goes on; `ByGlobs`, `GdriveWanted` and their like are the filters;
`JiraFetch`, `GitlabFetch` and their like say what a download makes of a document
that has changed, gone or grown since. `GitlabFetch` asks by blob hash, so what
it gets is what was listed; `ProviderFetch` answers from the list it kept.
A SharePoint download is two requests: `SharepointDetail` asks Graph, with a
token, for the URL of the content, and drops a file in silence for which there is
none (`sharepoint.py:141`); `located` are the files whose URL is known, and
`Download` asks that URL, without a token and without a retry. The contents API
of GitHub may leave out the body of a large file; `GithubFetch` then delivers an
empty one (`github.py:105`), at revision `Empty`. `Meta[d].body` says whether
there is a body, or a URL, to be had.
`touched` and `removed` are history variables of the service.

In `AccessToken` a task is one coroutine with one request under way. `age`
stands for the clock: `good` until `_token_expiry`, `margin` for the minute
after it, `expired` later. `Ensure` and `Granted` are `_ensure_token` on both
sides of its await; `Resend` is a retry, which sets the header hook's token and
does not check it again.

### Chunking, Transform and the code

A text is a sequence of characters: positive numbers that are unique in a
document, so that a chunk tells where it comes from, and blanks. `SplitByChars`,
`SplitText` and `HardSplit` are `chunk/size.py` and `chunk/auto.py`, with their
arithmetic.

`Lookup` is `CachingEmbedder.embed_batch` up to its await, `Send` and `Reply` a
batch of `ApiEmbedder` under its semaphore, `Gather` what pairs the vectors
with their texts and writes the cache. `have` is the connection a call holds:
`Check`, `Connect` and `Use` are the three steps of a thread through
`SqliteIndex._get_connection`, `Acquire` and `Connected` those of
`PgVectorIndex._get_connection`, where only the second is under way while the
lock is held. `Drop` is the server; `noticed` is what psycopg calls `closed`.

### SharedIndex and the code

`Ensure` and `Create` are `_ensure_collection`, `_ensure_index` and
`_ensure_table`; `Write` is a batch of `upsert_batch`, or one `upsert` of
Elasticsearch; `Scan` is a page of reconcile; `Delete` and `DeleteWhere` its
deletions. `Lost` is a request that was carried out and whose answer never
came; `HttpClient` repeats it, so every write has to be idempotent.

The servers are external, and two of them answer before everything is done.
Qdrant is asked to wait for an upsert (`qdrant.py:124-129`) and not for a
deletion (`qdrant.py:199-203`): what it has accepted is `doomed` until `Apply`
carries it out, in this run or a later one, in whole or in part, and an upsert
of the same point that comes after it ends it, since Qdrant works in the order
it is asked. `Settled` is what is stored once nothing is doomed any more.
Elasticsearch searches what was stored at its latest refresh, `view`; the code
never asks for one, so `Refresh` is taken at any time or never. `misread` is a
history variable: the keys of which a page of this run showed this source
something else than was there. A Qdrant collection that exists already may be
created again (that is what the comment at `elasticsearch.py:185` relies on; a
server that refuses is `Fail`). `SourcePoints` promises nothing of the `blurred`
points of a run, those that were misread, until the source's next run.

### Retrieval, Session and the code

`Candidates` is each index's own way to say which points pass the metadata
filter and the principals (a Python test, SQL over JSON, two query languages),
`KeywordOf` its own keyword search; `Search` and `Fuse` sort by rank. A
similarity is a number that differs from point to point, and of BM25 only the
sign of a score is kept: points that score may come in any order. The filter is
not one clause in five forms. Memory and SQLite compare texts, so a number passes
for its digits (`MatchesText`); pgvector and Qdrant compare types too
(`MatchesExactly`); Elasticsearch's `term` (`MatchesTerm`) asks for a term of the
value, and the mapping at `elasticsearch.py:163-183` does not declare the
metadata, so the server analyses them as text: `Tokens[p]` are the terms it makes
of a value, in lower case, one for each word.

`Session` is one invocation. `open` are the clients that hold a connection,
`closed` those whose `aclose` has run. `Embed`, `Dense` and `Keyword` are the
awaits of `query_async`, `Fail` the way into its `finally`; then come the
reranking model, which may answer with any numbers, the answering model and the
judge, and the loops of chat and eval around them.

### Startup and the code

A world is what a process finds: entry points, plugin files, a shell, a .env
file, secrets, configurations. `Main` is `configure_from_env`, then `Options`,
`Discover`, `LoadFile` and `InstallAttribute`, `LoadEnvFile`, `Serve` and `Load`
in the order of the commands. `Registered` is what of a plugin is in the registry
when `install` stops at a clash. `Problems` is what `registry.py` accepts,
`Implemented` what `factories.py` builds. An exception that no command catches
ends the process with code 1, as a refusal does.

## Runs

| run | module | what it shows |
|---|---|---|
| `ingest_safety` | MCIngest | `CommittedIndexed`, `NoOrphans`, `Published`: skipping is sound, reconcile exact |
| `ingest_heals` | MCIngest | `Heals`: two documents, fairness |
| `watch_serial` | MCWatch | one slot: `Implements`, `StateMatchesIndex`, `EveryPipelineRuns`, `Settles` |
| `fanout` | Fanout | `Bounded`, `OnePool`, `Ends` |
| `connectors` | MCConnectors | `NoneMissed`, `NoneTwice`, `FetchComplete`, `Paired`; the token: `RefusedOnlyOnRetry`, `OneTokenPerLife`, `TokenProtocol`; `RunEnds` |
| `transform` | MCTransform | `ChunksComplete`, `VectorsFollow`, `StoredFound`, `OneConnection` |
| `shared_index` | MCSharedIndex | `Exact`, `Isolated`, `RunsEnd` |
| `session` | MCSession | `AllClosed`, `OnlyOwnClosed`, `NothingInvisible`, `NoHitLost`, `HistoryFollows`, `ReportComplete` |
| `startup` | MCStartup | `ListedIsWhole`, `NoReferenceUnset`, `AcceptedIsBuilt` |
| `ingest_lost_document` | MCIngest | finding: a reverted edit after a crash loses a document |
| `watch_rollback` | MCWatch | finding: a failing run undoes another's commit |
| `chunk_overlap` | MCTransform | finding: without an overlap everything is carried over |

**Bounds.**

* `ingest_safety`: one document, two bodies that share a chunk (so that an
  upsert overwrites and a reconcile must spare), two settings, an index or none,
  both kinds of connectors and runs, any edit at any moment. Documents do not
  influence each other but through the sets a run builds, which `ingest_heals`
  covers with two.
* `watch_serial`: two pipelines, two versions, two records; with one slot a
  third pipeline only waits as the second does.
* `fanout`: four documents for two slots, so that some wait, some sleep and some
  are in flight when one fails; one retry is the bound and one more than it.
* `connectors`: five documents, two to a page (`PageLimit`), of which three are
  there at first, so that there is a full last page, a short one and a page in
  between, and documents come as well as go; 22 configurations, every connector,
  and one more for a run without a state over the whole page tree of five
  (`Worlds`), where a page can move with what is below it; `MaxEvents` edits and
  lapses of the token in one run, at any two moments, of which `MaxEdits` and
  `MaxLapses` bound each kind: two are needed for a document that moves over a
  page boundary and back, and for a token that passes the margin and expires.
  `Choose` takes all that was listed or one document. Of two documents, one there
  at first and one not, GitHub and SharePoint withhold the body. `TreeLimit` is four entries,
  so the tree of GitHub is cut short where two documents come.
* `transform`: every document of four words of 1, 3 or 6 characters with every
  arrangement of spaces and blank lines, with a heading or without (1 296), by
  28 strategies with overlaps from nothing to beyond the cap, which the boundaries of
  budgets of 1 to 8 characters need; and worlds of two pipelines that share a
  chunk and one of which has it twice, batches of two, two `InFlight`,
  `RowsPerInsert` of two, one dropped connection (`MaxDrops`; a second would be
  met in the same state as the first).
* `shared_index`: three keys of two documents, the key of the one between those of
  the other; two bodies that share a chunk, so that an edit has points to keep, to
  overwrite and to prune; pages of one (every page is exactly full), batches of
  two; deletions carried out and refreshes at any moment.
* `session`: four points of two documents, with the acls absent, empty and two
  groups, and the values "7" as a text and as a number, "ENG" and "ENG 7", under
  no filter, "7" and "ENG"; two questions a chat (`MaxTurns`), for a turn that fails before and
  after one that does not; `Pool`, the candidates Qdrant scores, is two, so that
  it is smaller than what matches; `CandidateFactor` is two for twenty in the
  code, so that a search is cut both before and after fusion.
* `startup`: 824 worlds: three plugins, two of which clash over a type that the
  third shares, in every place a plugin can be met; every kind of setting of three
  variables in a shell and a .env file; every validator's refusal.

**Fairness.** The engine never waits for an event of another task other than
the semaphore, every request has a timeout and every sleep ends, and asyncio
runs what is ready. So a run's steps, the scheduler's ticks, a connector's pages
and downloads (`Work`) and the server's answers are weakly fair; failures, edits,
kills and restarts are not. `Heals` assumes in its formula that runs keep
succeeding, and its instance that no edit brings an old body back. `Settles`
assumes that edits and failures stop. `RunEnds` assumes nothing more: edits are
bounded, as a service that changes faster than it is listed need never end.

**Deadlock** is not checked for `Fanout`, `Connectors` and `Session`, which end.

## What is proved

All for every value of the constants, by TLAPS: each invariant, action property
and refinement that a passing run checks is the statement of a theorem.

* `Ingest`: `TypeCorrect`, `SkippingSound` (`CommittedIndexed`),
  `ReconcileExact` (`NoOrphans`), `CommitAfterPublish` (`Published`). None of
  them is inductive. `IInv` adds: `Tagged`, `Gathering` and `Decided`, which
  say what the run's sets hold in each stage (in particular that a skipped
  document's entry is the stored one, at its stored hash); `Writing`, that what
  is no longer pending is in the index; `HasIndex`, that the writing stages are
  reached with an index only; `HonestPoints`, that the text of a point is a
  chunk of the body whose hash it carries. With these a skipped document is one
  whose points reconcile spares, and a written one overwrites what it shares
  with the old body before reconcile looks. Assumed: `IngestAssumption`, that
  is, a deterministic extractor and chunker and hashes that do not collide.
* `Watch`: `WatchTypeCorrect` at any degree of parallelism; for one pipeline at
  a time and a state file that can be written (`Serial`),
  `SerialStateMatchesIndex` and `SerialLedger`, the refinement of `Ledger`.
  `SInv` says that at most one task is inside, that its copy of the state is
  the file, and that its copy agrees with its index unless it is about to
  publish. With two slots the refinement fails, which is what `watch_rollback`
  shows, and so does `Settles`. With `Raises["commit"]` not empty, the record
  of a failed commit saves the entry that the commit could not save.
* `Fanout`: `FanoutTypeCorrect`, `FanoutOnePool`, `FanoutBounded`. `PoolInv`
  and `GatherInv` say that a second pool is only opened after the close, by
  what a failure left behind, and that a gather that returned left nothing
  behind.
* `SharedIndex`: `SharedExact` and `SharedIsolated`, the refinement of
  `SourcePoints`, for any number of sources and keys and any sizes of batches
  and pages, with answers lost, requests repeated and refused, deletions carried
  out late and searches of any age; and `SharedExactEverywhere`, that with Qdrant
  and pgvector there is no exception for misread keys. Assumed: `Separate`, that
  no two sources deliver the same document (both fail otherwise, see below).
  `Exact` is not inductive: other sources write, the server deletes and refreshes
  between the pages of a reconcile. `SharedInv` adds `Honest`, that a point, now
  or at the latest refresh, is a chunk of the body it names and of a document its
  source delivers (so no step of one source touches a point of another);
  `Housed`, that points are in a collection that exists; `Written`, that what a
  run wants and is no longer pending is there; and `Noted`, that what is noted
  as stale is none of what the run wants, and that what is outdated and lies up
  to the cursor is noted, each but for misread keys. The lemmas `PageIsFirst`, `LastPageIsRest` and
  `NextPage` say that paging by a least or a greatest key steps over no point,
  whatever the size of a page.
* `Connectors` and `AccessToken`: `ConnectorTypes`; `KeepsTokenProtocol`, the
  refinement of `AccessToken`; `TokenFresh` (`RefusedOnlyOnRetry`) and
  `TokenOnce` (`OneTokenPerLife`), of the protocol and of the connectors that
  keep to it; `DeliversWhatWasListed` (`Paired`), `ListsNothingTwice`
  (`NoneTwice`), `MissesNothing` (`NoneMissed`), `DeliversWhatIsThere`
  (`FetchComplete`); for any documents and trees, any size of a page and any
  number of edits, slots and projects. `TInv` ties the number of tokens asked
  for to the number that left their time and those refused, and says that who
  waits for the token host is who holds the lock. `Basis` is types, `Dated` (no
  two documents changed last at the same time) and `Control` (what each phase
  leaves unset). `Distinct` says that what is listed lies before the cursor, or
  among the ids met. The heart is `Reached`: of what was there and unchanged
  and lies behind the cursor (`Behind`, which differs with the kind of
  listing), no more is `Lost` than what `Slack` allows, one per removal by
  offset and none otherwise. A page keeps it because it holds all that lies
  between two cursors (`OffsetPage`, `SearchPage`, `TreePage`, `ResumedPage`).
  An edit keeps it because a change moves no unchanged document forward over
  the cursor (`LostByWrite`; by `Dated` what changes comes first in a search of
  Jira), and a removal at most one (`NoneShifts`, `OneShifts`,
  `LostByRemoval`). A walk of a tree has listed the page right above whatever
  it has lost, hence `Topmost`. `Resolving` says the same of the projects of a
  GitLab group, which do not change, and `Fetched` that what was listed and is
  wanted stays to be downloaded until it is delivered, withheld or too big.
  Assumed:
  `RemoteAssumption` (documents have a strict order, and at first a parent
  each), `ConnectorAssumption` (a world begins with whole trees),
  `TokenAssumption`.
* `Transform`: `NothingLost` (`ChunksComplete`), `VectorsRight`
  (`VectorsFollow`), `StoredIsFound` (`StoredFound`), `SharedConnection`
  (`OneConnection`), for any documents, strategies, batches and caches and any
  number of pipelines. The chunkers are recursive functions. That the function
  a definition chooses exists is shown by building it up to its last argument
  (`Recursion`), and what it computes by looking at the first argument where
  that fails, so that no induction theorem is needed: each strategy says what
  the text says (`Ink`), character by character, and keeps to its budget.
  `Flow` says that the chunks of a run are those of its document from its first
  step on; `Stored`, that as many of them are found as the run has counted;
  `Whole`, that a place of the batch has its vector or is one of those asked
  for, that what a batch was answered with is what its texts say, and that the
  cache holds under each key the vector of that key. The batches of a reply,
  put together, are the texts asked for (`Flattens`, `BatchesTogether`,
  `SortedReply`), which is what the strict zip relies on. `Guarded` says that
  only the holder of the lock can be making a connection, and only when none
  works, and that the one that works is the index's own. Assumed:
  `TransformAssumption` (positive sizes; a budget, as in the code, is at least
  one).
* `Session`: `NothingLeftOpen` (`AllClosed`), `BorrowedStaysOpen`
  (`OnlyOwnClosed`), `HitsComplete` (`NoHitLost`), `OnlyVisible`
  (`NothingInvisible`), `SessionTypes`, `HistoryIsAnswers` (`HistoryFollows`,
  an action property), `ReportsComplete` (`ReportComplete`), for any points,
  acls, filters, questions, cases and clients. `Control` says where an
  invocation may be, and `Connections` which clients are open and closed there.
  `Found` says that the hits of a question list candidates of it, none twice,
  no fewer than will be asked for before the reranking and as many as are asked
  for after it; `CandidatesCarry`, that the candidates are the points that carry
  the filter's value, in each index's own clause, but for analysed values. It rests on lemmas about sorting (a finite set with a total and
  transitive order has its sequence), about the searches of the five indexes,
  which all ask for what `Visible` allows, and about fusion, whose fractions
  are totally ordered by their cross products. `Told` is what the model is
  given and cites, `Report` the results of the cases scored so far. Assumed:
  `RetrievalAssumption` (finitely many points), `SessionAssumption`.
* `Startup`: `WholePlugins` (`ListedIsWhole`), for any plugins and any order of
  installing them; `ReferencesSet` (`NoReferenceUnset`), for any world: what a
  configuration that was let through refers to was set then, and nothing is
  unset later; `AcceptedHasAdapters` (`AcceptedIsBuilt`): what `validate`, a
  dry run or the check before a run has accepted `factories.py` builds, with
  any plugins.

Only model-checked: all liveness (`Heals`, `EveryPipelineRuns`, `Settles`,
`Ends`, `RunsEnd`, `RunEnds`), which needs fairness and `ENABLED`, and what the
three findings violate, which no theorem could state.

## Findings

* `ingest_lost_document`. A run overwrites the points of a document and dies.
  The source then restores the old body. The state file has the old fingerprint,
  so the next run skips the document, and reconcile deletes its points, which
  carry the new hash: a committed document is in no index, until it is edited.
* `watch_rollback`. `record_run` saves the whole copy a run loaded at its start,
  for a failing run as well; a commit another pipeline made in between is gone.
* `chunk_overlap`. With `overlap: 0` the tail to carry over is `text[-0:]`, which
  is the whole text: each chunk repeats the one before it but for its first word,
  beyond the budget.

### Seen and not kept as a run

What the models or the reading of the code brought up and no run above repeats.
The first seven are stated by a definition and can be checked with the constants
named; the others are behaviours a maintainer should know of.

* `NoStaleChunks` (`Ingest`, two settings): when only settings change, the hash
  of a body does not, so the chunks the old settings made of it pass for current
  and stay.
* `FailuresAreSoft` (`Watch`, `Caught <- AlvisRun`): upsert and reconcile let
  `SourceError` out, and `alvis run` does not catch it, so one pipeline ends the
  command for all (`README.md:203-204` says failures are reported per pipeline).
  Errors of psycopg get out in the same way.
* `NoLeak` (`Fanout`): coroutines left behind by a failed gather open a new pool
  through the client that was just closed, and nobody closes that one.
* `PrunesNothingCurrent` (`SharedIndex`, as a property of `shared_index`):
  Elasticsearch's search shows an overwritten point under its old hash until a
  refresh; reconcile, right after the writes, deletes it by id. Afterwards the
  document is committed, unchanged, and skipped. `Exact` and `Isolated` say that
  the damage ends there: at keys the run was shown wrongly, of its own source.
  With Qdrant and pgvector the property holds.
* `FiltersExactly` (`Session`, as an invariant of `session`): `index/base.py:54`
  and `runner.py:141` promise exact equality. Elasticsearch finds nothing under
  "ENG", since it has indexed "eng", and under "7" a point with "ENG 7"; memory,
  SQLite and Elasticsearch take the number 7 for "7". (If the first document
  makes the server map a field as a number, filters that are none are refused.)
* `PrunesNoOther` (`SharedIndex`, `Reach <- Overlapping`): distinct identities do
  not keep two sources apart that deliver the same document: the keys of its
  points are the same.
* `VaultReferencesServe` (`Startup`): with Vault as the backend a reference is
  still looked for in the environment before a run (`env.py:73`), so `run` stops
  with "missing" (`README.md:76-80` and `docs/faq.md:108-114` say it names a
  secret then). And a .env file cannot choose the backend: it is read after
  `configure_from_env`.
* A plugin that clashes half way leaves the types before the clash registered,
  and the `ValueError` ends the command, although the docstring of `discover`
  says that a broken plugin is skipped.
* An embeddings service that answers for fewer inputs than it was sent makes the
  cache keep vectors under other texts' keys; the run fails, the cache stays
  (`embed/cache.py:149-151`; `VectorsFollow` is about services that answer for all).
* A `:memory:` SqliteIndex whose first two calls race has two databases.
* A document with the same chunk twice in one INSERT fails the run on pgvector.
* The size chunker may emit a last chunk that is wholly within the one before.
* GitHub: a truncated tree is taken for the whole one, and contents are fetched
  without the commit that was listed, from the default branch. A body the contents
  API leaves out is taken for an empty one, and a SharePoint file without a
  download URL is left out; both runs succeed (`FetchComplete` says so: `Withheld`).
* Two documents of providers under one uri, with two ids, pass the check for
  duplicates (`provider.py:149`) and share one entry in the state file. In
  `Connectors` a document is its id and its uri at once.
* `alvis status` closes none of the clients it opens; a `query_async` on a
  configuration without an index leaves the embedder it has built unclosed
  (before its first request).
* A dense search on a collection that is not there is empty for Elasticsearch
  and an error for Qdrant and pgvector; the keyword search of memory and SQLite
  returns points that have no term of the question, last.

## Not modelled

* *Extractors*: parsers of file formats without a state.
* *DSL*: a builder of the configuration objects that `Startup` begins with.
* *Observability, test support, `alvis init`, the metrics server*: nothing the
  program decides depends on them.
* *Source identity*: identities are distinct sources here. Two configurations
  that share one (another prefix of S3, another branch of GitHub) are one source with
  two contents, which no model has.
* *Requests the client has given up on* that reach a server in a later run, and
  copies of an Elasticsearch index that are refreshed one by one: `Effect` happens
  before its run goes on, and a refresh is of the whole index.
* *Upgrade of old state files*, and a state file that is not JSON.
* *Time*: a backoff, a timeout and an interval only end.
* *Scores*: what a judge says of an answer, and by how much one hit beats another.

What would come next: a composition of `Watch` with the stages of `Ingest` at
two slots, with the state file merged on save as its repair would have it; and
`source_identity` over pairs of configurations.
