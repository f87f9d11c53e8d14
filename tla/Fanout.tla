------------------------------- MODULE Fanout -------------------------------
(***************************************************************************)
(* How a connector downloads many documents (GitHub, GitLab, Confluence,   *)
(* S3, SharePoint, ...): gather_bounded (src/alvis/_concurrency.py) over   *)
(* one HttpClient (src/alvis/sources/http.py), which retries and opens its *)
(* connection pool lazily, and the engine's clean-up of that client when   *)
(* the stage is over, or has failed (src/alvis/pipeline/engine.py).        *)
(*                                                                         *)
(* Tasks of one event loop; an action is what runs between two awaits.     *)
(* asyncio.gather hands on the first exception at once and leaves the      *)
(* other tasks running.  Pools are numbered in the order they are opened;  *)
(* pool 1 was opened by the listing that precedes the downloads.           *)
(***************************************************************************)
EXTENDS Naturals, FiniteSets

CONSTANTS
  Count,           \* documents to download
  MaxConcurrency,  \* max_concurrency of the connector
  Retries          \* retries of the client

Items == 1..Count
NoPool == 0

ASSUME FanoutAssumption ==
  /\ Count \in Nat \ {0}
  /\ MaxConcurrency \in Nat \ {0}
  /\ Retries \in Nat

VARIABLES
  task,     \* where the coroutine of each item is
  attempt,  \* the attempt its request is at
  using,    \* the pool its request was given
  cached,   \* HttpClient._async_client
  opened,   \* pools opened so far
  closed,   \* pools that have been closed
  gather,   \* the awaited gather: "running", "returned", "raised"
  engine    \* "fetching", then "closing" the source, then "closed"

vars == <<task, attempt, using, cached, opened, closed, gather, engine>>

InFlight == {"request", "backoff"}
Final == {"kept", "skipped", "failed", "cancelled"}
Pools == 0..(Count + 1)

TypeOK ==
  /\ task \in [Items -> {"queued"} \cup InFlight \cup Final]
  /\ attempt \in [Items -> 0..Retries]
  /\ using \in [Items -> Pools]
  /\ cached \in Pools
  /\ opened \in Pools
  /\ closed \subseteq 1..opened
  /\ gather \in {"running", "returned", "raised"}
  /\ engine \in {"fetching", "closing", "closed"}

\* Coroutines inside the semaphore; one that sleeps before a retry is inside.
Inside == {i \in Items : task[i] \in InFlight}

\* The first exception leaves gather; later ones are dropped.
Raised == IF gather = "running" THEN "raised" ELSE gather

-----------------------------------------------------------------------------
Init ==
  /\ task = [i \in Items |-> "queued"]
  /\ attempt = [i \in Items |-> 0]
  /\ using = [i \in Items |-> NoPool]
  /\ cached = 1
  /\ opened = 1
  /\ closed = {}
  /\ gather = "running"
  /\ engine = "fetching"

\* Mutant of Pool: a pool per request, as before pools were cached.
FreshPool == opened + 1

\* _get_client: the cached pool, or a new one.
Pool == IF cached = NoPool THEN opened + 1 ELSE cached

\* Mutant of Acquire: the semaphore does not count sleeping coroutines.
AcquireWhileSleeping(i) ==
  /\ task[i] = "queued"
  /\ \A j \in Items : task[j] = "queued" => i <= j
  /\ Cardinality({j \in Inside : task[j] = "request"}) < MaxConcurrency
  /\ using' = [using EXCEPT ![i] = Pool]
  /\ opened' = IF Pool > opened THEN Pool ELSE opened
  /\ cached' = Pool
  /\ IF Pool \in closed
     THEN task' = [task EXCEPT ![i] = "failed"] /\ gather' = Raised
     ELSE task' = [task EXCEPT ![i] = "request"] /\ UNCHANGED gather
  /\ UNCHANGED <<attempt, closed, engine>>

(* A coroutine gets the semaphore, in the order of the items, and issues   *)
(* its request.  On a pool that is closed that raises a RuntimeError, which *)
(* is no RequestError and is not retried.                                  *)
Acquire(i) ==
  /\ task[i] = "queued"
  /\ \A j \in Items : task[j] = "queued" => i <= j
  /\ Cardinality(Inside) < MaxConcurrency
  /\ using' = [using EXCEPT ![i] = Pool]
  /\ opened' = IF Pool > opened THEN Pool ELSE opened
  /\ cached' = Pool
  /\ IF Pool \in closed
     THEN task' = [task EXCEPT ![i] = "failed"] /\ gather' = Raised
     ELSE task' = [task EXCEPT ![i] = "request"] /\ UNCHANGED gather
  /\ UNCHANGED <<attempt, closed, engine>>

(* A body arrives, or the document exceeds max_bytes and is left out.      *)
Answer(i) ==
  /\ task[i] = "request"
  /\ \E outcome \in {"kept", "skipped"} : task' = [task EXCEPT ![i] = outcome]
  /\ UNCHANGED <<attempt, using, cached, opened, closed, gather, engine>>

\* Mutant of Transient: the attempt is not counted.
TransientForever(i) ==
  /\ task[i] = "request"
  /\ task' = [task EXCEPT ![i] = "backoff"]
  /\ UNCHANGED <<attempt, using, cached, opened, closed, gather, engine>>

\* Mutant of Transient: one retry too many.
TransientOnceMore(i) ==
  /\ task[i] = "request"
  /\ attempt[i] <= Retries
  /\ task' = [task EXCEPT ![i] = "backoff"]
  /\ attempt' = [attempt EXCEPT ![i] = @ + 1]
  /\ UNCHANGED <<using, cached, opened, closed, gather, engine>>

(* A connection error, a 429 or a 5xx, with attempts left: back off.       *)
Transient(i) ==
  /\ task[i] = "request"
  /\ attempt[i] < Retries
  /\ task' = [task EXCEPT ![i] = "backoff"]
  /\ attempt' = [attempt EXCEPT ![i] = @ + 1]
  /\ UNCHANGED <<using, cached, opened, closed, gather, engine>>

(* The backoff is over: the request is sent again, on the pool it was      *)
(* given at first.                                                         *)
Resend(i) ==
  /\ task[i] = "backoff"
  /\ IF using[i] \in closed
     THEN task' = [task EXCEPT ![i] = "failed"] /\ gather' = Raised
     ELSE task' = [task EXCEPT ![i] = "request"] /\ UNCHANGED gather
  /\ UNCHANGED <<attempt, using, cached, opened, closed, engine>>

(* Another status, or a transient one with no attempt left; a request      *)
(* whose pool is closed under it ends like this too.                       *)
Refuse(i) ==
  /\ task[i] = "request"
  /\ task' = [task EXCEPT ![i] = "failed"]
  /\ gather' = Raised
  /\ UNCHANGED <<attempt, using, cached, opened, closed, engine>>

(* Every coroutine has returned.                                           *)
Return ==
  /\ gather = "running"
  /\ \A i \in Items : task[i] \in {"kept", "skipped"}
  /\ gather' = "returned"
  /\ UNCHANGED <<task, attempt, using, cached, opened, closed, engine>>

(* The engine closes the source whatever happened.                         *)
CloseBegin ==
  /\ engine = "fetching"
  /\ gather # "running"
  /\ engine' = "closing"
  /\ closed' = closed \cup {cached}
  /\ UNCHANGED <<task, attempt, using, cached, opened, gather>>

(* The pool is closed and forgotten, unless closing it raised, as it may   *)
(* with requests in flight; aclose_quietly swallows that.                  *)
CloseEnd ==
  /\ engine = "closing"
  /\ engine' = "closed"
  /\ cached' \in {NoPool} \cup (IF Inside = {} THEN {} ELSE {cached})
  /\ UNCHANGED <<task, attempt, using, opened, closed, gather>>

(* The event loop ends and cancels what is left, when the command does not *)
(* watch.                                                                  *)
Shutdown ==
  /\ engine = "closed"
  /\ \E i \in Items : task[i] \notin Final
  /\ task' = [i \in Items |-> IF task[i] \in Final THEN task[i] ELSE "cancelled"]
  /\ UNCHANGED <<attempt, using, cached, opened, closed, gather, engine>>

Request(i) == Acquire(i) \/ Answer(i) \/ Transient(i) \/ Resend(i) \/ Refuse(i)

Next ==
  \/ \E i \in Items : Request(i)
  \/ Return \/ CloseBegin \/ CloseEnd \/ Shutdown

(* Requests time out, sleeps end, and the event loop runs what is ready.   *)
Fairness ==
  /\ \A i \in Items : WF_vars(Request(i))
  /\ WF_vars(Return) /\ WF_vars(CloseBegin) /\ WF_vars(CloseEnd)

Spec == Init /\ [][Next]_vars
FairSpec == Spec /\ Fairness

-----------------------------------------------------------------------------
(* Properties.                                                             *)

(* The host never sees more than max_concurrency downloads, also while the *)
(* tasks that a failure left behind go on, and retries wait inside.        *)
Bounded == Cardinality(Inside) <= MaxConcurrency

(* One client at a time keeps connections, and none does after a download  *)
(* that succeeded.                                                         *)
OnePool ==
  /\ Cardinality((1..opened) \ closed) <= 1
  /\ engine = "closed" /\ gather = "returned" => closed = 1..opened

(* The run gets an answer and its source is closed, and no task is left    *)
(* running for good, whatever the server answers.                          *)
Ends == <>(engine = "closed" /\ \A i \in Items : task[i] \in Final)

(* README: clients are closed when a run returns, "so long-running --watch *)
(* loops don't leak connections".  When the source has been closed and     *)
(* nothing is left running, no pool is open.                               *)
NoLeak ==
  engine = "closed" /\ (\A i \in Items : task[i] \in Final) => closed = 1..opened
=============================================================================
