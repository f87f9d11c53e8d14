------------------------------- MODULE Session -------------------------------
(***************************************************************************)
(* A question from the command line (query, chat, eval: src/alvis/cli) or  *)
(* from a program that calls answer_async with an indexer of its own, down *)
(* through src/alvis/pipeline/runner.py to the index, the reranking model, *)
(* the answering model and the judge.  alvis status, which opens clients   *)
(* of the same kinds, is here too.                                         *)
(*                                                                         *)
(* A client counts as open from its first request on, failed or not: only  *)
(* then does an HttpClient or a database index hold a connection.          *)
(***************************************************************************)
EXTENDS Retrieval

CONSTANTS
  Commands,        \* the invocations, see CommandType
  Terms,           \* the terms of a question, by question
  Cases,           \* of eval: <<[asks, wants, principals]>>
  MinHits,         \* --min-hit-rate, as a number of cases
  MaxTurns,        \* bound: the questions of a chat or of a caller
  CandidateFactor, \* _CANDIDATE_FACTOR
  NoHits           \* not a sequence of hits

VARIABLES
  cmd,      \* the invocation
  pc,
  turn,     \* questions begun
  ask,      \* the question under way: [text, principals]
  dense,    \* hits of the dense search
  hits,     \* the hits so far
  open,     \* clients with a connection
  closed,   \* clients whose aclose has run (history)
  error,    \* of the question under way: "none", "config", "source", "other"
  answer,   \* [by, cites] of the last question that was answered
  history,  \* of chat: <<[text, answer]>>
  sent,     \* the history the answering model was last given
  results,  \* of eval
  exit      \* how the program ended: "no", "ok", "one" (exit code 1), "crash"

vars == <<cmd, pc, turn, ask, dense, hits, open, closed, error, answer,
          history, sent, results, exit>>

Questions == DOMAIN Terms
Blank == "blank"

CommandType ==
  [verb: {"query", "answer", "chat", "eval", "status", "caller"},
   backend: Backends, index: BOOLEAN, there: BOOLEAN, remote: BOOLEAN,
   hybrid: BOOLEAN, rerank: BOOLEAN, llm: BOOLEAN, secret: BOOLEAN, probe: BOOLEAN,
   filter: {AnyValue, "bad"} \cup {Value[p].text : p \in Points},
   principals: {Anyone} \cup SUBSET (UNION {Acl[p] : p \in {q \in Points : Acl[q] # Absent}}),
   topk: Nat]

ASSUME SessionAssumption ==
  /\ Commands \subseteq CommandType
  /\ Cases \in Seq(ToSet(Cases))
  /\ MinHits \in Nat
  /\ MaxTurns \in Nat \ {0}
  /\ CandidateFactor \in Nat \ {0}

Clients == {"embedder", "indexer", "reranker", "llm", "judge", "source"}
Owned == {"reranker", "llm", "judge"}
None == [by |-> "none", cites |-> {}]

Init ==
  /\ cmd \in Commands
  /\ pc = "start"
  /\ turn = 0
  /\ ask = [text |-> Blank, principals |-> Anyone]
  /\ dense = NoHits
  /\ hits = << >>
  /\ open = {}
  /\ closed = {}
  /\ error = "none"
  /\ answer = None
  /\ history = << >>
  /\ sent = << >>
  /\ results = << >>
  /\ exit = "no"

\* The clients a command builds: no reranking and no judging without a secret.
UsesReranker == cmd.rerank /\ cmd.secret
UsesLlm == cmd.llm /\ cmd.secret
UsesJudge == cmd.verb = "eval" /\ UsesLlm
OwnsIndexer == cmd.verb # "caller"

-----------------------------------------------------------------------------
(* Before the first question.                                              *)

Begin ==
  /\ pc' = "prompt"
  /\ UNCHANGED exit

Refuse ==
  /\ pc' = "ended"
  /\ exit' = "one"

\* --filter without "=" is ValueError; a repeated key keeps its last value.
ParseFilters ==
  IF cmd.filter = "bad" THEN Refuse ELSE Begin

Waiting == <<cmd, turn, ask, dense, hits, open, closed, error, answer, history, sent, results>>

StartQuery ==
  /\ pc = "start"
  /\ cmd.verb \in {"query", "answer"}
  /\ ParseFilters
  /\ UNCHANGED Waiting

StartChat ==
  /\ pc = "start"
  /\ cmd.verb = "chat"
  /\ ParseFilters
  /\ UNCHANGED Waiting

\* load_cases wants a list that is not empty.
StartEval ==
  /\ pc = "start"
  /\ cmd.verb = "eval"
  /\ IF Cases = << >> THEN Refuse ELSE Begin
  /\ UNCHANGED Waiting

\* A program is there with its indexer and its models.
StartCaller ==
  /\ pc = "start"
  /\ cmd.verb = "caller"
  /\ Begin
  /\ UNCHANGED Waiting

\* The next question of the invocation.
Ask(q) ==
  /\ pc = "prompt"
  /\ turn < (IF cmd.verb = "eval" THEN Len(Cases) ELSE MaxTurns)
  /\ cmd.verb \in {"query", "answer"} => turn = 0
  /\ cmd.verb = "chat" => q # Blank
  /\ cmd.verb = "eval" => q = Cases[turn + 1].asks
  /\ ask' = [text |-> q,
             principals |-> IF cmd.verb = "eval" /\ Cases[turn + 1].principals # Anyone
                              THEN Cases[turn + 1].principals ELSE cmd.principals]
  /\ turn' = turn + 1
  /\ dense' = NoHits
  /\ hits' = << >>
  /\ error' = "none"
  /\ pc' = "embed"
  /\ UNCHANGED <<cmd, open, closed, answer, history, sent, results, exit>>

\* exit, the end of the input, or the caller has no more to ask; eval has no more cases.
Leave ==
  /\ pc = "prompt"
  /\ \/ cmd.verb \in {"chat", "caller"}
     \/ cmd.verb = "eval" /\ turn = Len(Cases)
  /\ error' = "none"
  /\ pc' = "close"
  /\ UNCHANGED <<cmd, turn, ask, dense, hits, open, closed, answer, history, sent, results, exit>>

-----------------------------------------------------------------------------
(* query_async.                                                            *)

\* The step of query_async fails: its finally closes what it has built.
Fail(e) ==
  /\ error' = e
  /\ pc' = "release"
  /\ UNCHANGED <<dense, hits>>

\* The embedder is built, then the indexer; no index stage is found before the try.
Embed ==
  /\ pc = "embed"
  /\ \/ /\ ask.text = Blank \/ (OwnsIndexer /\ ~cmd.index)
        /\ error' = "config"
        /\ pc' = "outcome"
        /\ UNCHANGED open
     \/ /\ ask.text # Blank
        /\ OwnsIndexer => cmd.index
        /\ open' = IF cmd.remote THEN open \cup {"embedder"} ELSE open
        /\ \/ pc' = "dense" /\ UNCHANGED error
           \/ cmd.remote /\ error' = "source" /\ pc' = "release"
  /\ UNCHANGED <<cmd, turn, ask, dense, hits, closed, answer, history, sent, results, exit>>

OpensIndexer == IF cmd.backend = "memory" THEN open ELSE open \cup {"indexer"}

\* An index the call has built in memory is empty; a table that is not there is an
\* empty search for elasticsearch, an error for qdrant and pgvector.
Populated == IF cmd.backend = "memory" THEN ~OwnsIndexer ELSE cmd.there
CandidateK == IF cmd.hybrid \/ UsesReranker THEN CandidateFactor * cmd.topk ELSE cmd.topk

Dense ==
  /\ pc = "dense"
  /\ open' = OpensIndexer
  /\ \/ /\ Populated
        /\ dense' = Search(cmd.backend, CandidateK, cmd.filter, ask.principals)
        /\ pc' = "keyword"
        /\ UNCHANGED <<error, hits>>
     \/ /\ ~Populated
        /\ cmd.backend \in {"memory", "sqlite", "elasticsearch"}
        /\ dense' = << >>
        /\ pc' = "keyword"
        /\ UNCHANGED <<error, hits>>
     \/ cmd.backend = "qdrant" /\ Fail("source")
     \/ cmd.backend = "elasticsearch" /\ Fail("source")
     \/ cmd.backend = "pgvector" /\ Fail("other")
  /\ UNCHANGED <<cmd, turn, ask, closed, answer, history, sent, results, exit>>

\* pgvector's keyword search takes an error of the statement for no match.
Keyword ==
  /\ pc = "keyword"
  /\ \/ /\ ~cmd.hybrid
        /\ hits' = dense
        /\ pc' = "rerank"
        /\ UNCHANGED <<error, dense>>
     \/ /\ cmd.hybrid
        /\ \/ \E found \in KeywordResults(cmd.backend, CandidateK, Terms[ask.text],
                                          cmd.filter, ask.principals) :
                Populated /\ hits' = Fuse(dense, found)
           \/ (~Populated \/ cmd.backend = "pgvector") /\ hits' = Fuse(dense, << >>)
        /\ pc' = "rerank"
        /\ UNCHANGED <<error, dense>>
     \/ cmd.hybrid /\ cmd.backend \in {"qdrant", "elasticsearch"} /\ Fail("source")
  /\ UNCHANGED <<cmd, turn, ask, open, closed, answer, history, sent, results, exit>>

\* What a reranking model may send: an order, one number missing, one repeated.
Replies(n) ==
  {p \in [1..n -> 1..n] : IsInjective(p)}
  \cup {[i \in 1..(n - 1) |-> i]} \cup {[i \in 1..n |-> 1]}

\* rerank never raises.
Rerank ==
  /\ pc = "rerank"
  /\ \/ /\ ~UsesReranker
        /\ hits' = Take(hits, cmd.topk)
        /\ UNCHANGED open
     \/ /\ UsesReranker
        /\ hits = << >>
        /\ UNCHANGED <<hits, open>>
     \/ /\ UsesReranker
        /\ hits # << >>
        /\ open' = open \cup {"reranker"}
        /\ \/ \E numbers \in Replies(Len(hits)) : hits' = Reranked(hits, numbers, cmd.topk)
           \/ hits' = Take(hits, cmd.topk)
  /\ pc' = "release"
  /\ UNCHANGED <<cmd, turn, ask, dense, closed, error, answer, history, sent, results, exit>>

Shut(clients) ==
  /\ open' = open \ clients
  /\ closed' = closed \cup clients

\* SqliteIndex and MemoryIndex have no aclose.
Closable == IF cmd.backend \in {"sqlite", "memory"} THEN {"embedder"} ELSE {"embedder", "indexer"}

\* Mutant of Release: the indexer of the caller is closed as well.
ReleaseAll ==
  /\ pc = "release"
  /\ Shut(Closable)
  /\ pc' = "outcome"
  /\ UNCHANGED <<cmd, turn, ask, dense, hits, error, answer, history, sent, results, exit>>
\* The finally of query_async.
Release ==
  /\ pc = "release"
  /\ Shut(IF OwnsIndexer THEN Closable ELSE {"embedder"})
  /\ pc' = "outcome"
  /\ UNCHANGED <<cmd, turn, ask, dense, hits, error, answer, history, sent, results, exit>>
-----------------------------------------------------------------------------
(* The answer.                                                             *)

\* Hits for query; the numbered excerpts or the model's text for the others; an error
\* that a chat survives, or hands to the caller, or that ends the program.
Outcome ==
  /\ pc = "outcome"
  /\ pc' = CASE error = "none" /\ cmd.verb = "query" -> "close"
             [] error = "none" /\ cmd.verb = "eval" -> "score"
             [] error = "none" /\ cmd.verb \notin {"query", "eval"} -> "answer"
             [] error # "none" /\ cmd.verb = "caller" -> "prompt"
             [] error = "config" /\ cmd.verb = "chat" -> "prompt"
             [] OTHER -> "close"
  /\ UNCHANGED <<cmd, turn, ask, dense, hits, open, closed, error, answer, history,
                 sent, results, exit>>

Cited(numbers) == {<<i, hits[i]>> : i \in numbers \cap DOMAIN hits}

\* citation_answer numbers every hit.
CitationAnswer == [by |-> "excerpts", cites |-> Cited(DOMAIN hits)]

\* build_answer: the [N] of the text that are numbers of hits.
BuildAnswer(numbers) == [by |-> "model", cites |-> Cited(numbers)]

\* What the model may cite: some hits, and one there is not.
Markers == SUBSET (1..(Len(hits) + 1))

\* Mutant of Said: every turn is kept.
SaidKept(a) ==
  /\ answer' = a
  /\ history' = Append(history, [text |-> ask.text, answer |-> a])
  /\ pc' = IF cmd.verb = "answer" THEN "close" ELSE "prompt"
  /\ UNCHANGED error
\* A turn that ends well goes on; only a chat keeps it.
Said(a) ==
  /\ answer' = a
  /\ history' = IF cmd.verb = "chat" THEN Append(history, [text |-> ask.text, answer |-> a])
                ELSE history
  /\ pc' = IF cmd.verb = "answer" THEN "close" ELSE "prompt"
  /\ UNCHANGED error

\* Mutant of Answer: the turn is kept before it has its answer.
AnswerEarly ==
  /\ pc = "answer"
  /\ history' = Append(history, [text |-> ask.text, answer |-> CitationAnswer])
  /\ open' = IF UsesLlm THEN open \cup {"llm"} ELSE open
  /\ sent' = history'
  /\ answer' = CitationAnswer
  /\ pc' = IF cmd.verb = "answer" THEN "close" ELSE "prompt"
  /\ UNCHANGED <<cmd, turn, ask, dense, hits, closed, error, results, exit>>
\* A SourceError falls back to the excerpts, any other error does not.
Answer ==
  /\ pc = "answer"
  /\ \/ ~UsesLlm /\ Said(CitationAnswer) /\ UNCHANGED <<open, sent>>
     \/ /\ UsesLlm
        /\ open' = open \cup {"llm"}
        /\ sent' = history
        /\ \/ \E numbers \in Markers : Said(BuildAnswer(numbers))
           \/ Said(CitationAnswer)
           \/ /\ error' = "other"
              /\ pc' = IF cmd.verb = "caller" THEN "prompt" ELSE "close"
              /\ UNCHANGED <<answer, history>>
  /\ UNCHANGED <<cmd, turn, ask, dense, hits, closed, results, exit>>

\* evaluate_async, one case: its rank, and with a judge an answer and a score.
Score ==
  /\ pc = "score"
  /\ \E judged \in {"no", "scored", "zero"} :
       /\ (judged = "no") <=> ~UsesJudge
       /\ open' = IF UsesJudge THEN open \cup {"llm", "judge"} ELSE open
       /\ results' = Append(results, [rank |-> RankOfUri(hits, Cases[turn].wants),
                                      hits |-> hits, judged |-> judged])
  /\ pc' = "prompt"
  /\ UNCHANGED <<cmd, turn, ask, dense, hits, closed, error, answer, history, sent, exit>>

\* A reply of the answering model without the expected fields ends the evaluation.
ScoreCrash ==
  /\ pc = "score"
  /\ UsesJudge
  /\ open' = open \cup {"llm"}
  /\ error' = "other"
  /\ pc' = "close"
  /\ UNCHANGED <<cmd, turn, ask, dense, hits, closed, answer, history, sent, results, exit>>

\* Only ConfigError and PipelineError are reported; anything else is a traceback.
ExitOf ==
  CASE error = "config" -> "one"
    [] error \in {"source", "other"} -> "crash"
    [] OTHER -> "ok"

HitCount == Cardinality({i \in DOMAIN results : results[i].rank # 0})

\* --min-hit-rate fails a report.
EvalExit == IF error = "none" /\ HitCount < MinHits THEN "one" ELSE ExitOf

Closing(shut, code) ==
  /\ pc = "close"
  /\ Shut(shut)
  /\ pc' = "ended"
  /\ exit' = code
  /\ UNCHANGED <<cmd, turn, ask, dense, hits, error, answer, history, sent, results>>

\* Mutant of CloseQuery: the clients are closed when all went well only.
CloseQueryHappy ==
  cmd.verb \in {"query", "answer"}
    /\ Closing(IF error = "none" THEN {"llm", "reranker"} ELSE {}, ExitOf)
\* _answer_and_close and _query_and_close.
CloseQuery ==
  cmd.verb \in {"query", "answer"} /\ Closing({"llm", "reranker"}, ExitOf)

CloseChat == cmd.verb = "chat" /\ Closing({"llm", "reranker"}, ExitOf)

CloseEval == cmd.verb = "eval" /\ Closing({"reranker", "llm", "judge"}, EvalExit)

\* A caller closes its own clients, when it likes.
CloseCaller == cmd.verb = "caller" /\ Closing({}, "ok")

-----------------------------------------------------------------------------
(* alvis status, for one pipeline.                                         *)

\* A missing variable ends the program; a source that fails is a line of the report.
StatusSource ==
  /\ pc = "start"
  /\ cmd.verb = "status"
  /\ \/ ~cmd.secret /\ pc' = "ended" /\ exit' = "one" /\ UNCHANGED <<open, results>>
     \/ /\ cmd.secret
        /\ open' = IF cmd.remote THEN open \cup {"source"} ELSE open
        /\ \E health \in {"ok", "failed"} : results' = Append(results, health)
        /\ pc' = "count"
        /\ UNCHANGED exit
  /\ UNCHANGED <<cmd, turn, ask, dense, hits, closed, error, answer, history, sent>>

\* count is a number for memory; the other indexes are asked with --probe, for 5 s.
StatusIndex ==
  /\ pc = "count"
  /\ \/ /\ ~cmd.index
        /\ results' = Append(results, "n/a")
        /\ UNCHANGED open
     \/ /\ cmd.index /\ cmd.backend = "memory"
        /\ results' = Append(results, "counted")
        /\ UNCHANGED open
     \/ /\ cmd.index /\ cmd.backend # "memory" /\ ~cmd.probe
        /\ results' = Append(results, "unasked")
        /\ UNCHANGED open
     \/ /\ cmd.index /\ cmd.backend # "memory" /\ cmd.probe
        /\ open' = OpensIndexer
        /\ \E n \in {"counted", "unreachable"} : results' = Append(results, n)
  /\ pc' = "ended"
  /\ exit' = "ok"
  /\ UNCHANGED <<cmd, turn, ask, dense, hits, closed, error, answer, history, sent>>

-----------------------------------------------------------------------------

Next ==
  \/ StartQuery
  \/ StartChat
  \/ StartEval
  \/ StartCaller
  \/ \E q \in Questions \cup {Blank} : Ask(q)
  \/ Leave
  \/ Embed
  \/ Dense
  \/ Keyword
  \/ Rerank
  \/ Release
  \/ Outcome
  \/ Answer
  \/ Score
  \/ ScoreCrash
  \/ CloseQuery
  \/ CloseChat
  \/ CloseEval
  \/ CloseCaller
  \/ StatusSource
  \/ StatusIndex

Spec == Init /\ [][Next]_vars

-----------------------------------------------------------------------------
(* The types of the state of a session; only a chat keeps a history, no longer  *)
(* than its questions, and a program has an exit code once it has ended         *)
(* (cli/_query.py, _chat.py, _eval.py, _status.py).                             *)
TypeOK ==
  /\ cmd \in CommandType
  /\ turn \in 0..(MaxTurns + Len(Cases))
  /\ open \subseteq Clients /\ closed \subseteq Clients
  /\ ToSet(hits) \subseteq Points
  /\ error \in {"none", "config", "source", "other"}
  /\ exit \in {"no", "ok", "one", "crash"}
  /\ exit # "no" <=> pc = "ended"
  /\ history # << >> => cmd.verb = "chat"
  /\ Len(history) <= turn

(* Whatever failed on the way, query_async leaves neither its embedder nor an  *)
(* indexer it built connected, and a program that has ended has closed every   *)
(* client of its own; SqliteIndex has nothing to close it with, and status     *)
(* closes nothing (runner.py, the finally blocks of cli/_query.py, _chat.py    *)
(* and _eval.py).                                                              *)
AllClosed ==
  LET closable == IF cmd.backend = "sqlite" THEN {"embedder"} ELSE {"embedder", "indexer"}
  IN /\ pc \in {"prompt", "outcome", "close", "ended"} /\ cmd.verb # "status" =>
          open \cap (IF OwnsIndexer THEN closable ELSE {"embedder"}) = {}
     /\ pc = "ended" /\ cmd.verb \notin {"status", "caller"} => open \cap Owned = {}

(* What a caller of answer_async has passed in stays connected from one        *)
(* question to the next, its indexer as connected as the question has left it, *)
(* and no client is used after it has been closed                              *)
(* (query_async: "an indexer you pass in is yours to keep using").             *)
OnlyOwnClosed ==
  /\ cmd.verb = "caller" => closed \cap (Owned \cup {"indexer"}) = {}
  /\ cmd.verb = "caller" /\ cmd.backend # "memory" /\ pc = "outcome" /\ error = "none" =>
       "indexer" \in open
  /\ closed \cap open \cap Owned = {}

(* No hit, no excerpt given to a model, and no citation of an answer is of a   *)
(* point whose acl has none of the principals of the question: by dense and    *)
(* keyword search alike, through fusion and reranking, in every index.         *)
NothingInvisible ==
  LET seen == ToSet(hits) \cup (IF dense = NoHits THEN {} ELSE ToSet(dense))
                \cup (IF pc \in {"prompt", "close"} /\ error = "none" /\ turn > 0
                        THEN {c[2] : c \in answer.cites} ELSE {})
  IN ask.principals # Anyone =>
       \A p \in seen : Acl[p] = Absent \/ Acl[p] = {} \/ Acl[p] \cap ask.principals # {}

\* The points a question is about: its asker may see them, and their metadata
\* equals the filter, a text.
MayBeSeen(p) == ask.principals = Anyone \/ Acl[p] \in {Absent, {}} \/ Acl[p] \cap ask.principals # {}
Carries(p) == cmd.filter # AnyValue => Value[p].text = cmd.filter /\ ~Value[p].number

\* Elasticsearch has made other terms of a value than the value itself.
Analysed(p) ==
  cmd.backend = "elasticsearch" /\ cmd.filter # AnyValue /\ Tokens[p] # {Value[p].text}

(* No hit is lost and none comes twice between the index and the answer: a     *)
(* question ends with top_k different hits, or with every point that the asker *)
(* may see and that carries the value of the filter, whatever the reranking    *)
(* model has sent back; and no hit carries another value (a number passes for  *)
(* its text in three indexes).  What Elasticsearch has analysed is the         *)
(* exception: there "ENG" finds nothing, and "eng" finds "ENG 7".              *)
NoHitLost ==
  pc = "outcome" /\ error = "none" =>
    /\ \A i, j \in DOMAIN hits : hits[i] = hits[j] => i = j
    /\ Populated =>
         \/ Len(hits) = cmd.topk
         \/ /\ Len(hits) < cmd.topk
            /\ {p \in Points : MayBeSeen(p) /\ Carries(p) /\ ~Analysed(p)} \subseteq ToSet(hits)
    /\ \A p \in ToSet(hits) :
         cmd.filter = AnyValue \/ Value[p].text = cmd.filter \/ Analysed(p)

(* A claim that the code does not meet.                                        *)

(* index/base.py: filters restrict candidates to metadata matching every pair, *)
(* "exact equality", say {"space": "ENG"}.                                     *)
FiltersExactly ==
  pc = "outcome" /\ error = "none" /\ Populated /\ Len(hits) < cmd.topk =>
    ToSet(hits) = {p \in Points : MayBeSeen(p) /\ Carries(p)}

(* The answering model is given the turns that went well before, in order,     *)
(* and a turn that failed leaves nothing behind: what is kept is an answer     *)
(* that cites the hits of its own question (_chat_loop).                       *)
HistoryFollows ==
  [][/\ history' # history =>
          /\ history' = Append(history, [text |-> ask.text, answer |-> answer'])
          /\ error' = "none"
          /\ \A c \in answer'.cites : c[1] \in DOMAIN hits /\ c[2] = hits[c[1]]
          /\ sent' \in {sent, history}
     /\ sent' # sent => sent' = history]_vars

(* A report counts every case once and in order, each found only if a hit of   *)
(* it is of the wanted document, under the case's own principals; an            *)
(* evaluation that ends without a report was stopped by an error.              *)
ReportComplete ==
  cmd.verb = "eval" /\ pc = "ended" /\ Cases # << >> /\ cmd.filter # "bad" =>
    \/ error # "none" /\ exit # "ok"
    \/ /\ Len(results) = Len(Cases)
       /\ \A i \in DOMAIN results :
            /\ results[i].rank # 0 <=> \E p \in ToSet(results[i].hits) : Uri[p] = Cases[i].wants
            /\ Cases[i].principals # Anyone =>
                 \A p \in ToSet(results[i].hits) :
                   Acl[p] \in {Absent, {}} \/ Acl[p] \cap Cases[i].principals # {}
       /\ exit = "ok" <=> HitCount >= MinHits
=============================================================================
