------------------------------ MODULE MCSession ------------------------------
(* Sessions over two documents of two points each; of their metadata values  *)
(* one is a number, one is in upper case, and one is of two words.           *)
EXTENDS Session, TLC

CONSTANTS eng, ops

UriOf == (1 :> "d1") @@ (2 :> "d1") @@ (3 :> "d2") @@ (4 :> "d2")
AclOf == (1 :> {eng}) @@ (2 :> Absent) @@ (3 :> {}) @@ (4 :> {ops})
Text == [text |-> "7", number |-> FALSE]
ValueOf == (1 :> Text) @@ (2 :> [Text EXCEPT !.number = TRUE]) @@ (3 :> [Text EXCEPT !.text = "ENG"])
             @@ (4 :> [Text EXCEPT !.text = "ENG 7"])
TokensOf == (1 :> {"7"}) @@ (2 :> {"7"}) @@ (3 :> {"eng"}) @@ (4 :> {"eng", "7"})
WordsOf == (1 :> {"t", "u"}) @@ (2 :> {"t"}) @@ (3 :> {"u"}) @@ (4 :> {})
LikenessOf == (1 :> 3) @@ (2 :> 1) @@ (3 :> 2) @@ (4 :> 4)
TermsOf == ("both" :> {"t", "u"}) @@ ("marks" :> {})

TwoCases == << [asks |-> "both", wants |-> "d1", principals |-> Anyone],
               [asks |-> "both", wants |-> "d2", principals |-> {eng}] >>

\* The plainest question, and what is asked of it.
Plain == [verb |-> "query", backend |-> "sqlite", index |-> TRUE, there |-> TRUE, remote |-> TRUE,
          hybrid |-> FALSE, rerank |-> FALSE, llm |-> FALSE, secret |-> TRUE, probe |-> FALSE,
          filter |-> AnyValue, principals |-> {eng}, topk |-> 1]

Searches ==
  {[Plain EXCEPT !.verb = v, !.backend = b, !.there = t, !.hybrid = TRUE, !.principals = w,
                 !.filter = f, !.topk = 2] :
     v \in {"query", "caller"}, b \in Backends, t \in BOOLEAN, w \in {Anyone, {}, {eng}},
     f \in {AnyValue, "7", "ENG"}}
Reranked1 ==
  {[Plain EXCEPT !.verb = v, !.backend = b, !.rerank = TRUE, !.llm = l, !.secret = s, !.topk = 2] :
     v \in {"query", "answer", "caller"}, b \in {"memory", "elasticsearch"}, l \in BOOLEAN, s \in BOOLEAN}
Odd ==
  {[Plain EXCEPT !.verb = v, !.filter = "bad"] : v \in {"query", "chat"}}
  \cup {[Plain EXCEPT !.verb = v, !.index = FALSE, !.llm = TRUE] : v \in {"query", "chat", "eval", "caller"}}
Chats ==
  {[Plain EXCEPT !.verb = v, !.backend = b, !.hybrid = h, !.llm = TRUE, !.secret = s] :
     v \in {"chat", "caller"}, b \in {"memory", "pgvector"}, h \in BOOLEAN, s \in BOOLEAN}
Evals ==
  {[Plain EXCEPT !.verb = "eval", !.backend = b, !.llm = l, !.rerank = r, !.principals = {ops}] :
     b \in {"sqlite", "qdrant"}, l \in BOOLEAN, r \in BOOLEAN}
Statuses ==
  {[Plain EXCEPT !.verb = "status", !.backend = b, !.index = i, !.secret = s, !.remote = r, !.probe = p] :
     b \in {"memory", "sqlite", "qdrant"}, i \in BOOLEAN, s \in BOOLEAN, r \in BOOLEAN, p \in BOOLEAN}

AllCommands == Searches \cup Reranked1 \cup Odd \cup Chats \cup Evals \cup Statuses
=============================================================================
