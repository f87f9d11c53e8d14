----------------------------- MODULE MCTransform -----------------------------
(* Chunking alone over many documents, and two pipelines over a few.        *)
EXTENDS Transform, TLC

CONSTANTS a, b

\* Words of the given lengths; gaps say what is after each but the last.
WordAt(sizes, i) ==
  LET before == FoldLeft(+, 0, SubSeq(sizes, 1, i - 1)) IN [k \in 1..sizes[i] |-> before + k]
RECURSIVE Paragraphs(_, _, _)
Paragraphs(sizes, gaps, i) ==
  IF i = Len(sizes) THEN <<WordAt(sizes, i)>>
  ELSE LET rest == Paragraphs(sizes, gaps, i + 1)
       IN IF gaps[i] = "paragraph" THEN <<WordAt(sizes, i)>> \o rest
          ELSE <<WordAt(sizes, i) \o <<Space>> \o Head(rest)>> \o Tail(rest)

Heading == <<101, Space, 102>>
Section(heading, sizes, gaps) == [heading |-> heading, paragraphs |-> Paragraphs(sizes, gaps, 1)]

Documents ==
  {<<Section(h, sizes, gaps)>> :
     h \in {<<>>, Heading}, sizes \in [1..4 -> {1, 3, 6}], gaps \in [1..3 -> {"space", "paragraph"}]}
Strategy(name, size, overlap) == [name |-> name, size |-> size, overlap |-> overlap]
Strategies ==
  {Strategy("size", n, o) : n \in {1, 2, 5, 8}, o \in {0, 1, 3, 5}}
  \cup {Strategy(name, 4 * n, 4 * o) : name \in {"auto", "sections"}, n \in {1, 2}, o \in {0, 1, 2}}

None == << >>
Each(x, y) == (a :> x) @@ (b :> y)
Basic ==
  [index |-> "none", cache |-> "none", exclusive |-> FALSE, service |-> "whole",
   document |-> Each(None, None), strategy |-> Each(Strategy("size", 2, 0), Strategy("size", 2, 0)),
   model |-> Each("small", "small")]

Studies ==
  {[Basic EXCEPT !.document = Each(d, None), !.strategy = Each(s, Strategy("size", 1, 0))] :
     d \in Documents, s \in Strategies}

\* Three chunks, the second of them twice; and two, one shared.
Long == <<[heading |-> <<>>, paragraphs |-> <<<<1, 2>>>>], [heading |-> <<>>, paragraphs |-> <<<<3>>>>],
          [heading |-> <<>>, paragraphs |-> <<<<3>>>>]>>
Short == <<[heading |-> <<>>, paragraphs |-> <<<<3>>>>], [heading |-> <<>>, paragraphs |-> <<<<4>>>>]>>

Works ==
  {[Basic EXCEPT !.index = x, !.cache = c, !.exclusive = e, !.service = v,
                 !.document = Each(Long, Short), !.model = Each("small", m)] :
     x \in {"file", "memory", "pgvector"}, c \in {"none", "file"}, e \in BOOLEAN, v \in {"whole", "short"},
     m \in {"small", "large"}}

\* The chunk that occurs twice is in one statement.
Repeated ==
  [Basic EXCEPT !.index = "pgvector", !.document = Each(<<Long[2], Long[3], Long[1]>>, Short)]

AllWorlds == {Repeated} \cup Studies \cup {w \in Works : w.exclusive => w.cache = "file"}
Sizes == ("small" :> 2) @@ ("large" :> 3)
=============================================================================
