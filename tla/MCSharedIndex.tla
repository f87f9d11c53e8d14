--------------------------- MODULE MCSharedIndex ---------------------------
(* Small instances of SharedIndex: two sources, two documents, bodies that *)
(* share a chunk.                                                          *)
EXTENDS SharedIndex, TLC

CONSTANTS s1, s2, a, b, h1, h2

\* The key of document b lies between those of document a.
UriOf == <<a, b, a>>
ChunksOf == (h1 :> {1, 3}) @@ (h2 :> {1, 2})

Apart == (s1 :> {a}) @@ (s2 :> {b})

\* Say, a GitLab project, and the group it belongs to.
Overlapping == (s1 :> {a}) @@ (s2 :> {a, b})

AllBackends == {"qdrant", "elasticsearch", "pgvector"}
Elasticsearch == {"elasticsearch"}
=============================================================================
