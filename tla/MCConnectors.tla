---------------------------- MODULE MCConnectors ----------------------------
(* Instances of Connectors: five documents, of which two fill a page. *)
EXTENDS Connectors

CONSTANTS a, b, c, d, e

RankOf == (a :> 1) @@ (b :> 2) @@ (c :> 3) @@ (d :> 4) @@ (e :> 5)

\* In the page tree b, c and d are below a, and e is below d.
ParentOf == (a :> a) @@ (b :> a) @@ (c :> a) @@ (d :> a) @@ (e :> d)

Plainly == [ext |-> TRUE, inc |-> TRUE, exc |-> FALSE, part |-> TRUE, big |-> FALSE,
            body |-> TRUE, mime |-> "file", home |-> {1}]
MetaOf ==
     (a :> Plainly)
  @@ (b :> [Plainly EXCEPT !.big = TRUE])
  @@ (c :> [Plainly EXCEPT !.ext = FALSE, !.body = FALSE, !.mime = "doc", !.home = {2}])
  @@ (d :> [Plainly EXCEPT !.part = FALSE, !.inc = FALSE, !.home = {1, 2}])
  @@ (e :> [Plainly EXCEPT !.body = FALSE])

Group == << [id |-> 1, inc |-> TRUE, exc |-> FALSE, bare |-> FALSE],
            [id |-> 2, inc |-> TRUE, exc |-> FALSE, bare |-> TRUE] >>

Conf(k, s, g, m) == [kind |-> k, scope |-> s, globs |-> g, capped |-> m, full |-> FALSE]
Full(o) == [o EXCEPT !.full = TRUE]
Options ==
       {Conf(k, s, FALSE, FALSE) : k \in {"confluence", "gitlab"}, s \in {"all", "part"}}
  \cup {Conf(k, "all", FALSE, FALSE) : k \in {"jira", "notion", "none"}}
  \cup {Conf(k, "part", FALSE, TRUE) : k \in {"github", "s3", "gdrive"}}
  \cup {Conf(k, "all", TRUE, TRUE) : k \in {"github", "sharepoint", "gitlab"}}
  \cup {Conf(k, "all", FALSE, m) : k \in {"url", "fs", "provider"}, m \in BOOLEAN}
  \cup {Full(Conf(k, "all", FALSE, TRUE)) : k \in {"confluence", "s3", "provider"}}

\* Three documents of five, and the whole tree.
AllWorlds ==
       {[opt |-> o, docs |-> {a, b, c}] : o \in Options}
  \cup {[opt |-> Full(Conf("confluence", "part", FALSE, FALSE)), docs |-> Docs]}
=============================================================================
