------------------------------ MODULE MCStartup ------------------------------
(* Three packages, two of which fight over a type, and two configurations.   *)
EXTENDS Startup, TLC

CONSTANTS catalog, rival, tool, f1, f2, f3, f4

Catalog == <<"source", "catalog">>
Words == <<"chunker", "words">>
Store == <<"indexer", "store">>
SlotsOf == {Catalog, Words, Store}
TurnOf == (Catalog :> 1) @@ (Words :> 2) @@ (Store :> 3)
OffersOf ==
  (catalog :> ((Catalog :> f1) @@ (Words :> f2) @@ (Store :> Nobody)))
  @@ (rival :> ((Catalog :> Nobody) @@ (Words :> f3) @@ (Store :> f4)))
  @@ (tool :> ((Catalog :> f1) @@ (Words :> Nobody) @@ (Store :> f4)))

Plain ==
  [file |-> "mapping", schema |-> 1, acl |-> Unset, bytes |-> Unset, limits |-> [size |-> 1, overlap |-> 0],
   cache |-> Unset, refs |-> {"TOKEN"},
   uses |-> [source |-> "catalog", extractor |-> "auto", chunker |-> "sections", embedder |-> "default",
             indexer |-> Absent]]
Other == [Plain EXCEPT !.uses["source"] = "fs", !.uses["chunker"] = "words", !.uses["indexer"] = "store",
                       !.refs = {"DSN"}]
InVault == [Plain EXCEPT !.uses["source"] = "jira", !.refs = {"secret/alvis#token"}]
Wrong == {[Plain EXCEPT !.file = "missing"], [Plain EXCEPT !.schema = 2], [Plain EXCEPT !.acl = "text"],
          [Plain EXCEPT !.bytes = 0], [Plain EXCEPT !.limits.size = 0], [Plain EXCEPT !.limits.overlap = 0],
          [Plain EXCEPT !.cache = "unknown key"], [Plain EXCEPT !.uses["extractor"] = "ocr"]}

Shell(token, dsn, backend) == ("TOKEN" :> token) @@ ("DSN" :> dsn) @@ ("BACKEND" :> backend)
Line(n, v) == [name |-> n, value |-> v]

Entry(p) == [key |-> <<"entry", p>>, yields |-> p]
File(p, calls, raises, sets) ==
  [key |-> <<"file", p, calls, raises, sets>>, helper |-> FALSE, calls |-> calls, raises |-> raises,
   sets |-> sets]

Basic ==
  [command |-> "run", options |-> TRUE, port |-> FALSE, entries |-> <<>>, files |-> <<>>,
   shell |-> Shell("shell", Unset, Unset), dotenv |-> <<Line("DSN", "file")>>,
   vault |-> {"secret/alvis#token"}, configs |-> <<Plain, Other>>]

EntryLists == {<<>>, <<Entry(catalog), Entry(catalog), Entry(Nobody)>>, <<Entry(catalog), Entry(rival)>>,
               <<Entry(rival)>>, <<Entry(catalog), Entry(tool)>>}
FileLists ==
  {<<>>} \cup {<<File("a", c, r, s)>> : c \in {Nobody, catalog, rival}, r \in BOOLEAN, s \in {Nobody, tool, rival}}
  \cup {<<File("a", catalog, TRUE, Nobody), [File("b", tool, FALSE, tool) EXCEPT !.helper = TRUE],
          File("a", catalog, TRUE, Nobody), File("c", tool, FALSE, tool)>>}

Pluggings ==
  {[Basic EXCEPT !.command = v, !.entries = e, !.files = f] :
     v \in {"run", "dry-run", "plugins"}, e \in EntryLists, f \in FileLists}
Environments ==
  {[Basic EXCEPT !.command = v, !.entries = <<Entry(catalog)>>, !.files = <<File("c", tool, FALSE, Nobody)>>,
                 !.shell = Shell(t, d, b), !.dotenv = l] :
     v \in {"run", "validate", "status"}, t \in {Unset, "", "shell"}, d \in {Unset, "", "shell"},
     b \in {Unset, "vault"},
     l \in {<<>>, <<Line("TOKEN", "file"), Line("DSN", "")>>, <<Line("DSN", ""), Line("DSN", "file")>>,
            <<Line("BACKEND", "vault"), Line("other", "x")>>}}
Configurations ==
  {[Basic EXCEPT !.command = v, !.configs = c, !.port = p, !.options = o] :
     v \in {"run", "dry-run", "validate", "status"}, p \in BOOLEAN, o \in BOOLEAN,
     c \in {<<>>, <<InVault>>, <<Other>>} \cup {<<w>> : w \in Wrong} \cup {<<Plain, w>> : w \in Wrong}}
Vaults ==
  {[Basic EXCEPT !.command = v, !.configs = <<InVault>>, !.shell = Shell(Unset, Unset, b)] :
     v \in {"run", "validate"}, b \in {Unset, "vault"}}

AllWorlds == Pluggings \cup Environments \cup Configurations \cup Vaults
=============================================================================
