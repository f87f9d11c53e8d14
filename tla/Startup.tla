------------------------------- MODULE Startup -------------------------------
(***************************************************************************)
(* One process of the command line, from main to the end of the command:   *)
(* the secrets backend is chosen, plugins are installed from entry points  *)
(* and from files, the .env file is read, the configurations are loaded    *)
(* and checked, and `run` builds one engine for each of them.              *)
(*                                                                         *)
(* A world is what a process finds.  Its entry points and files, in the    *)
(* order they are met:                                                     *)
(*   [key, yields]                        an entry point;                  *)
(*   [key, helper, calls, raises, sets]   a file: install_plugin is called *)
(*       with `calls`, then the module raises or sets `plugin` to `sets`.  *)
(* A configuration is [file, schema, acl, bytes, limits, cache, uses,      *)
(* refs]: what its file is, what the validators look at, the type it uses  *)
(* for each kind of adapter, and the references of its *_env keys.         *)
(***************************************************************************)
EXTENDS Naturals, Sequences, SequencesExt, FiniteSets

CONSTANTS
  Plugins,   \* the declarations packages and files may make
  Slots,     \* the <<kind, type>> pairs they give factories for
  Factories,
  Nobody,    \* no factory, no plugin
  Offers,    \* [Plugins -> [Slots -> Factories \cup {Nobody}]]
  Turn,      \* [Slots -> Nat]: the place of a slot in the loops of install
  Worlds,    \* what a process may find
  Names,     \* environment variables
  Unset,     \* no value, and no entry in a configuration
  Absent     \* no index stage

Configs == UNION {Range(w.configs) : w \in Worlds}

ASSUME StartupAssumption ==
  /\ \A w \in Worlds : w.configs \in Seq(Configs)
  /\ Nobody \notin Factories
  /\ Offers \in [Plugins -> [Slots -> Factories \cup {Nobody}]]
  /\ Turn \in [Slots -> Nat]

VARIABLES
  pc,        \* the next thing to do
  world,
  resolver,  \* secrets._resolver
  environ,   \* os.environ
  bound,     \* PluginRegistry._by_kind
  listed,    \* PluginRegistry._plugins
  keys,      \* _loaded_entry_points and _local_modules
  at,        \* the entry point, file or configuration that is next
  engines,   \* the configurations loaded so far
  results,   \* what became of each engine
  server,    \* the /metrics server is up
  end        \* how the command ended

registry == <<bound, listed, keys>>
vars == <<pc, world, resolver, environ, registry, at, engines, results, server, end>>

NotYet == [code |-> 0, why |-> "undecided"]

(* ----------------------------- the registry ----------------------------- *)

Offered(p) == {s \in Slots : Offers[p][s] # Nobody}

\* Mutant of Clashes: the latest wins.
ClashesNever(p) == {s \in Offered(p) : FALSE}

\* Types of p another plugin already gives another factory.
Clashes(p) == {s \in Offered(p) : bound[s] \notin {Nobody, Offers[p][s]}}

\* install registers one type after the other and stops at the first clash.
\* What came before the clash stays.
Registered(p) == {s \in Offered(p) : \A c \in Clashes(p) : Turn[s] < Turn[c]}

Bound(p) == [s \in Slots |-> IF s \in Registered(p) THEN Offers[p][s] ELSE bound[s]]

Listed(p) == IF Clashes(p) = {} THEN listed \cup {p} ELSE listed

(* ---------------------- environment and secrets ---------------------- *)

\* load_dotenv: a variable that is there wins, so of two lines the first.
LoadDotenv(lines) ==
  LET Set(env, line) == IF line.name \in Names /\ env[line.name] = Unset
                          THEN [env EXCEPT ![line.name] = line.value]
                          ELSE env
  IN FoldLeft(Set, environ, lines)

\* Mutant of MissingEnv: an empty value passes.
MissingEnvUnset(c) == {r \in c.refs : r \notin Names \/ environ[r] = Unset}

\* missing_env: references without a value, whatever the resolver.
MissingEnv(c) == {r \in c.refs : r \notin Names \/ environ[r] \in {Unset, ""}}

\* A reference of Vault names a field of a secret it may hold.
ResolveSecret(r) ==
  IF resolver = "vault" THEN r \in world.vault ELSE r \in Names /\ environ[r] \notin {Unset, ""}

(* ---------------------------- configurations ---------------------------- *)

ValidSource(c) == c.acl \in {Unset, "strings"}
ValidExtract(c) == c.bytes = Unset \/ c.bytes >= 1
ValidChunk(c) == c.limits.size >= 1 /\ c.limits.overlap >= 0
ValidEmbed(c) == c.cache \in {Unset, "memory", "file"}
ValidSchema(c) == c.schema = 1

LoadConfig(c) ==
  /\ c.file = "mapping"
  /\ ValidSource(c) /\ ValidExtract(c) /\ ValidChunk(c) /\ ValidEmbed(c) /\ ValidSchema(c)

(* -------------------- what is supported and what is built ------------- *)

Kinds == {"source", "extractor", "chunker", "embedder", "indexer"}

KnownBuiltIns(kind) ==
  CASE kind = "source" -> {"fs", "confluence", "github", "gitlab", "s3", "static_url", "notion", "jira",
                           "sharepoint", "gdrive", "none"}
    [] kind = "extractor" -> {"auto"}
    [] kind = "chunker" -> {"auto", "sections", "size"}
    [] kind = "embedder" -> {"default", "openai"}
    [] kind = "indexer" -> {"memory", "qdrant", "pgvector", "sqlite", "elasticsearch"}

FromPlugin(kind, type) == <<kind, type>> \in Slots /\ bound[<<kind, type>>] # Nobody

Problems(c) ==
  {kind \in Kinds : /\ c.uses[kind] \notin KnownBuiltIns(kind)
                    /\ ~FromPlugin(kind, c.uses[kind])
                    /\ kind = "indexer" => c.uses[kind] # Absent}

BuildSource(type) ==
  \/ type \in {"fs", "confluence", "github", "gitlab", "s3", "static_url", "notion", "jira", "sharepoint",
               "gdrive", "none"}
  \/ FromPlugin("source", type)
BuildExtractor(type) == type = "auto" \/ FromPlugin("extractor", type)
\* Mutant of BuildChunker: a strategy is missing.
BuildChunkerLost(type) == type \in {"auto", "size"} \/ FromPlugin("chunker", type)
BuildChunker(type) == type \in {"auto", "sections", "size"} \/ FromPlugin("chunker", type)
BuildEmbedder(type) == type \in {"default", "openai"} \/ FromPlugin("embedder", type)
BuildIndexer(type) ==
  type \in {"memory", "qdrant", "pgvector", "sqlite", "elasticsearch"} \/ FromPlugin("indexer", type)

\* Every adapter of c can be built.
Implemented(c) ==
  /\ BuildSource(c.uses["source"])
  /\ BuildExtractor(c.uses["extractor"])
  /\ BuildChunker(c.uses["chunker"])
  /\ BuildEmbedder(c.uses["embedder"])
  /\ c.uses["indexer"] = Absent \/ BuildIndexer(c.uses["indexer"])

(* ------------------------------- the process --------------------------- *)

Init ==
  /\ pc = "main" /\ world \in Worlds
  /\ resolver = "env" /\ environ = world.shell
  /\ bound = [s \in Slots |-> Nobody] /\ listed = {} /\ keys = {}
  /\ at = 1 /\ engines = <<>> /\ results = <<>>
  /\ server = FALSE /\ end = NotYet

End(code, why) == pc' = "ended" /\ end' = [code |-> code, why |-> why]

\* configure_from_env, before any option of the command is looked at.
Main ==
  /\ pc = "main"
  /\ resolver' = IF environ["BACKEND"] = "vault" THEN "vault" ELSE "env"
  /\ pc' = "options"
  /\ UNCHANGED <<world, environ, registry, at, engines, results, server, end>>

\* --log-level, --parallel, --interval and --metrics-port of `run`.
Options ==
  /\ pc = "options"
  /\ IF world.command \in {"run", "dry-run"} /\ ~world.options
       THEN End(2, "options")
       ELSE pc' = "discover" /\ UNCHANGED end
  /\ UNCHANGED <<world, resolver, environ, registry, at, engines, results, server>>

Install(p) == bound' = Bound(p) /\ listed' = Listed(p)

\* One entry point.  An error of its own is skipped, a clash is not.
Discover ==
  /\ pc = "discover"
  /\ UNCHANGED <<world, resolver, environ, engines, results, server>>
  /\ IF at > Len(world.entries)
       THEN pc' = "local" /\ at' = 1 /\ UNCHANGED <<registry, end>>
       ELSE LET entry == world.entries[at] IN
            /\ keys' = keys \cup {entry.key}
            /\ at' = at + 1
            /\ IF entry.key \in keys \/ entry.yields \notin Plugins
                 THEN UNCHANGED <<bound, listed, pc, end>>
                 ELSE /\ Install(entry.yields)
                      /\ IF Clashes(entry.yields) = {} THEN UNCHANGED <<pc, end>> ELSE End(1, "clash")

\* The module runs: what it installs itself stays, whatever happens after.
LoadFile ==
  /\ pc = "local"
  /\ at <= Len(world.files)
  /\ LET file == world.files[at] IN
     IF file.helper \/ file.key \in keys
       THEN at' = at + 1 /\ UNCHANGED <<registry, pc>>
       ELSE /\ keys' = keys \cup {file.key}
            /\ IF file.calls \in Plugins THEN Install(file.calls) ELSE UNCHANGED <<bound, listed>>
            /\ LET failed == file.raises \/ (file.calls \in Plugins /\ Clashes(file.calls) # {})
               IN IF ~failed /\ file.sets \in Plugins
                    THEN pc' = "attribute" /\ at' = at
                    ELSE pc' = pc /\ at' = at + 1
  /\ UNCHANGED <<world, resolver, environ, engines, results, server, end>>

\* The `plugin` attribute of the module that has run.
InstallAttribute ==
  /\ pc = "attribute"
  /\ LET p == world.files[at].sets IN
     /\ Install(p)
     /\ IF Clashes(p) = {} THEN pc' = "local" /\ UNCHANGED end ELSE End(1, "clash")
  /\ at' = at + 1
  /\ UNCHANGED <<world, resolver, environ, keys, engines, results, server>>

LoadEnvFile ==
  /\ pc = "local" /\ at > Len(world.files)
  /\ at' = 1
  /\ IF world.command = "plugins"
       THEN End(0, "listed") /\ UNCHANGED environ
       ELSE environ' = LoadDotenv(world.dotenv) /\ pc' = "serve" /\ UNCHANGED end
  /\ UNCHANGED <<world, resolver, registry, engines, results, server>>

\* The port of --metrics-port may be taken.  Without paths there must be
\* configurations in the usual places.
Serve ==
  /\ pc = "serve"
  /\ server' \in IF world.port /\ world.command \in {"run", "dry-run"} THEN BOOLEAN ELSE {FALSE}
  /\ IF world.port /\ world.command \in {"run", "dry-run"} /\ ~server' THEN End(1, "port")
     ELSE IF world.configs = <<>> THEN End(2, "unconfigured")
     ELSE pc' = "load" /\ UNCHANGED end
  /\ UNCHANGED <<world, resolver, environ, registry, at, engines, results>>

\* _fail_missing_env stops `run` and `status` only, `validate` reports.
Load ==
  /\ pc = "load"
  /\ at <= Len(world.configs)
  /\ LET c == world.configs[at] IN
     IF ~LoadConfig(c)
       THEN /\ IF world.command = "status" THEN UNCHANGED <<pc, end>> ELSE End(1, "config")
            /\ UNCHANGED engines
     ELSE IF world.command # "validate" /\ MissingEnv(c) # {}
       THEN End(1, "missing") /\ UNCHANGED engines
     ELSE engines' = Append(engines, c) /\ UNCHANGED <<pc, end>>
  /\ at' = at + 1
  /\ UNCHANGED <<world, resolver, environ, registry, results, server>>

Loaded ==
  /\ pc = "load"
  /\ at > Len(world.configs)
  /\ \/ /\ world.command = "run"
        /\ pc' = "run" /\ results' = [i \in DOMAIN engines |-> "waiting"] /\ UNCHANGED end
     \/ world.command = "status" /\ End(0, "reported") /\ UNCHANGED results
     \/ /\ world.command \in {"dry-run", "validate"}
        /\ IF \E c \in Range(engines) :
                Problems(c) # {} \/ (world.command = "validate" /\ MissingEnv(c) # {})
             THEN End(1, "invalid") ELSE End(0, "valid")
        /\ UNCHANGED results
  /\ UNCHANGED <<world, resolver, environ, registry, at, engines, server>>

\* One engine, in any order with the others.  The adapters resolve their
\* references when they are built or at their first request.
RunEngine(i) ==
  /\ pc = "run" /\ results[i] = "waiting"
  /\ \E r \in {"ok", "failed", "unimplemented", "unset"} :
       /\ CASE Problems(engines[i]) # {} -> r = "failed"
            [] Problems(engines[i]) = {} /\ ~Implemented(engines[i]) -> r = "unimplemented"
            [] Problems(engines[i]) = {} /\ Implemented(engines[i]) ->
                 IF \A x \in engines[i].refs : ResolveSecret(x) THEN r \in {"ok", "failed"} ELSE r = "unset"
       /\ results' = [results EXCEPT ![i] = r]
  /\ UNCHANGED <<pc, world, resolver, environ, registry, at, engines, server, end>>

\* An adapter without its secret raises what run does not catch.
Finish ==
  /\ pc = "run"
  /\ \A i \in DOMAIN results : results[i] # "waiting"
  /\ server' = FALSE
  /\ IF \A i \in DOMAIN results : results[i] = "ok" THEN End(0, "ran") ELSE End(1, "failed")
  /\ UNCHANGED <<world, resolver, environ, registry, at, engines, results>>

Ended == pc = "ended" /\ UNCHANGED vars

Next ==
  \/ Main \/ Options \/ Discover \/ LoadFile \/ InstallAttribute \/ LoadEnvFile \/ Serve \/ Load \/ Loaded
  \/ \E i \in DOMAIN results : RunEngine(i)
  \/ Finish
  \/ Ended

Spec == Init /\ [][Next]_vars

(* ------------------------------ properties ------------------------------ *)

TypeOK ==
  /\ pc \in {"main", "options", "discover", "local", "attribute", "serve", "load", "run", "ended"}
  /\ resolver \in {"env", "vault"}
  /\ bound \in [Slots -> Factories \cup {Nobody}]
  /\ listed \subseteq Plugins
  /\ server \in BOOLEAN

\* A plugin `alvis plugins` lists has every type it declares, from its own
\* factory, whatever was installed after it and however badly
\* (PluginRegistry.install, plugin.py:144-155).
ListedIsWhole == \A p \in listed : \A s \in Offered(p) : bound[s] = Offers[p][s]

\* With secrets from the environment no pipeline that was let through finds a
\* reference of its configuration unset: `run` fails before, not mid-request
\* (env.py:9-13), however the .env file, the shell and several
\* configurations mix.
NoReferenceUnset == resolver = "env" => \A i \in DOMAIN results : results[i] # "unset"

\* What `validate`, --dry-run and the check before a run accept has an
\* adapter for each stage, from the factories or from a plugin
\* (registry.py:57-88 against factories.py:101-223).
AcceptedIsBuilt ==
  /\ \A i \in DOMAIN results : results[i] # "unimplemented"
  /\ end.why = "valid" => \A c \in Range(engines) : Implemented(c)

\* With ALVIS_SECRETS_BACKEND=vault "every existing `*_env` config key then
\* names a `<mount>/<path>#<key>` Vault reference instead of an env var, with
\* no other config changes" (README.md:78-80): a reference that Vault holds is
\* not a missing environment variable.
VaultReferencesServe ==
  resolver = "vault" /\ (\A c \in Range(world.configs) : c.refs \subseteq world.vault)
    => end.why # "missing"
=============================================================================
