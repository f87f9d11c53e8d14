---------------------------- MODULE StartupProofs ----------------------------
(* Theorems about Startup, for every set of plugins and every world.         *)
EXTENDS Startup, TLAPS

(***************************************************************************)
(* Installing a plugin, with or without a clash, keeps the others whole:   *)
(* a type that is taken is given again only by the factory it has.         *)
(***************************************************************************)
LEMMA InstallKeepsWhole ==
  ASSUME NEW p, ListedIsWhole, Install(p)
  PROVE  ListedIsWhole'
<1> SUFFICES ASSUME NEW q \in listed', NEW s \in Offered(q)
             PROVE  bound'[s] = Offers[q][s]
  BY DEF ListedIsWhole, Offered
<1>1. s \in Slots /\ Offers[q][s] # Nobody
  BY DEF Offered
<1>2. bound'[s] = IF s \in Registered(p) THEN Offers[p][s] ELSE bound[s]
  BY <1>1 DEF Install, Bound
<1>3. CASE q \in listed
  <2>1. bound[s] = Offers[q][s]
    BY <1>3 DEF ListedIsWhole
  <2>2. CASE s \in Registered(p)
    <3>1. s \notin Clashes(p)
      BY <1>1, <2>2, StartupAssumption DEF Registered
    <3> QED
      BY <1>1, <1>2, <2>1, <2>2, <3>1 DEF Registered, Clashes
  <2> QED
    BY <1>2, <2>1, <2>2
<1>4. CASE q \notin listed
  <2>1. q = p /\ Clashes(p) = {}
    BY <1>4 DEF Install, Listed
  <2>2. s \in Registered(p)
    BY <2>1 DEF Registered
  <2> QED
    BY <1>2, <2>1, <2>2
<1> QED
  BY <1>3, <1>4

\* The actions that install nothing leave the registry as it is.
LEMMA RegistryKept ==
  ASSUME ListedIsWhole, UNCHANGED <<bound, listed>>
  PROVE  ListedIsWhole'
BY DEF ListedIsWhole, Offered

\* PluginRegistry.install keeps every listed plugin whole in every run.
THEOREM WholePlugins == Spec => []ListedIsWhole
<1>1. Init => ListedIsWhole
  BY DEF Init, ListedIsWhole
<1>2. ListedIsWhole /\ [Next]_vars => ListedIsWhole'
  <2> SUFFICES ASSUME ListedIsWhole, [Next]_vars PROVE ListedIsWhole'
    OBVIOUS
  <2>1. CASE Discover
    BY <2>1, InstallKeepsWhole, RegistryKept DEF Discover, registry
  <2>2. CASE LoadFile
    BY <2>2, InstallKeepsWhole, RegistryKept DEF LoadFile, registry
  <2>3. CASE InstallAttribute
    BY <2>3, InstallKeepsWhole DEF InstallAttribute
  <2>4. ASSUME NEW i \in DOMAIN results, RunEngine(i) PROVE ListedIsWhole'
    BY <2>4, RegistryKept DEF RunEngine, registry
  <2>5. CASE Main \/ Options \/ LoadEnvFile \/ Serve
    BY <2>5, RegistryKept DEF Main, Options, LoadEnvFile, Serve, registry
  <2>6. CASE Load \/ Loaded \/ Finish
    BY <2>6, RegistryKept DEF Load, Loaded, Finish, registry
  <2>7. CASE Ended \/ UNCHANGED vars
    BY <2>7, RegistryKept DEF Ended, vars, registry
  <2> QED
    BY <2>1, <2>2, <2>3, <2>4, <2>5, <2>6, <2>7 DEF Next
<1> QED
  BY <1>1, <1>2, PTL DEF Spec

(***************************************************************************)
(* Why no reference is unset: the environment does not change once the     *)
(* .env file is read, and a configuration joins the engines only when the  *)
(* environment has every reference of it.  `validate` loads more, and runs *)
(* nothing.                                                                *)
(***************************************************************************)
Before == {"main", "options", "discover", "local", "attribute", "serve"}

Served == \A i \in DOMAIN engines : MissingEnv(engines[i]) = {}

References ==
  /\ world \in Worlds
  /\ engines \in Seq(Configs)
  /\ at \in Nat \ {0}
  /\ pc \in Before \cup {"load"} => results = <<>>
  /\ pc \in Before => engines = <<>>
  /\ DOMAIN results \subseteq DOMAIN engines
  /\ results # <<>> => world.command = "run"
  /\ world.command # "validate" => Served

\* A reference the environment has is resolved by the environment's resolver.
LEMMA PresentResolves ==
  ASSUME NEW c, MissingEnv(c) = {}, resolver = "env", NEW r \in c.refs
  PROVE  ResolveSecret(r)
BY DEF MissingEnv, ResolveSecret

\* A step that loads nothing, runs nothing and keeps the environment.
LEMMA ReferencesKept ==
  ASSUME References, UNCHANGED <<world, environ, engines, results>>, at' \in Nat \ {0},
         pc' \in Before => pc \in Before, pc' = "load" => pc \in Before \cup {"load"}
  PROVE  References'
<1>1. Served => Served'
  BY DEF Served, MissingEnv
<1> QED
  BY <1>1 DEF References

LEMMA ReferencesInductive == References /\ [Next]_vars => References'
<1> SUFFICES ASSUME References, [Next]_vars PROVE References'
  OBVIOUS
<1>1. CASE Main \/ Options
  BY <1>1, ReferencesKept DEF References, Before, Main, Options, End
<1>2. CASE Discover
  <2>1. at' \in Nat \ {0} /\ pc' \in {"discover", "local", "ended"}
    BY <1>2 DEF References, Discover, End
  <2> QED
    BY <1>2, <2>1, ReferencesKept DEF Before, Discover
<1>3. CASE LoadFile \/ InstallAttribute
  <2>1. at' \in Nat \ {0} /\ pc' \in {"local", "attribute", "ended"}
    BY <1>3 DEF References, LoadFile, InstallAttribute, End
  <2> QED
    BY <1>3, <2>1, ReferencesKept DEF Before, LoadFile, InstallAttribute
<1>4. CASE LoadEnvFile
  BY <1>4 DEF References, Before, LoadEnvFile, End, Served
<1>5. CASE Serve
  BY <1>5, ReferencesKept DEF References, Before, Serve, End
<1>6. CASE Load
  <2>1. at \in DOMAIN world.configs /\ world.configs[at] \in Configs
    BY <1>6, StartupAssumption DEF Load, References
  <2>2. CASE UNCHANGED engines
    <3>1. pc' \in {"load", "ended"} /\ at' \in Nat \ {0}
      BY <1>6, <2>2 DEF References, Load, End
    <3> QED
      BY <1>6, <2>2, <3>1, ReferencesKept DEF Before, Load
  <2>3. CASE engines' # engines
    <3>1. engines' = Append(engines, world.configs[at])
      BY <1>6, <2>3 DEF Load
    <3>2. world.command # "validate" => MissingEnv(world.configs[at]) = {}
      BY <1>6, <2>3 DEF Load
    <3>3. environ' = environ /\ world' = world
      BY <1>6 DEF Load
    <3>4. ASSUME world.command # "validate", NEW i \in DOMAIN engines'
          PROVE  MissingEnv(engines'[i]) = {}
      <4>1. CASE i \in DOMAIN engines
        <5>1. engines'[i] = engines[i]
          BY <2>1, <3>1, <4>1 DEF References
        <5> QED
          BY <3>4, <4>1, <5>1 DEF References, Served
      <4>2. CASE i \notin DOMAIN engines
        <5>1. engines'[i] = world.configs[at]
          BY <2>1, <3>1, <3>4, <4>2 DEF References
        <5> QED
          BY <3>2, <3>4, <5>1
      <4> QED
        BY <4>1, <4>2
    <3>5. world.command # "validate" => Served'
      BY <3>3, <3>4 DEF Served, MissingEnv
    <3> QED
      BY <1>6, <2>1, <3>1, <3>5 DEF References, Before, Load, End
  <2> QED
    BY <2>2, <2>3
<1>7. CASE Loaded
  <2>1. Served => Served'
    BY <1>7 DEF Loaded, Served, MissingEnv
  <2>2. pc = "load" /\ pc' \in {"run", "ended"} /\ UNCHANGED <<world, at, engines>>
    BY <1>7 DEF Loaded, End
  <2>3. \/ results' = results
        \/ DOMAIN results' = DOMAIN engines /\ world.command = "run"
    BY <1>7 DEF Loaded
  <2> QED
    BY <2>1, <2>2, <2>3 DEF References, Before
<1>8. ASSUME NEW i \in DOMAIN results, RunEngine(i) PROVE References'
  <2>1. pc = "run" /\ UNCHANGED <<pc, world, environ, at, engines>> /\ DOMAIN results' = DOMAIN results
    BY <1>8 DEF RunEngine
  <2>2. results # <<>>
    BY <1>8
  <2>3. Served => Served'
    BY <2>1 DEF Served, MissingEnv
  <2> QED
    BY <2>1, <2>2, <2>3 DEF References, Before
<1>9. CASE Finish
  BY <1>9, ReferencesKept DEF References, Before, Finish, End
<1>10. CASE Ended \/ UNCHANGED vars
  BY <1>10, ReferencesKept DEF References, Ended, vars
<1> QED
  BY <1>1, <1>2, <1>3, <1>4, <1>5, <1>6, <1>7, <1>8, <1>9, <1>10 DEF Next

\* No pipeline that was let through finds a reference of its configuration
\* unset, whatever the worlds and the environment variables are.
THEOREM ReferencesSet == Spec => []NoReferenceUnset
<1>1. Init => References /\ NoReferenceUnset
  BY DEF Init, References, Before, Served, NoReferenceUnset
<1>2. References /\ [Next]_vars => References'
  BY ReferencesInductive
<1>3. References /\ NoReferenceUnset /\ [Next]_vars => NoReferenceUnset'
  <2> SUFFICES ASSUME References, NoReferenceUnset, [Next]_vars PROVE NoReferenceUnset'
    OBVIOUS
  <2>1. ASSUME NEW i \in DOMAIN results, RunEngine(i) PROVE NoReferenceUnset'
    <3>1. CASE resolver = "env"
      <4>1. \A x \in engines[i].refs : ResolveSecret(x)
        BY <2>1, <3>1, PresentResolves DEF References, Served
      <4>2. results'[i] # "unset"
        BY <2>1, <4>1 DEF RunEngine
      <4> QED
        BY <2>1, <4>2 DEF RunEngine, NoReferenceUnset
    <3> QED
      BY <2>1, <3>1 DEF RunEngine, NoReferenceUnset
  <2>2. CASE Main
    BY <2>2 DEF Main, NoReferenceUnset, References, Before
  <2>3. CASE Loaded
    BY <2>3 DEF Loaded, NoReferenceUnset
  <2>4. CASE Options \/ Discover \/ LoadFile \/ InstallAttribute \/ LoadEnvFile \/ Serve \/ Load \/ Finish
    <3>1. CASE Options \/ Discover \/ LoadFile \/ InstallAttribute
      BY <3>1 DEF Options, Discover, LoadFile, InstallAttribute, NoReferenceUnset
    <3>2. CASE LoadEnvFile \/ Serve \/ Load \/ Finish
      BY <3>2 DEF LoadEnvFile, Serve, Load, Finish, NoReferenceUnset
    <3> QED
      BY <2>4, <3>1, <3>2
  <2>5. CASE Ended \/ UNCHANGED vars
    BY <2>5 DEF Ended, vars, NoReferenceUnset
  <2> QED
    BY <2>1, <2>2, <2>3, <2>4, <2>5 DEF Next
<1> QED
  BY <1>1, <1>2, <1>3, PTL DEF Spec
(***************************************************************************)
(* What the check of a configuration lets through, the factories build:    *)
(* the table of the check and the tables of the factories agree on every   *)
(* kind, and both ask the same registry for the rest.                      *)
(***************************************************************************)
LEMMA SupportedIsBuilt ==
  ASSUME NEW c, Problems(c) = {}
  PROVE  Implemented(c)
<1>1. \A kind \in Kinds :
        \/ c.uses[kind] \in KnownBuiltIns(kind)
        \/ FromPlugin(kind, c.uses[kind])
        \/ kind = "indexer" /\ c.uses[kind] = Absent
  BY DEF Problems
<1>2. BuildSource(c.uses["source"])
  BY <1>1 DEF Kinds, KnownBuiltIns, BuildSource
<1>3. BuildExtractor(c.uses["extractor"])
  BY <1>1 DEF Kinds, KnownBuiltIns, BuildExtractor
<1>4. BuildChunker(c.uses["chunker"])
  BY <1>1 DEF Kinds, KnownBuiltIns, BuildChunker
<1>5. BuildEmbedder(c.uses["embedder"])
  BY <1>1 DEF Kinds, KnownBuiltIns, BuildEmbedder
<1>6. c.uses["indexer"] = Absent \/ BuildIndexer(c.uses["indexer"])
  BY <1>1 DEF Kinds, KnownBuiltIns, BuildIndexer
<1> QED
  BY <1>2, <1>3, <1>4, <1>5, <1>6 DEF Implemented

\* A command that has a verdict does nothing more.
Decided == end.why = "valid" => pc = "ended"

\* A step that changes neither the engines nor the registry keeps what was
\* accepted: an adapter of a plugin is there as long as the registry is.
LEMMA AcceptedKept ==
  ASSUME AcceptedIsBuilt, UNCHANGED <<bound, engines, results>>, end'.why = "valid" => end' = end
  PROVE  AcceptedIsBuilt'
BY DEF AcceptedIsBuilt, Implemented, BuildSource, BuildExtractor, BuildChunker, BuildEmbedder,
       BuildIndexer, FromPlugin

\* A step before the verdict that gives none, whatever it installs.
LEMMA NoVerdictYet ==
  ASSUME AcceptedIsBuilt, UNCHANGED results, end'.why # "valid"
  PROVE  AcceptedIsBuilt'
BY DEF AcceptedIsBuilt

\* validate, --dry-run and the check before a run accept only what has an
\* adapter for each stage, with any plugins.
THEOREM AcceptedHasAdapters == Spec => []AcceptedIsBuilt
<1>1. Init => AcceptedIsBuilt /\ Decided
  <2>1. ASSUME Init PROVE results = <<>> /\ end.why # "valid"
    BY <2>1 DEF Init, NotYet
  <2> QED
    BY <2>1 DEF AcceptedIsBuilt, Decided
<1>2. AcceptedIsBuilt /\ Decided /\ [Next]_vars => (AcceptedIsBuilt /\ Decided)'
  <2> SUFFICES ASSUME AcceptedIsBuilt, Decided, [Next]_vars PROVE (AcceptedIsBuilt /\ Decided)'
    OBVIOUS
  <2>1. CASE Main \/ Options
    BY <2>1, NoVerdictYet DEF Main, Options, End, Decided
  <2>2. CASE Discover
    BY <2>2, NoVerdictYet DEF Discover, End, Decided
  <2>3. CASE LoadFile \/ InstallAttribute
    BY <2>3, NoVerdictYet DEF LoadFile, InstallAttribute, End, Decided
  <2>4. CASE LoadEnvFile \/ Serve
    <3>1. CASE LoadEnvFile
      BY <3>1, NoVerdictYet DEF LoadEnvFile, End, Decided
    <3>2. CASE Serve
      BY <3>2, NoVerdictYet DEF Serve, End, Decided
    <3> QED
      BY <2>4, <3>1, <3>2
  <2>5. CASE Load
    BY <2>5, NoVerdictYet DEF Load, End, Decided
  <2>6. CASE Loaded
    <3>1. UNCHANGED <<bound, engines>> /\ pc = "load" /\ end.why # "valid"
      BY <2>6 DEF Loaded, registry, Decided
    <3>2. CASE pc' = "run"
      <4>1. \A i \in DOMAIN results' : results'[i] # "unimplemented"
        BY <2>6, <3>2 DEF Loaded, End
      <4>2. end' = end
        BY <2>6, <3>2 DEF Loaded, End
      <4> QED
        BY <3>1, <4>1, <4>2 DEF AcceptedIsBuilt, Decided
    <3>3. CASE pc' = "ended" /\ end'.why # "valid"
      BY <2>6, <3>3, NoVerdictYet DEF Loaded, End, Decided
    <3>4. CASE pc' = "ended" /\ end'.why = "valid"
      <4>1. results' = results /\ \A c \in Range(engines) : Problems(c) = {}
        BY <2>6, <3>4 DEF Loaded, End
      <4>2. \A c \in Range(engines) : Implemented(c)
        BY <4>1, SupportedIsBuilt
      <4>3. \A c \in Range(engines') : Implemented(c)'
        BY <3>1, <4>2 DEF Implemented, BuildSource, BuildExtractor, BuildChunker, BuildEmbedder,
                          BuildIndexer, FromPlugin
      <4> QED
        BY <3>4, <4>1, <4>3 DEF AcceptedIsBuilt, Decided
    <3> QED
      BY <2>6, <3>2, <3>3, <3>4 DEF Loaded, End
  <2>7. ASSUME NEW i \in DOMAIN results, RunEngine(i) PROVE (AcceptedIsBuilt /\ Decided)'
    <3>1. results'[i] # "unimplemented"
      BY <2>7, SupportedIsBuilt DEF RunEngine
    <3>2. \A j \in DOMAIN results' : results'[j] # "unimplemented"
      BY <2>7, <3>1 DEF RunEngine, AcceptedIsBuilt
    <3>3. UNCHANGED <<pc, end>> /\ end.why # "valid"
      BY <2>7 DEF RunEngine, Decided
    <3> QED
      BY <3>2, <3>3 DEF AcceptedIsBuilt, Decided
  <2>8. CASE Finish
    BY <2>8, NoVerdictYet DEF Finish, End, Decided
  <2>9. CASE Ended \/ UNCHANGED vars
    BY <2>9, AcceptedKept DEF Ended, vars, registry, Decided
  <2> QED
    BY <2>1, <2>2, <2>3, <2>4, <2>5, <2>6, <2>7, <2>8, <2>9 DEF Next
<1> QED
  BY <1>1, <1>2, PTL DEF Spec
=============================================================================
