----------------------------- MODULE Connectors -----------------------------
(***************************************************************************)
(* The connectors of src/alvis/sources during one run of the engine:       *)
(* list_documents, the choice of what is to be fetched, and                *)
(* fetch(uris=...), which lists again and downloads, while the service     *)
(* (module Remote) changes.                                                *)
(*                                                                         *)
(* A page, and a download, is one step; what HttpClient does to repeat a   *)
(* request is module Fanout's, except for the two connectors whose token   *)
(* may go stale meanwhile (module AccessToken).  A document stands for its *)
(* uri, its id and its path; its revision for its fingerprint and its      *)
(* body.                                                                   *)
(***************************************************************************)
EXTENDS Remote, AccessToken, SequencesExt, FiniteSetsExt

CONSTANTS
  Worlds,    \* the configurations considered, each with the documents there are at first
  Projects,  \* a GitLab group in its order, as [id, inc, exc, bare]
  TreeLimit, \* entries after which GitHub truncates a recursive tree
  Slots,     \* max_concurrency
  Skip,      \* outcome of a request: the document is left out
  Error,     \* outcome of a request: the connector raises
  Empty,     \* in place of a revision: a body of no bytes
  MaxEvents, \* bound: edits and lapses of the token during one run
  Main       \* the task that lists; those that download are named after the document

Kinds == {"confluence", "jira", "github", "gitlab", "s3", "notion", "gdrive", "sharepoint",
          "url", "fs", "provider", "none"}
Option == [kind : Kinds,
           scope : {"all", "part"},  \* everything, or a page, path, prefix, project or folder
           globs : BOOLEAN,          \* include_globs (or pattern) is given
           capped : BOOLEAN,         \* max_bytes is given
           full : BOOLEAN]           \* the run has no state: fetch() without a listing before it

ASSUME ConnectorAssumption ==
  /\ Worlds \subseteq [opt : Option, docs : {S \in SUBSET Docs : \A d \in S : Parent[d] \in S}]
  /\ Projects \in Seq([id : {1, 2}, inc : BOOLEAN, exc : BOOLEAN, bare : BOOLEAN])
  /\ TreeLimit \in Nat \ {0}
  /\ Slots \in Nat \ {0}
  /\ MaxEvents \in Nat
  /\ Main \notin Docs
  /\ Tasks = Docs \cup {Main}
  /\ Skip # Error /\ {Skip, Error} \cap [doc : Docs, rev : Nat \cup {Empty}] = {}
  /\ Empty \notin Nat

VARIABLES
  opt,       \* the configuration
  phase,     \* "list", "probe", "listed", "relist", "download", "done" or "failed"
  cursor,    \* start, start_at, page, token, index of the provider
  items,     \* the listing so far, as entries [doc, rev]
  queue,     \* Confluence: pages whose children are to be listed
  seen,      \* ids met: those of _list_tree and of ProviderSource._all
  projects,  \* GitLab: the projects found so far, as indices of Projects
  resolved,  \* GitLab: _resolved_projects is set
  left,      \* GitLab: projects whose tree is to be listed
  drive,     \* SharePoint: requests made towards _drive_id, two of which yield it
  cut,       \* GitHub: a tree came back truncated
  listed,    \* what list_documents returned
  want,      \* uris
  todo,      \* entries to look at or to download
  located,   \* SharePoint: documents at the second of the two requests of their download
  arts       \* artifacts, as entries [doc, rev] with the revision of their body, or Empty

listVars == <<cursor, items, queue, seen, projects, resolved, left, drive, cut>>
fetchVars == <<listed, want, todo, located, arts>>
vars == <<opt, phase, listVars, fetchVars, remoteVars, tokenVars>>

Entry == [doc : Docs, rev : 0..MaxEdits]
Artifact == [doc : Docs, rev : 0..MaxEdits \cup {Empty}]
Now(d) == [doc |-> d, rev |-> rev[d]]
Entries(s) == [i \in DOMAIN s |-> Now(s[i])]
DocsOf(s) == {e.doc : e \in s}
ByRank(S) == InOrder(S, Rank)
Graph == {"gdrive", "sharepoint"}
Part == opt.scope = "part"
TooBig(d) == opt.capped /\ Meta[d].big

-----------------------------------------------------------------------------
(* Which documents a connector takes.                                       *)

\* By globs: exclude_globs win, include_globs replace the check of the extension.
ByGlobs(d) == ~Meta[d].exc /\ (IF opt.globs THEN Meta[d].inc ELSE Meta[d].ext)
GithubWanted(d) == (Part => Meta[d].part) /\ ByGlobs(d)
GitlabWanted(d) == (Part => Meta[d].part) /\ ByGlobs(d)
S3Wanted(d) == ByGlobs(d)
GdriveWanted(d) ==
  /\ Meta[d].mime \notin {"folder", "sheet"}
  /\ Meta[d].mime = "file" => Meta[d].ext
  /\ ~Meta[d].exc
  /\ opt.globs => Meta[d].inc
SharepointWanted(d) ==
  /\ Meta[d].mime # "folder"
  /\ ~Meta[d].exc
  /\ opt.globs => Meta[d].inc
  /\ Meta[d].ext
FsWanted(d) == IF opt.globs THEN Meta[d].inc ELSE Meta[d].ext
ProjectWanted(p) == ~p.exc /\ p.inc

\* The projects of a group that are asked for; a single project is the first.
Sought == {i \in DOMAIN Projects : IF Part THEN i = 1 ELSE ProjectWanted(Projects[i])}
\* The project a document lies in, and its provider.
Home(d) == Min(Meta[d].home)

\* What each connector is asked for: everything it takes in its scope.
Wanted(d) ==
  /\ opt.kind # "none"
  /\ opt.kind = "github" => GithubWanted(d)
  /\ opt.kind = "gitlab" =>
       /\ GitlabWanted(d)
       /\ \E i \in Sought : Projects[i].id = Home(d) /\ ~Projects[i].bare
  /\ opt.kind = "s3" => S3Wanted(d) /\ (Part => Meta[d].part)
  /\ opt.kind = "gdrive" => GdriveWanted(d) /\ (Part => Meta[d].part)
  /\ opt.kind = "sharepoint" => SharepointWanted(d)
  /\ opt.kind = "fs" => FsWanted(d)
  /\ opt.kind \in {"fs", "url", "provider"} => ~TooBig(d)

-----------------------------------------------------------------------------
(* Pages: what a request for the entries at a cursor returns, and where the *)
(* loop of the connector goes on.                                           *)

\* Mutant of ListSpacePages: a full page is taken for the last.
ListSpacePagesShort(c) ==
  LET page == Window(remote, Rank, c)
  IN [items |-> page, next |-> IF Cardinality(page) <= PageLimit THEN End ELSE c + Cardinality(page)]
ListSpacePages(c) == ByOffset(remote, c)
ListChildren(d, c) == ByOffset({e \in remote \ {d} : parent[e] = d}, c)
Search(c) ==
  LET page == Window(remote, recent, c)
      startAt == c - 1 + Cardinality(page)
  IN [items |-> page,
      next |-> IF page = {} \/ startAt >= Cardinality(remote) THEN End ELSE startAt + 1]
GroupProjects(c) ==
  LET page == ((c - 1) * PageLimit + 1 .. c * PageLimit) \cap DOMAIN Projects
  IN [items |-> page, next |-> IF Cardinality(page) < PageLimit THEN End ELSE c + 1]
Tree(i) == {d \in remote : Home(d) = Projects[i].id}
IterTree(i, c) ==
  LET page == Window(Tree(i), Rank, (c - 1) * PageLimit + 1)
  IN [items |-> page, next |-> IF Cardinality(page) < PageLimit THEN End ELSE c + 1]
TreeItems == [items |-> {d \in remote : Place(d, remote, Rank) <= TreeLimit}, next |-> End]
InPart == {d \in remote : Part => Meta[d].part}
ListObjects(c) == Resume(InPart, c)
ListPages(c) == Resume(remote, c)
ListFiles(c) == Resume(InPart, c)
Delta(c) == Resume(remote, c)

-----------------------------------------------------------------------------
(* list_documents, and the listing fetch begins with.                       *)

Listing == phase \in {"list", "relist"}
Unlisted == <<queue, seen, projects, resolved, left, drive, cut>>

\* The listing is complete.
Complete ==
  IF phase = "list"
  THEN phase' = "listed" /\ listed' = items' /\ UNCHANGED <<want, todo, located, arts>>
  ELSE /\ phase' = "download"
       /\ todo' = {e \in ToSet(items') : e.doc \in want}
       /\ UNCHANGED <<listed, want, located, arts>>

\* A page was taken; the loop goes on at a cursor or the listing is complete.
Took(s, next) ==
  /\ items' = s
  /\ cursor' = next
  /\ IF cursor' = End THEN Complete ELSE UNCHANGED <<phase, fetchVars>>

Page(page) == Took(items \o Entries(ByRank({d \in page.items : Wanted(d)})), page.next)

\* An exception drops what was gathered.
Broken ==
  /\ phase' = "failed"
  /\ items' = <<>> /\ queue' = <<>> /\ seen' = {} /\ left' = {} /\ cursor' = Start
  /\ listed' = <<>> /\ want' = {} /\ todo' = {} /\ located' = {} /\ arts' = {}
  /\ UNCHANGED <<projects, resolved, drive, cut>>

\* The requests of a connector without a token; a service that changes is its own actor.
Plain == UNCHANGED <<opt, remoteVars, tokenVars>>

ConfluenceSpace ==
  /\ opt.kind = "confluence" /\ ~Part /\ Listing
  /\ Page(ListSpacePages(cursor)) /\ UNCHANGED Unlisted /\ Plain

\* The root of the tree, which is there as long as the run.
ConfluenceRoot ==
  /\ opt.kind = "confluence" /\ Part /\ Listing /\ queue = <<>> /\ seen = {}
  /\ \E r \in remote :
       /\ parent[r] = r
       /\ items' = Entries(<<r>>) /\ seen' = {r} /\ queue' = <<r>>
  /\ UNCHANGED <<phase, cursor, projects, resolved, left, drive, cut, fetchVars>> /\ Plain

\* Mutant of Fresh: the ids met before are not looked at.
FreshAny(S) == S
\* Children that no other parent has yielded before.
Fresh(S) == S \ seen

\* A page of children of the first page in the queue.
ConfluenceChildren ==
  /\ opt.kind = "confluence" /\ Part /\ Listing /\ queue # <<>>
  /\ IF Head(queue) \notin remote THEN Broken
     ELSE LET page == ListChildren(Head(queue), cursor)
              new == ByRank(Fresh(page.items))
              rest == (IF page.next = End THEN Tail(queue) ELSE queue) \o new
          IN /\ seen' = seen \cup ToSet(new)
             /\ queue' = rest
             /\ items' = items \o Entries(new)
             /\ cursor' = IF page.next = End THEN Start ELSE page.next
             /\ IF queue' = <<>> THEN Complete ELSE UNCHANGED <<phase, fetchVars>>
             /\ UNCHANGED <<projects, resolved, left, drive, cut>>
  /\ Plain

Jira ==
  /\ opt.kind = "jira" /\ Listing
  /\ LET page == Search(cursor)
     IN Took(items \o Entries(InOrder(page.items, recent)), page.next)
  /\ UNCHANGED Unlisted /\ Plain

\* _resolve_projects, which a second listing finds resolved.
GitlabProjects ==
  /\ opt.kind = "gitlab" /\ Listing /\ ~resolved
  /\ LET page == IF Part THEN [items |-> Sought, next |-> End] ELSE GroupProjects(cursor)
         all == projects \cup (page.items \cap Sought)
     IN /\ projects' = all
        /\ resolved' = (page.next = End)
        /\ left' = IF page.next = End THEN all ELSE {}
        /\ cursor' = IF page.next = End THEN Start ELSE page.next
  /\ UNCHANGED <<phase, items, queue, seen, drive, cut, fetchVars>> /\ Plain

\* A page of the tree of the next project; a group may have members without the branch.
GitlabTree ==
  /\ opt.kind = "gitlab" /\ Listing /\ resolved /\ left # {}
  /\ LET i == Min(left)
         page == IterTree(i, cursor)
     IN IF Projects[i].bare
        THEN IF Part THEN Broken
             ELSE /\ left' = left \ {i}
                  /\ UNCHANGED <<phase, cursor, items, queue, seen, projects, resolved, drive, cut, fetchVars>>
        ELSE /\ left' = IF page.next = End THEN left \ {i} ELSE left
             /\ cursor' = IF page.next = End THEN Start ELSE page.next
             /\ items' = items \o Entries(ByRank({d \in page.items : GitlabWanted(d)}))
             /\ UNCHANGED <<phase, queue, seen, projects, resolved, drive, cut, fetchVars>>
  /\ Plain

GitlabDone ==
  /\ opt.kind = "gitlab" /\ Listing /\ resolved /\ left = {}
  /\ Took(items, End) /\ UNCHANGED Unlisted /\ Plain

\* One request for the whole tree; its "truncated" is not looked at.
Github ==
  /\ opt.kind = "github" /\ Listing
  /\ Page(TreeItems)
  /\ cut' = (cut \/ Cardinality(remote) > TreeLimit)
  /\ UNCHANGED <<queue, seen, projects, resolved, left, drive>> /\ Plain

S3 ==
  /\ opt.kind = "s3" /\ Listing
  /\ Page(ListObjects(cursor)) /\ UNCHANGED Unlisted /\ Plain

Notion ==
  /\ opt.kind = "notion" /\ Listing
  /\ Page(ListPages(cursor)) /\ UNCHANGED Unlisted /\ Plain

\* Mutant of Gdrive: a request that does not go through _ensure_token.
GdriveDirect ==
  /\ opt.kind = "gdrive" /\ Listing
  /\ \/ step[Main] = "idle" /\ Send(Main, age)
        /\ UNCHANGED <<age, holder, calls, lapses, denied, stales, phase, listVars, fetchVars>>
     \/ step[Main] = "sent" /\ Finish(Main) /\ Page(ListFiles(cursor)) /\ UNCHANGED Unlisted
  /\ UNCHANGED <<opt, remoteVars>>

\* Every request of the two connectors with a token goes through _ensure_token.
Gdrive ==
  /\ opt.kind = "gdrive" /\ Listing /\ step[Main] = "sent"
  /\ Finish(Main)
  /\ Page(ListFiles(cursor)) /\ UNCHANGED <<Unlisted, opt, remoteVars>>

\* Mutant of SharepointDrive: the drive found is not kept.
SharepointDriveForgotten ==
  /\ opt.kind = "sharepoint" /\ Listing /\ step[Main] = "sent" /\ drive < 2
  /\ Finish(Main)
  /\ drive' = 1 - drive
  /\ UNCHANGED <<opt, phase, cursor, items, queue, seen, projects, resolved, left, cut, fetchVars, remoteVars>>

\* _ensure_drive asks for the site and for its drive, once.
SharepointDrive ==
  /\ opt.kind = "sharepoint" /\ Listing /\ step[Main] = "sent" /\ drive < 2
  /\ Finish(Main)
  /\ drive' = drive + 1
  /\ UNCHANGED <<opt, phase, cursor, items, queue, seen, projects, resolved, left, cut, fetchVars, remoteVars>>

Sharepoint ==
  /\ opt.kind = "sharepoint" /\ Listing /\ step[Main] = "sent" /\ drive = 2
  /\ Finish(Main)
  /\ Page(Delta(cursor)) /\ UNCHANGED <<Unlisted, opt, remoteVars>>

\* list_documents looks at what it found one by one; fetch takes it as it is.
Found(S) ==
  IF phase = "list" /\ S # {}
  THEN phase' = "probe" /\ todo' = {Now(d) : d \in S}
       /\ UNCHANGED <<listVars, listed, want, located, arts>>
  ELSE Took(Entries(ByRank(S)), End) /\ UNCHANGED Unlisted

\* A directory is scanned at once, its files are read one by one.
FsDiscover ==
  /\ opt.kind = "fs" /\ Listing
  /\ Found({d \in remote : FsWanted(d)}) /\ Plain

\* The URLs are those of the configuration; each is asked for its validators.
UrlList ==
  /\ opt.kind = "url" /\ Listing
  /\ Found(Docs) /\ Plain

\* Mutant of Cached: documents are collected again for fetch.
CachedNever == FALSE
\* ProviderSource keeps the documents it has collected.
Cached == phase = "relist" /\ ~opt.full

\* The next provider's documents; one id from two of them fails the listing.
Provider ==
  /\ opt.kind = "provider" /\ Listing
  /\ IF Cached THEN Took(listed, End) /\ UNCHANGED Unlisted
     ELSE LET batch == {d \in remote : cursor \in Meta[d].home}
              taken == {d \in batch : Wanted(d)}
          IN IF batch \cap seen # {} THEN Broken
             ELSE /\ seen' = seen \cup taken
                  /\ Took(items \o Entries(ByRank(taken)), IF cursor = 2 THEN End ELSE cursor + 1)
                  /\ UNCHANGED <<queue, projects, resolved, left, drive, cut>>
  /\ Plain

NoneList ==
  /\ opt.kind = "none" /\ Listing
  /\ Took(<<>>, End) /\ UNCHANGED Unlisted /\ Plain

-----------------------------------------------------------------------------
(* Per-document requests.  An outcome is an entry, Skip or Error.           *)

\* A file that has gone is skipped where its size is asked for first.
FsMeta(d) ==
  IF opt.capped /\ (d \notin remote \/ Meta[d].big) THEN Skip
  ELSE IF d \notin remote THEN Error
  ELSE Now(d)

\* HEAD gives a validator, or (head is FALSE) the page is downloaded and hashed.
UrlMeta(d, head) ==
  IF d \notin remote \/ (~head /\ TooBig(d)) THEN Skip ELSE Now(d)

\* What has gone since the listing fails the fetch; what is too big is left out.
ConfluenceFetch(e) == IF e.doc \in remote THEN Now(e.doc) ELSE Error
JiraFetch(e) == IF e.doc \in remote THEN Now(e.doc) ELSE Error
NotionFetch(e) == IF e.doc \in remote THEN Now(e.doc) ELSE Error
Loaded(e) ==
  IF e.doc \notin remote THEN Error
  ELSE IF TooBig(e.doc) THEN Skip
  ELSE Now(e.doc)
\* The contents API leaves out the body of a large file, which is taken for empty.
GithubFetch(e) ==
  IF e.doc \in remote /\ ~Meta[e.doc].body THEN [doc |-> e.doc, rev |-> Empty] ELSE Loaded(e)
S3Fetch(e) == Loaded(e)
\* A blob is asked for by its hash and outlives the file.
GitlabFetch(e) == IF TooBig(e.doc) THEN Skip ELSE e
\* Mutant of GdriveFetch: a native document has no content to download.
GdriveFetchNoExport(e) ==
  IF Meta[e.doc].mime = "doc" THEN Skip ELSE Loaded(e)
GdriveFetch(e) == Loaded(e)
SharepointFetch(e) == Loaded(e)
UrlFetch(e) == Loaded(e)
FsFetch(e) == FsMeta(e.doc)
ProviderFetch(e) == e

FetchOne(e) ==
  CASE opt.kind = "confluence" -> ConfluenceFetch(e)
    [] opt.kind = "jira" -> JiraFetch(e)
    [] opt.kind = "notion" -> NotionFetch(e)
    [] opt.kind = "github" -> GithubFetch(e)
    [] opt.kind = "s3" -> S3Fetch(e)
    [] opt.kind = "gitlab" -> GitlabFetch(e)
    [] opt.kind = "gdrive" -> GdriveFetch(e)
    [] opt.kind = "sharepoint" -> SharepointFetch(e)
    [] opt.kind = "url" -> UrlFetch(e)
    [] opt.kind = "fs" -> FsFetch(e)
    [] opt.kind \in {"provider", "none"} -> ProviderFetch(e)

\* Files are read one after the other; requests are under way at the same time.
Turn(e) == opt.kind = "fs" => \A f \in todo : Rank[e.doc] <= Rank[f.doc]

\* A document of the listing is looked at; the results keep the order of the listing.
Probe ==
  /\ phase = "probe"
  /\ \E e \in todo, head \in BOOLEAN :
     /\ Turn(e)
     /\ LET got == IF opt.kind = "fs" THEN FsMeta(e.doc) ELSE UrlMeta(e.doc, head)
        IN IF got = Error THEN Broken
           ELSE /\ items' = IF got = Skip THEN items ELSE
                               InOrder(ToSet(items) \cup {got}, [f \in Entry |-> Rank[f.doc]])
                /\ todo' = todo \ {e}
                /\ IF todo' = {}
                   THEN phase' = "listed" /\ listed' = items'
                   ELSE UNCHANGED <<phase, listed>>
                /\ UNCHANGED <<cursor, Unlisted, want, located, arts>>
  /\ Plain

\* SharePoint is asked for an item first; one without a download URL is left out, and
\* that in silence.
SharepointDetail(e) ==
  /\ opt.kind = "sharepoint" /\ phase = "download" /\ e \in todo
  /\ step[e.doc] = "sent" /\ Finish(e.doc)
  /\ IF e.doc \notin remote THEN Broken
     ELSE /\ IF Meta[e.doc].body
             THEN located' = located \cup {e.doc} /\ UNCHANGED todo
             ELSE todo' = todo \ {e} /\ UNCHANGED located
          /\ UNCHANGED <<phase, listVars, listed, want, arts>>
  /\ UNCHANGED <<opt, remoteVars>>

\* The end of the download of an entry.  That of SharePoint asks the URL, without a token.
Download(e) ==
  /\ phase = "download" /\ e \in todo /\ Turn(e)
  /\ opt.kind = "sharepoint" => e.doc \in located
  /\ IF opt.kind = "gdrive" THEN step[e.doc] = "sent" /\ Finish(e.doc) ELSE UNCHANGED tokenVars
  /\ LET got == FetchOne(e)
     IN IF got = Error THEN Broken
        ELSE /\ todo' = todo \ {e}
             /\ located' = located \ {e.doc}
             /\ arts' = IF got = Skip THEN arts ELSE arts \cup {got}
             /\ UNCHANGED <<phase, listVars, listed, want>>
  /\ UNCHANGED <<opt, remoteVars>>

\* gather_bounded lets as many downloads at the token as there are slots.
BeginRequest ==
  /\ opt.kind \in Graph
  /\ \/ Listing /\ Begin(Main)
     \/ /\ phase = "download"
        /\ Cardinality({d \in Docs : step[d] # "idle"} \cup located) < Slots
        /\ \E e \in todo : e.doc \notin located /\ Begin(e.doc)
  /\ UNCHANGED <<opt, phase, listVars, fetchVars, remoteVars>>

TokenTurn ==
  /\ opt.kind \in Graph /\ phase # "failed"
  /\ \E t \in Tasks : TokenStep(t)
  /\ UNCHANGED <<opt, phase, listVars, fetchVars, remoteVars>>

\* The token host refuses, a request is answered with 401, or anything else goes wrong.
Fail ==
  /\ phase \in {"list", "probe", "relist", "download"}
  /\ \/ \E t \in Tasks : Denied(t)
     \/ \E t \in Tasks : step[t] = "refused" /\ UNCHANGED tokenVars
     \/ (\A t \in Tasks : step[t] # "refused") /\ UNCHANGED tokenVars
  /\ Broken /\ UNCHANGED <<opt, remoteVars>>

\* The engine chooses what to fetch among what was listed (bound: everything, or one
\* document), and fetch starts its own listing, unless the connector keeps the first.
Choose ==
  /\ phase = "listed" /\ listed # <<>>
  /\ \E W \in {DocsOf(ToSet(listed))} \cup {{e.doc} : e \in ToSet(listed)} : want' = W
  /\ phase' = "relist"
  /\ cursor' = Start
  /\ items' = <<>>
  /\ queue' = <<>>
  /\ seen' = {}
  /\ left' = projects
  /\ touched' = IF opt.kind = "provider" THEN touched ELSE {}
  /\ removed' = IF opt.kind = "provider" THEN removed ELSE 0
  /\ UNCHANGED <<opt, projects, resolved, drive, cut, listed, todo, located, arts, tokenVars>>
  /\ UNCHANGED <<remote, recent, rev, parent, edits>>

\* Nothing is new, or nothing was listed.
ChooseNothing ==
  /\ phase = "listed"
  /\ phase' = "done"
  /\ UNCHANGED <<opt, listVars, fetchVars, remoteVars, tokenVars>>

Delivered ==
  /\ phase = "download" /\ todo = {}
  /\ phase' = "done"
  /\ UNCHANGED <<opt, listVars, fetchVars, remoteVars, tokenVars>>

-----------------------------------------------------------------------------
Init ==
  /\ \E w \in Worlds : opt = w.opt /\ RemoteInit(w.docs)
  /\ TokenInit
  /\ phase = IF opt.full THEN "relist" ELSE "list"
  /\ cursor = Start
  /\ items = <<>>
  /\ queue = <<>>
  /\ seen = {}
  /\ projects = {}
  /\ resolved = FALSE
  /\ left = {}
  /\ drive = 0
  /\ cut = FALSE
  /\ listed = <<>>
  /\ want = IF opt.full THEN Docs ELSE {}
  /\ todo = {}
  /\ located = {}
  /\ arts = {}

ListStep ==
  \/ ConfluenceSpace \/ ConfluenceRoot \/ ConfluenceChildren \/ Jira
  \/ GitlabProjects \/ GitlabTree \/ GitlabDone \/ Github \/ S3 \/ Notion
  \/ Gdrive \/ SharepointDrive \/ Sharepoint
  \/ FsDiscover \/ UrlList \/ Provider \/ NoneList \/ Probe

RemoteEdit ==
  /\ phase \in {"list", "probe", "relist", "download"}
  /\ edits + lapses < MaxEvents
  /\ Edit
  /\ UNCHANGED <<opt, phase, listVars, fetchVars, tokenVars>>

TimePasses ==
  /\ opt.kind \in Graph /\ phase \notin {"done", "failed"}
  /\ edits + lapses < MaxEvents
  /\ Lapse
  /\ UNCHANGED <<opt, phase, listVars, fetchVars, remoteVars>>

\* What the run itself does, as long as nothing goes wrong but a refused token.
Work ==
  \/ ListStep \/ BeginRequest \/ TokenTurn \/ Choose \/ ChooseNothing
  \/ \E e \in todo : SharepointDetail(e) \/ Download(e)
  \/ Delivered
  \/ (\E t \in Tasks : step[t] = "refused") /\ Fail

Next == Work \/ Fail \/ RemoteEdit \/ TimePasses

Spec == Init /\ [][Next]_vars

\* Requests are answered or time out, and asyncio runs what is ready.
FairSpec == Spec /\ WF_vars(Work)

-----------------------------------------------------------------------------
(* Properties.                                                              *)

TypeOK ==
  /\ RemoteTypeOK
  /\ TokenTypeOK
  /\ opt \in Option
  /\ phase \in {"list", "probe", "listed", "relist", "download", "done", "failed"}
  /\ cursor \in Nat
  /\ items \in Seq(Entry) /\ listed \in Seq(Entry)
  /\ queue \in Seq(Docs) /\ seen \subseteq Docs
  /\ projects \cup left \subseteq DOMAIN Projects
  /\ resolved \in BOOLEAN /\ cut \in BOOLEAN /\ drive \in 0..2
  /\ want \subseteq Docs /\ todo \subseteq Entry /\ located \subseteq Docs /\ arts \subseteq Artifact

ListedNow == IF phase \in {"listed", "done", "download"} THEN DocsOf(ToSet(items)) ELSE Docs

\* What was there all the time, unchanged, and is asked for.
Settled == {d \in remote \ touched : Wanted(d)}

\* Of pages that were not reached, those below one that was: no page below them can be.
Topmost(S) ==
  IF opt.kind = "confluence" /\ Part THEN {d \in S : parent[d] \in DocsOf(ToSet(items))} ELSE S

\* Kinds of listing in which the cursor counts entries or pages.
Offset == opt.kind \in {"confluence", "jira", "gitlab"}

(* A listing misses no document that was there and unchanged while it was   *)
(* made.  Listings by offset, tree walks among them, are the exception: for *)
(* each document that was removed meanwhile one may be missed, and no more, *)
(* but of a page that is missed in a tree all that is below it.             *)
(* (Reconcile deletes what is missed.)  A GitHub tree that was truncated is *)
(* not covered: the connector does not notice.                              *)
NoneMissed ==
  ~cut => Cardinality(Topmost(Settled \ ListedNow)) <= IF Offset THEN removed ELSE 0

(* Without offsets no document is listed twice, nor in a page tree whose    *)
(* pages move while it is walked, nor from providers that share documents.  *)
NoneTwice ==
  ~Offset \/ (opt.kind = "confluence" /\ Part)
    => IsInjective([i \in DOMAIN items |-> items[i].doc])

\* What a connector cannot load the way it asks: GitHub's artifact is empty then, and
\* SharePoint's is missing.
Withheld(d) == opt.kind \in {"github", "sharepoint"} /\ ~Meta[d].body
WithBody == {x \in arts : x.rev # Empty}

(* A fetch that ends well delivers, with its body, every document it was    *)
(* asked for that was there and unchanged meanwhile, whatever came, went or *)
(* changed beside it; by offset, but for one per removal.  Two kinds of     *)
(* document it leaves out in silence: what is too big, and what GitHub or   *)
(* SharePoint withhold.                                                     *)
FetchComplete ==
  phase = "done" /\ ~cut =>
    LET due == {d \in want \cap Settled : ~TooBig(d) /\ ~Withheld(d)}
    IN Cardinality(Topmost(due \ DocsOf(WithBody))) <= IF Offset THEN removed ELSE 0

(* The bodies a provider delivers are those whose fingerprints it listed,   *)
(* and a blob of GitLab is the one the second listing names, edits in       *)
(* between notwithstanding.                                                 *)
Paired ==
  /\ opt.kind = "provider" /\ ~opt.full => arts \subseteq ToSet(listed)
  /\ opt.kind = "gitlab" => arts \subseteq ToSet(items)

(* The requests of the two connectors with a token keep to the protocol of  *)
(* AccessToken.                                                             *)
TokenProtocol == TokenInit /\ [][TokenNext]_tokenVars

(* Every run ends, whatever the service does meanwhile.                     *)
RunEnds == <>(phase \in {"done", "failed"})
=============================================================================
