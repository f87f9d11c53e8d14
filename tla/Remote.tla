------------------------------- MODULE Remote -------------------------------
(***************************************************************************)
(* The services behind the connectors of src/alvis/sources: documents that *)
(* come, change, move and go while alvis lists and downloads them, and the *)
(* ways a service hands out a long list.  All of it is external.           *)
(*                                                                         *)
(* Meta[d] says what a filter can tell of a document: ext, its extension   *)
(* is one alvis ingests; inc and exc, it matches include_globs and         *)
(* exclude_globs; part, it lies under the configured path, prefix or       *)
(* folder; big, it exceeds max_bytes; body, the service hands its body out *)
(* the way the connector asks for it; mime, its type in Google Drive; home,*)
(* the project or the providers it belongs to.                             *)
(***************************************************************************)
EXTENDS Integers, FiniteSets

CONSTANTS
  Docs,
  Rank,       \* [Docs -> Nat \ {0}]: the order of a listing by key
  Meta,
  Parent,     \* [Docs -> Docs]: the page tree at the start, its root is its own parent
  PageLimit,  \* entries of a full page
  MaxEdits    \* bound: edits during one run

ASSUME RemoteAssumption ==
  /\ IsFiniteSet(Docs)
  /\ Rank \in [Docs -> Nat \ {0}]
  /\ \A d, e \in Docs : Rank[d] = Rank[e] => d = e
  /\ Meta \in [Docs -> [ext : BOOLEAN, inc : BOOLEAN, exc : BOOLEAN, part : BOOLEAN, big : BOOLEAN,
                        body : BOOLEAN, mime : {"file", "doc", "sheet", "folder"}, home : (SUBSET {1, 2}) \ {{}}]]
  /\ Parent \in [Docs -> Docs]
  /\ PageLimit \in Nat \ {0}
  /\ MaxEdits \in Nat

VARIABLES
  remote,   \* the documents there are
  recent,   \* their order in a search: what changed last comes first
  rev,      \* the revision of each document
  parent,   \* the page tree
  edits,    \* edits so far
  touched,  \* documents created, changed, moved or removed since the listing began
  removed   \* removals from a list since the listing began

remoteVars == <<remote, recent, rev, parent, edits, touched, removed>>

\* The pages above e and itself; d and the pages below it.
Above(e) ==
  LET up[n \in 0..Cardinality(Docs)] == IF n = 0 THEN e ELSE parent[up[n - 1]]
  IN {up[n] : n \in 0..Cardinality(Docs)}
Subtree(d) == {d} \cup {e \in Docs : d \in Above(e)}

RemoteInit(S) ==
  /\ remote = S
  /\ recent = Rank
  /\ rev = [d \in Docs |-> 0]
  /\ parent = Parent
  /\ edits = 0
  /\ touched = {}
  /\ removed = 0

Edited(S) == edits < MaxEdits /\ edits' = edits + 1 /\ touched' = touched \cup S

\* A document is changed, or created below a page that exists.
Write(d) ==
  /\ parent[d] \in remote \cup {d}
  /\ Edited({d})
  /\ remote' = remote \cup {d}
  /\ recent' = [recent EXCEPT ![d] = 0 - edits]
  /\ rev' = [rev EXCEPT ![d] = @ + 1]
  /\ UNCHANGED <<parent, removed>>

\* A document without children goes; a root page stays.
Vanish(d) ==
  /\ d \in remote
  /\ parent[d] # d
  /\ Subtree(d) \cap remote = {d}
  /\ Edited({d})
  /\ remote' = remote \ {d}
  /\ removed' = removed + 1
  /\ UNCHANGED <<recent, rev, parent>>

\* A page moves with all that is below it, which changes no content.
Move(d, p) ==
  /\ {d, p} \subseteq remote
  /\ parent[d] # d
  /\ p \notin Subtree(d) \cup {parent[d]}
  /\ Edited(Subtree(d))
  /\ parent' = [parent EXCEPT ![d] = p]
  /\ removed' = removed + 1
  /\ UNCHANGED <<remote, recent, rev>>

Edit ==
  \E d \in Docs :
    \/ Write(d)
    \/ Vanish(d)
    \/ \E p \in Docs : Move(d, p)

-----------------------------------------------------------------------------
(* Pages.  Cursors start at 1; a page is the set of its entries, and says   *)
(* from which cursor to go on, or that it is the last.                      *)
End == 0
Start == 1

\* The place of x among the members of S, whose order is that of their keys.
Place(x, S, key) == Cardinality({y \in S : key[y] <= key[x]})

\* The members of S in the order of their keys.
InOrder(S, key) == [k \in 1..Cardinality(S) |-> CHOOSE x \in S : Place(x, S, key) = k]

\* What there is from a place on, as far as it fits on a page.
Window(S, key, c) == {x \in S : Place(x, S, key) \in c .. (c + PageLimit - 1)}

\* Pages by offset, to be continued as long as they are full.
ByOffset(S, c) ==
  LET page == Window(S, Rank, c)
  IN [items |-> page, next |-> IF Cardinality(page) < PageLimit THEN End ELSE c + Cardinality(page)]

\* Pages by a continuation token, which names a place in the order.
Resume(S, c) ==
  LET rest == {d \in S : Rank[d] >= c}
      last == CHOOSE d \in rest : Place(d, rest, Rank) = PageLimit
  IN [items |-> Window(rest, Rank, 1),
      next |-> IF Cardinality(rest) <= PageLimit THEN End ELSE Rank[last] + 1]

RemoteTypeOK ==
  /\ remote \subseteq Docs
  /\ recent \in [Docs -> Int]
  /\ rev \in [Docs -> 0..MaxEdits]
  /\ parent \in [Docs -> Docs]
  /\ edits \in 0..MaxEdits
  /\ touched \subseteq Docs
  /\ removed \in 0..MaxEdits
=============================================================================
