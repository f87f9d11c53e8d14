----------------------------- MODULE MCIngest -----------------------------
(* Small instances of Ingest.  Bodies 1 and 2 are revisions of a page that *)
(* share the chunk <<"intro">> and each have a section of their own.       *)
EXTENDS IngestProofs, Integers, TLC

Same == [c \in Contents |-> c]

Revisions(s) == [c \in Contents |-> {<<"intro">>, <<s, c>>}]
MCChunks == [s \in Settings |-> Revisions(s)]
MCTexts == {<<"intro">>} \cup (Settings \X Contents)

\* Any body can follow any other: edits, reverts, deletions, restorations.
AnyEdit == [b \in Bodies |-> Bodies]

\* Every edit leaves a body the document has not had; a deletion is final.
Onward == [b \in Bodies |-> IF b = Gone THEN {} ELSE {c \in Contents : c > b} \cup {Gone}]
=============================================================================
