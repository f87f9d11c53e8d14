------------------------------ MODULE Chunking ------------------------------
(***************************************************************************)
(* src/alvis/chunk: how the text of a section becomes chunks.              *)
(*                                                                         *)
(* A text is a sequence of characters.  A character that is not blank is a *)
(* positive number, unique in its document, so that a chunk tells where    *)
(* its text comes from; Space and Newline are the blanks.  A section is    *)
(* [heading, paragraphs]; heading is the text "# <heading>" or empty, and  *)
(* paragraphs are the pieces of the body between blank lines.              *)
(***************************************************************************)
EXTENDS Integers, Sequences, SequencesExt, FiniteSetsExt

Space == 0
Newline == -1
Break == <<Newline, Newline>>

Characters == {c \in Int : c >= Newline}

IsBlank(text) == \A i \in DOMAIN text : text[i] <= 0

\* Texts that say something, as paragraphs and headings do: p.strip() is not empty.
Texts == {text \in Seq(Characters) : ~IsBlank(text)}

Cut(text, from, to) == SubSeq(text, from + 1, to)   \* text[from:to]

\* The text without the blanks it starts with.
LStrip(text) ==
  LET inked == {i \in DOMAIN text : text[i] > 0}
  IN IF inked = {} THEN <<>> ELSE SubSeq(text, Min(inked), Len(text))

\* text.split()
WordsOf(text) ==
  LET Put(words, i) ==
        IF text[i] <= 0 THEN words
        ELSE IF i > 1 /\ text[i - 1] > 0
               THEN [words EXCEPT ![Len(words)] = Append(@, text[i])]
               ELSE Append(words, <<text[i]>>)
      upTo[i \in 0..Len(text)] == IF i = 0 THEN <<>> ELSE Put(upTo[i - 1], i)
  IN upTo[Len(text)]

\* "\n\n".join of what there is and the next.
Join(text, next) == IF text = <<>> THEN next ELSE text \o Break \o next

Joined(paragraphs) ==
  LET upTo[i \in 0..Len(paragraphs)] ==
        IF i = 0 THEN <<>> ELSE Join(upTo[i - 1], paragraphs[i])
  IN upTo[Len(paragraphs)]

\* What _section_text makes of a section, in paragraphs.
SectionText(section) ==
  IF section.paragraphs = <<>> THEN <<>>
  ELSE IF section.heading = <<>> THEN section.paragraphs
  ELSE <<section.heading>> \o section.paragraphs

(* --------------------------- the size strategy -------------------------- *)

\* Slices of at most `size` characters, cut at the last space that is not
\* their first character, each starting `overlap` before the end of the last.
SplitByChars(text, size, overlap) ==
  LET length == Len(text)
      End(position) ==
        LET end == Min({position + size, length})
            spaces == {i \in (position + 1)..(end - 1) : text[i + 1] = Space}
        IN IF end < length /\ spaces # {} THEN Max(spaces) ELSE end
      Following(position) ==
        LET next == End(position) - overlap
            start == IF next <= position THEN End(position) ELSE next
        IN Min({i \in start..length : i = length \/ text[i + 1] > 0})
      parts[position \in 0..length] ==
        IF position = length THEN <<>>
        ELSE LET part == Cut(text, position, End(position))
             IN (IF IsBlank(part) THEN <<>> ELSE <<part>>)
                \o (IF End(position) = length THEN <<>> ELSE parts[Following(position)])
  IN IF length <= size THEN (IF IsBlank(text) THEN <<>> ELSE <<text>>) ELSE parts[0]

(* ------------------ the auto and the sections strategies ---------------- *)

\* What is carried over: the last `chars` characters without the word they
\* cut.  text[-0:] is the whole text.
Carried(text, chars) ==
  LET window == LStrip(IF chars = 0 THEN text ELSE Cut(text, Len(text) - chars, Len(text)))
      spaces == {i \in DOMAIN window : window[i] = Space}
  IN IF Len(text) <= chars THEN <<>>
     ELSE IF spaces = {} THEN window
     ELSE LStrip(SubSeq(window, Min(spaces), Len(window)))

\* A paragraph beyond the budget, word by word.
HardSplit(text, budget) ==
  LET words == WordsOf(text)
      Put(pieces, word) ==
        IF pieces = <<>> THEN <<word>>
        ELSE IF Len(Last(pieces)) + 1 + Len(word) > budget THEN Append(pieces, word)
        ELSE [pieces EXCEPT ![Len(pieces)] = @ \o <<Space>> \o word]
      upTo[i \in 0..Len(words)] == IF i = 0 THEN <<>> ELSE Put(upTo[i - 1], words[i])
  IN upTo[Len(words)]

\* Mutant of Closed: what is pending is dropped.
ClosedUnflushed(at) == at.chunks
\* The chunks, with the pending one.
Closed(at) == IF at.current = <<>> THEN at.chunks ELSE Append(at.chunks, at.current)

SplitText(paragraphs, budget, overlap) ==
  LET Put(at, paragraph) ==
        IF Len(paragraph) > budget
          THEN [chunks |-> Closed(at) \o HardSplit(paragraph, budget), current |-> <<>>]
        ELSE IF at.current # <<>> /\ Len(at.current) + 2 + Len(paragraph) > budget
          THEN [chunks |-> Closed(at), current |-> Join(Carried(at.current, overlap), paragraph)]
        ELSE [at EXCEPT !.current = Join(@, paragraph)]
      upTo[i \in 0..Len(paragraphs)] ==
        IF i = 0 THEN [chunks |-> <<>>, current |-> <<>>] ELSE Put(upTo[i - 1], paragraphs[i])
  IN Closed(upTo[Len(paragraphs)])

\* Continuations of a section start with its heading.
Continued(section, parts) ==
  [i \in DOMAIN parts |->
     IF i > 1 /\ section.heading # <<>> /\ ~IsPrefix(section.heading, parts[i])
       THEN section.heading \o Break \o parts[i]
       ELSE parts[i]]

(***************************************************************************)
(* The chunks of a document, a sequence of sections.  A strategy is        *)
(* [name, size, overlap] in characters: max_chars and overlap_chars, or    *)
(* four times max_tokens and overlap.  The chunkers cap the overlap.       *)
(***************************************************************************)
SizeChunks(section, s) ==
  SplitByChars(Joined(SectionText(section)), s.size, Min({s.overlap, s.size \div 2}))
AutoChunks(section, s) ==
  SplitText(SectionText(section), s.size, Min({s.overlap, s.size}))
SectionsChunks(section, s) ==
  Continued(section, SplitText(SectionText(section), s.size, Min({s.overlap, s.size})))

ChunksOf(document, s) ==
  FlattenSeq([i \in DOMAIN document |->
                CASE s.name = "size" -> SizeChunks(document[i], s)
                  [] s.name = "auto" -> AutoChunks(document[i], s)
                  [] s.name = "sections" -> SectionsChunks(document[i], s)])

(* ------------------------------ what is promised ------------------------ *)

\* The characters of a document that should be found again.
Inked(document) ==
  (UNION {UNION {Range(p) : p \in Range(SectionText(document[i]))} : i \in DOMAIN document}) \ {Space, Newline}

\* Nothing of the document is lost between two chunks, and nothing else is in
\* them.
Covers(chunks, document) ==
  /\ (UNION {Range(c) : c \in Range(chunks)}) \ {Space, Newline} = Inked(document)
  /\ \A i \in DOMAIN chunks : ~IsBlank(chunks[i])

\* What a chunk may have beyond its budget: what is carried over, and a break.
Spare(s) == IF s.name = "size" THEN 0 ELSE s.overlap + 2

\* What it may start with besides: the heading of a section that goes on.
Openings(document, s) ==
  {<<>>} \cup (IF s.name = "sections" THEN {document[i].heading \o Break : i \in DOMAIN document} ELSE {})

\* A chunk exceeds its budget by that and by nothing more, unless one word does.
WithinBudget(chunks, document, s) ==
  \A i \in DOMAIN chunks : \E opening \in Openings(document, s) :
    LET rest == SubSeq(chunks[i], Len(opening) + 1, Len(chunks[i]))
    IN /\ IsPrefix(opening, chunks[i])
       /\ Len(rest) <= s.size + Spare(s) \/ Len(WordsOf(rest)) = 1
=============================================================================
