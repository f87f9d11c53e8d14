--------------------------- MODULE TransformProofs ---------------------------
(***************************************************************************)
(* Proofs about Transform, for any number of pipelines, any documents,     *)
(* strategies, batches and caches, and any number of dropped connections:  *)
(* nothing of a document is lost between its chunks, a row has the vector  *)
(* of its own text, what a run has stored is found, and a PgVectorIndex    *)
(* has one connection.                                                     *)
(*                                                                         *)
(* The chunkers and FlattenSeq are recursive functions.  That the function *)
(* a CHOOSE names exists is shown by building it up to its last argument   *)
(* (Recursion); what it computes, by looking at the first argument where   *)
(* it computes something else (Induct).                                    *)
(***************************************************************************)
EXTENDS Transform, FiniteSetTheorems, WellFoundedInduction, TLAPS

-----------------------------------------------------------------------------
(***************************************************************************)
(* Numbers, and functions defined by recursion on them.  Both inductions   *)
(* are on a least exception.                                               *)
(***************************************************************************)
LEMMA LeastNumber ==
  ASSUME NEW S \in SUBSET Nat, S # {}
  PROVE  Min(S) \in S /\ \A k \in S : Min(S) <= k
<1>1. \E x \in S : \A y \in S : ~(<<y, x>> \in OpToRel(<, Nat))
  BY WFMin, NatLessThanWellFounded, Zenon
<1>2. \E x \in S : \A y \in S : ~(y < x)
  <2>1. PICK x \in S : \A y \in S : ~(<<y, x>> \in OpToRel(<, Nat))
    BY <1>1
  <2>2. \A y \in S : y < x => <<y, x>> \in OpToRel(<, Nat)
    BY Zenon DEF OpToRel
  <2> QED
    BY <2>1, <2>2, Zenon
<1>3. \E x \in S : \A y \in S : x <= y
  BY <1>2
<1> QED
  BY <1>3 DEF Min

\* As the least of the differences from n.
LEMMA GreatestNumber ==
  ASSUME NEW n \in Nat, NEW S \in SUBSET (0..n), S # {}
  PROVE  Max(S) \in S /\ \A k \in S : Max(S) >= k
<1> DEFINE mirror == {j \in 0..n : n - j \in S}
<1>1. ASSUME NEW k \in S PROVE n - k \in mirror /\ k \in 0..n /\ n - (n - k) = k
  <2>1. k \in 0..n
    OBVIOUS
  <2>2. n - k \in 0..n /\ n - (n - k) = k
    BY <2>1
  <2> QED
    BY <2>1, <2>2
<1>2. mirror \in SUBSET Nat /\ mirror # {}
  <2>1. PICK k \in S : TRUE
    OBVIOUS
  <2>2. n - k \in mirror
    BY <1>1
  <2>3. mirror \subseteq 0..n
    OBVIOUS
  <2> HIDE DEF mirror
  <2> QED
    BY <2>2, <2>3
<1>3. Min(mirror) \in mirror /\ \A k \in mirror : Min(mirror) <= k
  <2> HIDE DEF mirror
  <2> QED
    BY <1>2, LeastNumber
<1>4. n - Min(mirror) \in S /\ Min(mirror) \in Nat
  BY <1>3
<1>5. ASSUME NEW k \in S PROVE n - Min(mirror) >= k
  <2>1. Min(mirror) <= n - k /\ k \in 0..n
    BY <1>1, <1>3
  <2> QED
    BY <1>4, <2>1
<1> QED
  BY <1>4, <1>5 DEF Max

\* Which of two numbers Min is.
LEMMA MinOfTwo ==
  ASSUME NEW a \in Int, NEW b \in Int
  PROVE  Min({a, b}) = IF a < b THEN a ELSE b
<1>1. \E x \in {a, b} : \A y \in {a, b} : x <= y
  OBVIOUS
<1> QED
  BY <1>1 DEF Min

\* What holds at 0, and is handed on, holds up to n.
LEMMA Induct ==
  ASSUME NEW n \in Nat, NEW f, NEW Inv, f[0] \in Inv[0],
         \A i \in 1..n : f[i - 1] \in Inv[i - 1] => f[i] \in Inv[i]
  PROVE  \A i \in 0..n : f[i] \in Inv[i]
<1> DEFINE S == {i \in 0..n : f[i] \notin Inv[i]}
<1> SUFFICES ASSUME S # {} PROVE FALSE
  OBVIOUS
<1>1. Min(S) \in S /\ \A k \in S : Min(S) <= k
  <2>1. S \in SUBSET Nat
    OBVIOUS
  <2> HIDE DEF S
  <2> QED
    BY <2>1, LeastNumber
<1>2. Min(S) \in 1..n /\ Min(S) - 1 \notin S
  BY <1>1
<1> QED
  BY <1>1, <1>2

\* A step that keeps an invariant can be iterated.
Keeps(step, Inv, n) == \A i \in 1..n : \A x \in Inv[i - 1] : step[<<i, x>>] \in Inv[i]

\* f is what the step computes from base, and keeps the invariant.
Iterates(f, step, base, Inv, n) ==
  /\ f = [i \in 0..n |-> f[i]]
  /\ f[0] = base
  /\ \A i \in 1..n : f[i] = step[<<i, f[i - 1]>>]
  /\ \A i \in 0..n : f[i] \in Inv[i]

\* A recursive function exists, and keeps what its step keeps.
LEMMA Recursion ==
  ASSUME NEW n \in Nat, NEW Inv, NEW base, base \in Inv[0], NEW step, Keeps(step, Inv, n)
  PROVE  \E f : Iterates(f, step, base, Inv, n)
<1> USE DEF Keeps
<1> DEFINE Upto(m, f) == /\ f = [i \in 0..m |-> f[i]]
                         /\ f[0] = base
                         /\ \A i \in 1..m : f[i] = step[<<i, f[i - 1]>>]
                         /\ \A i \in 0..m : f[i] \in Inv[i]
           S == {m \in 0..n : ~\E f : Upto(m, f)}
<1> SUFFICES ASSUME S # {} PROVE FALSE
  <2>1. n \notin S => \E f : Upto(n, f)
    OBVIOUS
  <2> QED
    BY <2>1 DEF Iterates
<1>1. PICK m \in S : \A k \in S : m <= k
  <2>1. S \in SUBSET Nat
    OBVIOUS
  <2> HIDE DEF S
  <2> QED
    BY <2>1, LeastNumber
<1>2. m # 0
  <2> DEFINE f == [i \in 0..0 |-> base]
  <2>1. Upto(0, f)
    OBVIOUS
  <2> QED
    BY <1>1, <2>1
<1>3. PICK f : Upto(m - 1, f)
  <2>1. m \in 1..n /\ m - 1 < m /\ m - 1 \in 0..n
    BY <1>1, <1>2
  <2>2. m - 1 \notin S
    <3> HIDE DEF S
    <3> QED
      BY <1>1, <2>1
  <2> HIDE DEF Upto
  <2> QED
    BY <2>1, <2>2
<1> DEFINE g == [i \in 0..m |-> IF i = m THEN step[<<m, f[m - 1]>>] ELSE f[i]]
<1>4. m \in 1..n /\ step[<<m, f[m - 1]>>] \in Inv[m]
  BY <1>1, <1>2, <1>3
<1>5. \A i \in 0..m : i # m => i \in 0..(m - 1)
  BY <1>4
<1>6. \A i \in 0..m : g[i] \in Inv[i]
  BY <1>3, <1>4, <1>5
<1>7. ASSUME NEW i \in 1..m PROVE g[i] = step[<<i, g[i - 1]>>]
  <2>1. CASE i = m
    <3>1. g[m - 1] = f[m - 1] /\ g[m] = step[<<m, f[m - 1]>>] /\ m # 0
      BY <1>4
    <3> HIDE DEF g
    <3> QED
      BY <2>1, <3>1
  <2>2. CASE i # m
    <3>1. f[i] = step[<<i, f[i - 1]>>]
      <4>1. i \in 1..(m - 1)
        BY <1>4, <2>2
      <4> QED
        BY <1>3, <4>1
    <3>2. g[i - 1] = f[i - 1] /\ g[i] = f[i]
      BY <1>4, <2>2
    <3> HIDE DEF g
    <3> QED
      BY <3>1, <3>2
  <2> QED
    BY <2>1, <2>2
<1>8. g = [i \in 0..m |-> g[i]] /\ g[0] = base
  BY <1>3, <1>4
<1>9. Upto(m, g)
  BY <1>6, <1>7, <1>8
<1> QED
  BY <1>1, <1>9

-----------------------------------------------------------------------------
(***************************************************************************)
(* What a text says, and what is said by several.                          *)
(***************************************************************************)
Ink(text) == {text[i] : i \in {i \in DOMAIN text : text[i] > 0}}

\* The characters of several texts.
Shown(parts) == UNION {Ink(parts[i]) : i \in DOMAIN parts}

\* Two texts one after the other say what both say.
LEMMA InkOfConcat ==
  ASSUME NEW s \in Seq(Characters), NEW t \in Seq(Characters)
  PROVE  s \o t \in Seq(Characters) /\ Ink(s \o t) = Ink(s) \cup Ink(t)
<1>1. s \o t \in Seq(Characters) /\ Len(s \o t) = Len(s) + Len(t)
  OBVIOUS
<1>2. \A i \in DOMAIN s : i \in DOMAIN (s \o t) /\ (s \o t)[i] = s[i]
  OBVIOUS
<1>3. \A i \in DOMAIN t : Len(s) + i \in DOMAIN (s \o t) /\ (s \o t)[Len(s) + i] = t[i]
  OBVIOUS
<1>4. \A i \in DOMAIN (s \o t) :
         \/ i \in DOMAIN s
         \/ i - Len(s) \in DOMAIN t /\ (s \o t)[i] = t[i - Len(s)]
  OBVIOUS
<1>5. Ink(s \o t) \subseteq Ink(s) \cup Ink(t)
  BY <1>2, <1>4 DEF Ink
<1>6. Ink(s) \subseteq Ink(s \o t)
  BY <1>2 DEF Ink
<1>7. Ink(t) \subseteq Ink(s \o t)
  BY <1>3 DEF Ink
<1> QED
  BY <1>1, <1>5, <1>6, <1>7

\* A text says something.
LEMMA TextsSay ==
  ASSUME NEW s \in Seq(Characters)
  PROVE  s \in Texts <=> Ink(s) # {}
BY DEF Texts, IsBlank, Ink, Characters

\* Texts with anything between them are a text.
LEMMA TextsJoin ==
  ASSUME NEW s \in Seq(Characters), NEW t \in Texts
  PROVE  s \o t \in Texts /\ Ink(s \o t) = Ink(s) \cup Ink(t)
BY InkOfConcat, TextsSay DEF Texts

\* Blanks say nothing.
LEMMA NoInk == Ink(<<>>) = {} /\ <<>> \in Seq(Characters) /\ Ink(<<Space>>) = {} /\ Ink(Break) = {}
               /\ <<Space>> \in Seq(Characters) /\ Break \in Seq(Characters)
BY DEF Ink, Space, Newline, Break, Characters

\* A part of a text says no more than the text.
LEMMA InkOfSub ==
  ASSUME NEW s \in Seq(Characters), NEW a \in 1..(Len(s) + 1), NEW b \in 0..Len(s)
  PROVE  /\ SubSeq(s, a, b) \in Seq(Characters)
         /\ Ink(SubSeq(s, a, b)) = {s[i] : i \in {i \in a..b : s[i] > 0}}
         /\ Len(SubSeq(s, a, b)) = IF a <= b THEN b - a + 1 ELSE 0
<1> DEFINE u == SubSeq(s, a, b)
<1>1. u \in Seq(Characters) /\ Len(u) = (IF a <= b THEN b - a + 1 ELSE 0)
  OBVIOUS
<1>2. ASSUME NEW i \in DOMAIN u PROVE a + i - 1 \in a..b /\ u[i] = s[a + i - 1]
  BY <1>1
<1>3. ASSUME NEW j \in a..b PROVE j - a + 1 \in DOMAIN u /\ u[j - a + 1] = s[j]
  BY <1>1
<1> HIDE DEF u
<1>4. Ink(u) \subseteq {s[i] : i \in {i \in a..b : s[i] > 0}}
  BY <1>2 DEF Ink
<1>5. {s[i] : i \in {i \in a..b : s[i] > 0}} \subseteq Ink(u)
  BY <1>3 DEF Ink
<1> QED
  BY <1>1, <1>4, <1>5 DEF u

\* Likewise for sequences of texts.
LEMMA ShownConcat ==
  ASSUME NEW p \in Seq(Texts), NEW q \in Seq(Texts)
  PROVE  p \o q \in Seq(Texts) /\ Shown(p \o q) = Shown(p) \cup Shown(q)
<1>1. p \o q \in Seq(Texts) /\ Len(p \o q) = Len(p) + Len(q)
  OBVIOUS
<1>2. \A i \in DOMAIN p : i \in DOMAIN (p \o q) /\ (p \o q)[i] = p[i]
  OBVIOUS
<1>3. \A i \in DOMAIN q : Len(p) + i \in DOMAIN (p \o q) /\ (p \o q)[Len(p) + i] = q[i]
  OBVIOUS
<1>4. \A i \in DOMAIN (p \o q) :
         \/ i \in DOMAIN p
         \/ i - Len(p) \in DOMAIN q /\ (p \o q)[i] = q[i - Len(p)]
  OBVIOUS
<1>5. Shown(p \o q) \subseteq Shown(p) \cup Shown(q)
  BY <1>2, <1>4 DEF Shown
<1>6. Shown(p) \subseteq Shown(p \o q)
  BY <1>2 DEF Shown
<1>7. Shown(q) \subseteq Shown(p \o q)
  BY <1>3 DEF Shown
<1> QED
  BY <1>1, <1>5, <1>6, <1>7

\* ... for one text,
LEMMA ShownOne ==
  ASSUME NEW s \in Texts
  PROVE  <<s>> \in Seq(Texts) /\ Shown(<<s>>) = Ink(s)
<1>1. Len(<<s>>) = 1 /\ DOMAIN <<s>> = {1} /\ <<s>>[1] = s
  OBVIOUS
<1> QED
  BY <1>1 DEF Shown

\* ... and for one more.
LEMMA ShownAppend ==
  ASSUME NEW p \in Seq(Texts), NEW s \in Texts
  PROVE  Append(p, s) \in Seq(Texts) /\ Shown(Append(p, s)) = Shown(p) \cup Ink(s)
<1>1. Append(p, s) = p \o <<s>>
  OBVIOUS
<1> QED
  BY <1>1, ShownOne, ShownConcat

\* The last part is replaced by one that says more.
LEMMA ShownGrows ==
  ASSUME NEW p \in Seq(Texts), p # <<>>, NEW s \in Texts, NEW t \in Texts,
         Ink(s) = Ink(p[Len(p)]) \cup Ink(t)
  PROVE  /\ [p EXCEPT ![Len(p)] = s] \in Seq(Texts)
         /\ Shown([p EXCEPT ![Len(p)] = s]) = Shown(p) \cup Ink(t)
<1> DEFINE u == [p EXCEPT ![Len(p)] = s]
<1>1. u \in Seq(Texts) /\ DOMAIN u = DOMAIN p /\ Len(p) \in DOMAIN p
  OBVIOUS
<1>2. \A i \in DOMAIN p : u[i] = IF i = Len(p) THEN s ELSE p[i]
  OBVIOUS
<1> HIDE DEF u
<1>3. Shown(u) \subseteq Shown(p) \cup Ink(t)
  BY <1>1, <1>2 DEF Shown
<1>4. Shown(p) \subseteq Shown(u)
  BY <1>1, <1>2 DEF Shown
<1>5. Ink(t) \subseteq Shown(u)
  BY <1>1, <1>2 DEF Shown
<1> QED
  BY <1>1, <1>3, <1>4, <1>5 DEF u

-----------------------------------------------------------------------------
(***************************************************************************)
(* Words.                                                                  *)
(***************************************************************************)
Word == Seq(Nat \ {0}) \ {<<>>}

\* A word is a text without blanks.
LEMMA WordsAreTexts ==
  ASSUME NEW w \in Word
  PROVE  w \in Texts /\ Len(w) \in Nat \ {0} /\ Ink(w) = {w[i] : i \in DOMAIN w}
<1>1. w \in Seq(Characters)
  BY DEF Word, Characters, Newline
<1>2. 1 \in DOMAIN w /\ w[1] \in Nat \ {0} /\ Len(w) \in Nat \ {0}
  BY DEF Word
<1>3. w \in Texts
  BY <1>1, <1>2 DEF Texts, IsBlank
<1>4. \A i \in DOMAIN w : w[i] > 0
  BY DEF Word
<1> QED
  BY <1>2, <1>3, <1>4 DEF Ink

\* One step of WordsOf.
PutCharacter(words, text, i) ==
  IF text[i] <= 0 THEN words
  ELSE IF i > 1 /\ text[i - 1] > 0
         THEN [words EXCEPT ![Len(words)] = Append(@, text[i])]
         ELSE Append(words, <<text[i]>>)

\* What has been said after i characters is in words, the last of them open.
WordsAt(text, i) ==
  {w \in Seq(Word) :
     /\ Shown(w) = {text[j] : j \in {j \in 1..i : text[j] > 0}}
     /\ i > 0 /\ text[i] > 0 => w # <<>>
     /\ i > 0 /\ (\A j \in 1..i : text[j] > 0) => Len(w) = 1}

\* Sequences of words are sequences of texts.
LEMMA SeqOfWords ==
  ASSUME NEW w \in Seq(Word)
  PROVE  w \in Seq(Texts)
BY WordsAreTexts

\* WordsAt is kept from one character to the next.
LEMMA WordsGrow ==
  ASSUME NEW text \in Seq(Characters), NEW i \in 1..Len(text), NEW w \in WordsAt(text, i - 1)
  PROVE  PutCharacter(w, text, i) \in WordsAt(text, i)
<1> DEFINE said(n) == {text[j] : j \in {j \in 1..n : text[j] > 0}}
<1>1. /\ w \in Seq(Word) /\ Shown(w) = said(i - 1)
      /\ i > 1 /\ text[i - 1] > 0 => w # <<>>
      /\ i > 1 /\ (\A j \in 1..(i - 1) : text[j] > 0) => Len(w) = 1
  BY DEF WordsAt
<1>2. 1..i = (1..(i - 1)) \cup {i} /\ i \in Nat /\ i > 0
  OBVIOUS
<1>3. text[i] \in Int
  BY DEF Characters
<1>4. CASE text[i] <= 0
  <2>1. said(i) = said(i - 1)
    BY <1>2, <1>3, <1>4
  <2>2. PutCharacter(w, text, i) = w
    BY <1>4 DEF PutCharacter
  <2>3. ~(text[i] > 0)
    BY <1>3, <1>4
  <2> QED
    BY <1>1, <1>2, <2>1, <2>2, <2>3 DEF WordsAt
<1>5. CASE text[i] > 0
  <2>1. said(i) = said(i - 1) \cup {text[i]}
    BY <1>2, <1>5
  <2>2. text[i] \in Nat \ {0}
    BY <1>3, <1>5
  <2>3. CASE i > 1 /\ text[i - 1] > 0
    <3> DEFINE x == Append(w[Len(w)], text[i])
               u == [w EXCEPT ![Len(w)] = x]
    <3>1. PutCharacter(w, text, i) = u
      BY <1>3, <1>5, <2>3 DEF PutCharacter
    <3>2. w # <<>> /\ w[Len(w)] \in Word
      BY <1>1, <2>3
    <3>3. x \in Word /\ Ink(x) = Ink(w[Len(w)]) \cup {text[i]}
      <4>1. x = w[Len(w)] \o <<text[i]>> /\ <<text[i]>> \in Word /\ x \in Word
        <5>1. w[Len(w)] \in Seq(Nat \ {0})
          BY <3>2 DEF Word
        <5>2. <<text[i]>> \in Seq(Nat \ {0}) /\ <<text[i]>> # <<>>
          BY <2>2
        <5>3. x \in Seq(Nat \ {0}) /\ Len(x) = Len(w[Len(w)]) + 1 /\ Len(w[Len(w)]) \in Nat
          BY <2>2, <5>1
        <5>4. x = w[Len(w)] \o <<text[i]>>
          BY <2>2, <5>1
        <5> QED
          BY <5>2, <5>3, <5>4, SMTT(20) DEF Word
      <4>2. Ink(<<text[i]>>) = {text[i]}
        BY <4>1, <2>2, WordsAreTexts
      <4> QED
        BY <3>2, <4>1, <4>2, WordsAreTexts, TextsJoin DEF Texts
    <3> HIDE DEF x
    <3>4. u \in Seq(Word) /\ Len(u) = Len(w) /\ u # <<>>
      BY <1>1, <3>2, <3>3
    <3>5. Shown(u) = Shown(w) \cup {text[i]}
      <4>1. w \in Seq(Texts) /\ w # <<>> /\ x \in Texts
        BY <1>1, <3>2, <3>3, SeqOfWords, WordsAreTexts
      <4>2. <<text[i]>> \in Word
        BY <2>2 DEF Word
      <4>3. <<text[i]>> \in Texts /\ Ink(<<text[i]>>) = {text[i]}
        BY <2>2, <4>2, WordsAreTexts
      <4>4. Ink(x) = Ink(w[Len(w)]) \cup Ink(<<text[i]>>)
        BY <3>3, <4>3
      <4>5. Shown(u) = Shown(w) \cup Ink(<<text[i]>>)
        BY <4>1, <4>3, <4>4, ShownGrows, Zenon
      <4> QED
        BY <4>3, <4>5
    <3>6. (\A j \in 1..i : text[j] > 0) => Len(u) = 1
      BY <1>1, <1>2, <2>3, <3>4
    <3> QED
      BY <1>1, <2>1, <3>1, <3>4, <3>5, <3>6 DEF WordsAt
  <2>4. CASE ~(i > 1 /\ text[i - 1] > 0)
    <3> DEFINE u == Append(w, <<text[i]>>)
    <3>1. PutCharacter(w, text, i) = u
      BY <1>3, <1>5, <2>4 DEF PutCharacter
    <3>2. <<text[i]>> \in Word
      BY <2>2 DEF Word
    <3>3. Ink(<<text[i]>>) = {text[i]}
      BY <3>2, <2>2, WordsAreTexts
    <3>4. u \in Seq(Word) /\ u # <<>> /\ Len(u) = Len(w) + 1
      BY <1>1, <3>2
    <3>5. Shown(u) = Shown(w) \cup {text[i]}
      BY <1>1, <3>2, <3>3, SeqOfWords, WordsAreTexts, ShownAppend
    <3>6. (\A j \in 1..i : text[j] > 0) => Len(u) = 1
      <4> SUFFICES ASSUME \A j \in 1..i : text[j] > 0 PROVE w = <<>>
        BY <3>4
      <4>1. i = 1
        BY <1>2, <2>4
      <4>2. Shown(w) = {}
        BY <1>1, <4>1
      <4>3. ASSUME w # <<>> PROVE FALSE
        <5>1. w[1] \in Word /\ 1 \in DOMAIN w
          BY <1>1, <4>3
        <5>2. Ink(w[1]) # {}
          BY <5>1, WordsAreTexts, TextsSay DEF Texts
        <5> QED
          BY <4>2, <5>1, <5>2 DEF Shown
      <4> QED
        BY <4>3
    <3> QED
      BY <1>1, <2>1, <3>1, <3>4, <3>5, <3>6 DEF WordsAt
  <2> QED
    BY <2>3, <2>4
<1> QED
  BY <1>3, <1>4, <1>5

\* text.split() keeps what is said, and one word is one word.
LEMMA WordsOfText ==
  ASSUME NEW text \in Seq(Characters)
  PROVE  /\ WordsOf(text) \in Seq(Word)
         /\ Shown(WordsOf(text)) = Ink(text)
         /\ text \in Word => Len(WordsOf(text)) = 1
<1> DEFINE n == Len(text)
           Inv == [i \in 0..n |-> WordsAt(text, i)]
           step == [p \in (1..n) \X Seq(Word) |-> PutCharacter(p[2], text, p[1])]
           Follows(f) == f = [i \in 0..n |-> IF i = 0 THEN <<>> ELSE PutCharacter(f[i - 1], text, i)]
           upTo == CHOOSE f : Follows(f)
<1>1. n \in Nat
  OBVIOUS
<1>2. WordsOf(text) = upTo[n]
  BY Zenon DEF WordsOf, PutCharacter
<1>3. <<>> \in Inv[0]
  BY DEF WordsAt, Shown
<1>4. ASSUME NEW i \in 1..n, NEW x \in Inv[i - 1] PROVE PutCharacter(x, text, i) \in Inv[i] /\ x \in Seq(Word)
  <2>1. i - 1 \in 0..n /\ i \in 0..n
    OBVIOUS
  <2>2. x \in WordsAt(text, i - 1)
    BY <2>1
  <2> QED
    BY <2>1, <2>2, WordsGrow DEF WordsAt
<1> HIDE DEF Inv, n
<1>5. \A i \in 1..n : \A x \in Inv[i - 1] : step[<<i, x>>] = PutCharacter(x, text, i)
  BY <1>4
<1>6. PICK f : Iterates(f, step, <<>>, Inv, n)
  <2> HIDE DEF step
  <2>1. Keeps(step, Inv, n)
    BY <1>4, <1>5 DEF Keeps
  <2> QED
    BY <1>1, <1>3, <2>1, Recursion
<1> HIDE DEF step
<1>7. Follows(f)
  BY <1>1, <1>5, <1>6 DEF Iterates
<1>8. Follows(upTo)
  BY <1>7, Zenon
<1> HIDE DEF upTo
<1>9. \A i \in 0..n : upTo[i] \in Inv[i]
  <2>1. upTo[0] \in Inv[0]
    BY <1>1, <1>3, <1>8
  <2>2. \A i \in 1..n : upTo[i - 1] \in Inv[i - 1] => upTo[i] \in Inv[i]
    BY <1>1, <1>4, <1>8
  <2> QED
    BY <1>1, <2>1, <2>2, Induct
<1>10. upTo[n] \in WordsAt(text, n)
  BY <1>1, <1>9 DEF Inv
<1>11. DOMAIN text = 1..n
  BY DEF n
<1>12. text \in Word => n > 0 /\ \A j \in 1..n : text[j] > 0
  BY <1>11, WordsAreTexts DEF Word, n
<1> QED
  BY <1>2, <1>10, <1>11, <1>12 DEF WordsAt, Ink

-----------------------------------------------------------------------------
(***************************************************************************)
(* A paragraph beyond the budget.                                          *)
(***************************************************************************)
PutWord(pieces, word, budget) ==
  IF pieces = <<>> THEN <<word>>
  ELSE IF Len(Last(pieces)) + 1 + Len(word) > budget THEN Append(pieces, word)
  ELSE [pieces EXCEPT ![Len(pieces)] = @ \o <<Space>> \o word]

\* One step of the pieces.
PutNth(pieces, words, i, budget) == PutWord(pieces, words[i], budget)

\* A piece within the budget, or a word by itself.
Fits(piece, budget) == Len(piece) <= budget \/ piece \in Word

\* The pieces say what the first i words say.
PiecesAt(words, budget, i) ==
  {p \in Seq(Texts) :
     /\ Shown(p) = UNION {Ink(words[j]) : j \in 1..i}
     /\ \A k \in DOMAIN p : Fits(p[k], budget)}

\* PiecesAt is kept from one word to the next.
LEMMA PiecesGrow ==
  ASSUME NEW words \in Seq(Word), NEW budget \in Nat, NEW i \in 1..Len(words),
         NEW p \in PiecesAt(words, budget, i - 1)
  PROVE  PutWord(p, words[i], budget) \in PiecesAt(words, budget, i)
<1> DEFINE said(n) == UNION {Ink(words[j]) : j \in 1..n}
           word == words[i]
           q == PutWord(p, word, budget)
<1>1. /\ p \in Seq(Texts) /\ Shown(p) = said(i - 1)
      /\ \A k \in DOMAIN p : Fits(p[k], budget)
  BY DEF PiecesAt
<1>2. said(i) = said(i - 1) \cup Ink(word)
  <2>1. 1..i = (1..(i - 1)) \cup {i}
    OBVIOUS
  <2> QED
    BY <2>1
<1>3. word \in Word /\ word \in Texts /\ Fits(word, budget) /\ Len(word) \in Nat
  BY WordsAreTexts DEF Fits
<1> HIDE DEF said, word
<1>4. CASE p = <<>>
  <2>1. q = <<word>> /\ DOMAIN q = {1} /\ q[1] = word
    BY <1>4 DEF PutWord
  <2>2. said(i - 1) = {}
    BY <1>1, <1>4 DEF Shown
  <2>3. q \in Seq(Texts) /\ Shown(q) = said(i)
    BY <1>2, <1>3, <2>1, <2>2, ShownOne
  <2> QED
    BY <1>3, <2>1, <2>3 DEF PiecesAt, said, word
<1>5. CASE p # <<>> /\ Len(Last(p)) + 1 + Len(word) > budget
  <2>1. q = Append(p, word)
    BY <1>5 DEF PutWord
  <2>2. q \in Seq(Texts) /\ Shown(q) = said(i)
    BY <1>1, <1>2, <1>3, <2>1, ShownAppend
  <2>3. \A k \in DOMAIN q : q[k] = word \/ (k \in DOMAIN p /\ q[k] = p[k])
    BY <1>1, <2>1
  <2>4. \A k \in DOMAIN q : Fits(q[k], budget)
    BY <1>1, <1>3, <2>3
  <2> QED
    BY <2>2, <2>4 DEF PiecesAt, said, word
<1>6. CASE p # <<>> /\ ~(Len(Last(p)) + 1 + Len(word) > budget)
  <2> DEFINE x == p[Len(p)] \o <<Space>> \o word
  <2>1. p[Len(p)] \in Texts /\ p[Len(p)] \in Seq(Characters) /\ Len(p) \in DOMAIN p
    BY <1>1, <1>6 DEF Texts
  <2>2. q = [p EXCEPT ![Len(p)] = x]
    BY <1>6 DEF PutWord
  <2>3. x \in Texts /\ Ink(x) = Ink(p[Len(p)]) \cup Ink(word)
    <3>1. p[Len(p)] \o <<Space>> \in Seq(Characters) /\ Ink(p[Len(p)] \o <<Space>>) = Ink(p[Len(p)])
      <4>1. /\ p[Len(p)] \o <<Space>> \in Seq(Characters)
            /\ Ink(p[Len(p)] \o <<Space>>) = Ink(p[Len(p)]) \cup Ink(<<Space>>)
        BY <2>1, NoInk, InkOfConcat
      <4> QED
        BY <4>1, NoInk
    <3> QED
      BY <1>3, <3>1, TextsJoin
  <2>4. Len(x) = Len(p[Len(p)]) + 1 + Len(word)
    <3>1. Len(<<Space>>) = 1 /\ word \in Seq(Characters)
      BY <1>3 DEF Texts
    <3>2. Len(p[Len(p)] \o <<Space>>) = Len(p[Len(p)]) + 1 /\ p[Len(p)] \o <<Space>> \in Seq(Characters)
      BY <2>1, <3>1, NoInk
    <3> QED
      BY <3>1, <3>2
  <2>5. Fits(x, budget)
    BY <1>3, <1>6, <2>1, <2>4 DEF Fits, Last, Texts
  <2> HIDE DEF x
  <2>6. q \in Seq(Texts) /\ Shown(q) = said(i)
    <3>1. /\ [p EXCEPT ![Len(p)] = x] \in Seq(Texts)
          /\ Shown([p EXCEPT ![Len(p)] = x]) = Shown(p) \cup Ink(word)
      BY <1>1, <1>3, <1>6, <2>3, ShownGrows, Zenon
    <3> QED
      BY <1>1, <1>2, <2>2, <3>1
  <2>7. \A k \in DOMAIN q : q[k] = x \/ (k \in DOMAIN p /\ q[k] = p[k])
    BY <1>1, <2>1, <2>2
  <2>8. \A k \in DOMAIN q : Fits(q[k], budget)
    BY <1>1, <2>5, <2>7
  <2> QED
    BY <2>6, <2>8 DEF PiecesAt, said, word
<1> QED
  BY <1>4, <1>5, <1>6

\* The function the fold of the words is.
PieceSteps(words, budget) ==
  CHOOSE f : f = [i \in 0..Len(words) |-> IF i = 0 THEN <<>> ELSE PutNth(f[i - 1], words, i, budget)]

\* All words are in the pieces, each of which fits.
LEMMA PiecesOfWords ==
  ASSUME NEW words \in Seq(Word), NEW budget \in Nat
  PROVE  PieceSteps(words, budget)[Len(words)] \in PiecesAt(words, budget, Len(words))
<1> DEFINE n == Len(words)
           Inv == [i \in 0..n |-> PiecesAt(words, budget, i)]
           step == [p \in (1..n) \X Seq(Texts) |-> PutNth(p[2], words, p[1], budget)]
           Follows(f) == f = [i \in 0..n |-> IF i = 0 THEN <<>> ELSE PutNth(f[i - 1], words, i, budget)]
           upTo == CHOOSE f : Follows(f)
<1>1. n \in Nat
  OBVIOUS
<1>2. PieceSteps(words, budget) = upTo
  BY Zenon DEF PieceSteps
<1>3. <<>> \in Inv[0]
  BY <1>1 DEF PiecesAt, Shown
<1>4. ASSUME NEW i \in 1..n, NEW x \in Inv[i - 1]
      PROVE  PutNth(x, words, i, budget) \in Inv[i] /\ x \in Seq(Texts)
  <2>1. i - 1 \in 0..n /\ i \in 0..n
    BY <1>1
  <2>2. x \in PiecesAt(words, budget, i - 1)
    BY <2>1
  <2> QED
    BY <1>1, <2>1, <2>2, PiecesGrow DEF PiecesAt, PutNth
<1> HIDE DEF Inv, n
<1>5. \A i \in 1..n : \A x \in Inv[i - 1] : step[<<i, x>>] = PutNth(x, words, i, budget)
  BY <1>4
<1>6. PICK f : Iterates(f, step, <<>>, Inv, n)
  <2> HIDE DEF step
  <2>1. Keeps(step, Inv, n)
    BY <1>4, <1>5 DEF Keeps
  <2> QED
    BY <1>1, <1>3, <2>1, Recursion
<1> HIDE DEF step
<1>7. Follows(f)
  <2>1. ASSUME NEW i \in 1..n PROVE f[i] = PutNth(f[i - 1], words, i, budget)
    <3>1. i - 1 \in 0..n
      BY <1>1
    <3>2. f[i - 1] \in Inv[i - 1] /\ f[i] = step[<<i, f[i - 1]>>]
      BY <1>6, <3>1 DEF Iterates
    <3> QED
      BY <1>5, <3>2
  <2>2. f = [i \in 0..n |-> f[i]] /\ f[0] = <<>>
    BY <1>6 DEF Iterates
  <2>3. \A i \in 0..n : f[i] = IF i = 0 THEN <<>> ELSE PutNth(f[i - 1], words, i, budget)
    <3>1. \A i \in 0..n : i = 0 \/ i \in 1..n
      BY <1>1
    <3> QED
      BY <2>1, <2>2, <3>1, Zenon
  <2>4. DOMAIN f = 0..n
    BY <2>2
  <2> QED
    BY <2>2, <2>3, Zenon
<1>8. Follows(upTo)
  BY <1>7, Zenon
<1> HIDE DEF upTo
<1>9. \A i \in 0..n : upTo[i] \in Inv[i]
  <2>1. upTo[0] \in Inv[0]
    BY <1>1, <1>3, <1>8
  <2>2. \A i \in 1..n : upTo[i - 1] \in Inv[i - 1] => upTo[i] \in Inv[i]
    BY <1>1, <1>4, <1>8
  <2> QED
    BY <1>1, <2>1, <2>2, Induct
<1> QED
  BY <1>1, <1>2, <1>9 DEF Inv, n

\* HardSplit keeps what a text says, within the budget but for single words.
LEMMA Pieces ==
  ASSUME NEW text \in Seq(Characters), NEW budget \in Nat
  PROVE  /\ HardSplit(text, budget) \in Seq(Texts)
         /\ Shown(HardSplit(text, budget)) = Ink(text)
         /\ \A k \in DOMAIN HardSplit(text, budget) : Fits(HardSplit(text, budget)[k], budget)
<1> DEFINE words == WordsOf(text)
<1>1. words \in Seq(Word) /\ Shown(words) = Ink(text)
  BY WordsOfText
<1>2. HardSplit(text, budget) = PieceSteps(words, budget)[Len(words)]
  BY Zenon DEF HardSplit, PieceSteps, PutWord, PutNth
<1> HIDE DEF words
<1>3. UNION {Ink(words[j]) : j \in 1..Len(words)} = Ink(text)
  BY <1>1 DEF Shown
<1> QED
  BY <1>1, <1>2, <1>3, PiecesOfWords DEF PiecesAt

-----------------------------------------------------------------------------
(***************************************************************************)
(* Paragraphs, one after the other.                                        *)
(***************************************************************************)
LEMMA JoinSays ==
  ASSUME NEW s \in Seq(Characters), NEW t \in Texts
  PROVE  /\ Join(s, t) \in Texts /\ Ink(Join(s, t)) = Ink(s) \cup Ink(t)
         /\ Len(Join(s, t)) <= Len(s) + 2 + Len(t)
         /\ s = <<>> => Join(s, t) = t
<1>1. t \in Seq(Characters) /\ Len(t) \in Nat /\ Len(s) \in Nat
  BY DEF Texts
<1>2. CASE s = <<>>
  BY <1>1, <1>2, NoInk DEF Join
<1>3. CASE s # <<>>
  <2>1. s \o Break \in Seq(Characters) /\ Ink(s \o Break) = Ink(s) \cup Ink(Break)
    BY NoInk, InkOfConcat
  <2>2. Len(Break) = 2
    BY DEF Break
  <2>3. Len(s \o Break) = Len(s) + 2
    BY <1>1 DEF Break
  <2>4. Len(s \o Break \o t) = Len(s) + 2 + Len(t)
    BY <1>1, <2>1, <2>3
  <2>5. Join(s, t) = s \o Break \o t
    BY <1>3 DEF Join
  <2>6. s \o Break \o t \in Texts /\ Ink(s \o Break \o t) = Ink(s) \cup Ink(t)
    <3> DEFINE u == s \o Break
    <3>1. u \in Seq(Characters) /\ Ink(u) = Ink(s)
      BY <2>1, NoInk
    <3> HIDE DEF u
    <3>2. u \o t \in Texts /\ Ink(u \o t) = Ink(s) \cup Ink(t)
      BY <3>1, TextsJoin
    <3> QED
      BY <3>2 DEF u
  <2> QED
    BY <1>1, <1>3, <2>4, <2>5, <2>6
<1> QED
  BY <1>2, <1>3

\* Stripping takes blanks only.
LEMMA StripSays ==
  ASSUME NEW text \in Seq(Characters)
  PROVE  /\ LStrip(text) \in Seq(Characters)
         /\ Ink(LStrip(text)) = Ink(text)
         /\ Len(LStrip(text)) <= Len(text)
<1> DEFINE inked == {i \in DOMAIN text : text[i] > 0}
           n == Len(text)
<1>1. n \in Nat /\ DOMAIN text = 1..n
  OBVIOUS
<1>2. CASE inked = {}
  <2>1. LStrip(text) = <<>>
    BY <1>2 DEF LStrip
  <2>2. Ink(text) = {}
    BY <1>2 DEF Ink
  <2> QED
    BY <1>1, <2>1, <2>2, NoInk
<1>3. CASE inked # {}
  <2>1. LStrip(text) = SubSeq(text, Min(inked), n)
    BY <1>3 DEF LStrip
  <2>2. inked \in SUBSET Nat
    BY <1>1
  <2>3. Min(inked) \in inked /\ \A k \in inked : Min(inked) <= k
    <3> HIDE DEF inked
    <3> QED
      BY <1>3, <2>2, LeastNumber
  <2> DEFINE a == Min(inked)
  <2>4. a \in 1..n /\ \A i \in 1..n : text[i] > 0 => i \in a..n
    BY <1>1, <2>3
  <2> HIDE DEF a, n
  <2>5. LStrip(text) = SubSeq(text, a, n)
    BY <2>1 DEF a
  <2>6. a \in 1..(Len(text) + 1) /\ n \in 0..Len(text) /\ n = Len(text)
    BY <1>1, <2>4 DEF n
  <2>7. /\ SubSeq(text, a, n) \in Seq(Characters)
        /\ Ink(SubSeq(text, a, n)) = {text[i] : i \in {i \in a..n : text[i] > 0}}
        /\ Len(SubSeq(text, a, n)) = IF a <= n THEN n - a + 1 ELSE 0
    BY <2>6, InkOfSub
  <2>8. {text[i] : i \in {i \in a..n : text[i] > 0}} = Ink(text)
    BY <1>1, <2>4 DEF Ink
  <2> QED
    BY <1>1, <2>4, <2>5, <2>6, <2>7, <2>8
<1> QED
  BY <1>2, <1>3

\* What is carried over says nothing new, and is as short as it should be
\* unless nothing should be carried.
LEMMA CarriedSays ==
  ASSUME NEW text \in Seq(Characters), NEW chars \in Nat
  PROVE  /\ Carried(text, chars) \in Seq(Characters)
         /\ Ink(Carried(text, chars)) \subseteq Ink(text)
         /\ chars > 0 => Len(Carried(text, chars)) <= chars
<1> DEFINE tail == IF chars = 0 THEN text ELSE Cut(text, Len(text) - chars, Len(text))
           window == LStrip(tail)
           spaces == {i \in DOMAIN window : window[i] = Space}
           rest == SubSeq(window, Min(spaces), Len(window))
<1>1. Carried(text, chars) = IF Len(text) <= chars THEN <<>>
                             ELSE IF spaces = {} THEN window ELSE LStrip(rest)
  BY DEF Carried
<1>2. CASE Len(text) <= chars
  BY <1>1, <1>2, NoInk
<1>3. CASE ~(Len(text) <= chars)
  <2>1. /\ tail \in Seq(Characters) /\ Ink(tail) \subseteq Ink(text)
        /\ chars > 0 => Len(tail) <= chars
    <3>1. CASE chars = 0
      BY <3>1
    <3>2. CASE chars # 0
      <4> DEFINE a == Len(text) - chars + 1
                 b == Len(text)
      <4>1. tail = SubSeq(text, a, b)
        BY <3>2 DEF Cut
      <4>2. a \in 1..(Len(text) + 1) /\ b \in 0..Len(text) /\ b \in Nat /\ b - a + 1 = chars /\ a \in Nat
        BY <1>3
      <4>3. \A i \in a..b : i \in DOMAIN text
        BY <4>2
      <4> HIDE DEF a, b, tail
      <4>4. /\ SubSeq(text, a, b) \in Seq(Characters)
            /\ Ink(SubSeq(text, a, b)) = {text[i] : i \in {i \in a..b : text[i] > 0}}
            /\ Len(SubSeq(text, a, b)) = IF a <= b THEN b - a + 1 ELSE 0
        BY <4>2, InkOfSub
      <4>5. {text[i] : i \in {i \in a..b : text[i] > 0}} \subseteq Ink(text)
        BY <4>3 DEF Ink
      <4> QED
        BY <3>2, <4>1, <4>2, <4>4, <4>5
    <3> QED
      BY <3>1, <3>2
  <2> HIDE DEF tail
  <2>2. /\ window \in Seq(Characters) /\ Ink(window) \subseteq Ink(text)
        /\ Len(window) <= Len(tail) /\ Len(window) \in Nat /\ Len(tail) \in Nat
    BY <2>1, StripSays
  <2> HIDE DEF window
  <2>3. spaces # {} => /\ LStrip(rest) \in Seq(Characters) /\ Ink(LStrip(rest)) \subseteq Ink(window)
                       /\ Len(LStrip(rest)) <= Len(window)
    <3> SUFFICES ASSUME spaces # {} PROVE /\ LStrip(rest) \in Seq(Characters)
                                          /\ Ink(LStrip(rest)) \subseteq Ink(window)
                                          /\ Len(LStrip(rest)) <= Len(window)
      OBVIOUS
    <3> DEFINE a == Min(spaces)
               b == Len(window)
    <3>1. spaces \in SUBSET Nat
      BY <2>2
    <3>2. a \in spaces
      <4> HIDE DEF spaces
      <4> QED
        BY <3>1, LeastNumber
    <3>3. a \in 1..(Len(window) + 1) /\ b \in 0..Len(window) /\ a \in 1..b /\ b \in Nat
      BY <2>2, <3>2
    <3>4. \A i \in a..b : i \in DOMAIN window
      BY <2>2, <3>3
    <3>5. rest = SubSeq(window, a, b)
      OBVIOUS
    <3> HIDE DEF a, b, rest
    <3>6. /\ rest \in Seq(Characters)
          /\ Ink(rest) = {window[i] : i \in {i \in a..b : window[i] > 0}}
          /\ Len(rest) = IF a <= b THEN b - a + 1 ELSE 0
      BY <2>2, <3>3, <3>5, InkOfSub
    <3>7. Ink(rest) \subseteq Ink(window)
      BY <3>4, <3>6 DEF Ink
    <3>8. Len(rest) <= Len(window) /\ Len(rest) \in Nat
      BY <3>3, <3>6 DEF b
    <3>9. /\ LStrip(rest) \in Seq(Characters) /\ Ink(LStrip(rest)) = Ink(rest)
          /\ Len(LStrip(rest)) <= Len(rest) /\ Len(LStrip(rest)) \in Nat
      BY <3>6, StripSays
    <3> QED
      BY <2>2, <3>7, <3>8, <3>9
  <2>4. Len(LStrip(rest)) \in Nat \/ spaces = {}
    BY <2>3
  <2> HIDE DEF rest, spaces
  <2> QED
    BY <1>1, <1>3, <2>1, <2>2, <2>3, <2>4
<1> QED
  BY <1>2, <1>3

\* A text as long as the budget and what is carried over allow, or a word.
Slack(piece, budget, overlap) ==
  (overlap > 0 => Len(piece) <= budget + overlap + 2) \/ piece \in Word

\* One step of SplitText.
PutParagraph(at, paragraphs, i, budget, overlap) ==
  IF Len(paragraphs[i]) > budget
    THEN [chunks |-> Closed(at) \o HardSplit(paragraphs[i], budget), current |-> <<>>]
  ELSE IF at.current # <<>> /\ Len(at.current) + 2 + Len(paragraphs[i]) > budget
    THEN [chunks |-> Closed(at), current |-> Join(Carried(at.current, overlap), paragraphs[i])]
  ELSE [at EXCEPT !.current = Join(@, paragraphs[i])]

\* What the first i paragraphs say.
Said(paragraphs, i) == UNION {Ink(paragraphs[j]) : j \in 1..i}

\* The chunks and what is pending say what the first i paragraphs say.
SplitAt(paragraphs, budget, overlap, i) ==
  {at \in [chunks : Seq(Texts), current : Texts \cup {<<>>}] :
     /\ Shown(at.chunks) \cup Ink(at.current) = Said(paragraphs, i)
     /\ \A k \in DOMAIN at.chunks : Slack(at.chunks[k], budget, overlap)
     /\ overlap > 0 => Len(at.current) <= budget + overlap + 2}

\* Flushing what is pending loses nothing.
LEMMA ClosedSays ==
  ASSUME NEW paragraphs, NEW budget \in Nat, NEW overlap \in Nat, NEW i,
         NEW at \in SplitAt(paragraphs, budget, overlap, i)
  PROVE  /\ Closed(at) \in Seq(Texts) /\ Shown(Closed(at)) = Said(paragraphs, i)
         /\ \A k \in DOMAIN Closed(at) : Slack(Closed(at)[k], budget, overlap)
<1>1. /\ at.chunks \in Seq(Texts) /\ at.current \in Texts \cup {<<>>}
      /\ Shown(at.chunks) \cup Ink(at.current) = Said(paragraphs, i)
      /\ \A k \in DOMAIN at.chunks : Slack(at.chunks[k], budget, overlap)
      /\ overlap > 0 => Len(at.current) <= budget + overlap + 2
  BY DEF SplitAt
<1>2. CASE at.current = <<>>
  BY <1>1, <1>2, NoInk DEF Closed
<1>3. CASE at.current # <<>>
  <2>1. Closed(at) = Append(at.chunks, at.current) /\ at.current \in Texts
    BY <1>1, <1>3 DEF Closed
  <2>2. Closed(at) \in Seq(Texts) /\ Shown(Closed(at)) = Said(paragraphs, i)
    BY <1>1, <2>1, ShownAppend
  <2>3. \A k \in DOMAIN Closed(at) : Closed(at)[k] = at.current \/ (k \in DOMAIN at.chunks /\ Closed(at)[k] = at.chunks[k])
    BY <1>1, <2>1
  <2>4. Slack(at.current, budget, overlap)
    BY <1>1 DEF Slack
  <2> QED
    BY <1>1, <2>2, <2>3, <2>4
<1> QED
  BY <1>2, <1>3

\* SplitAt is kept from one paragraph to the next.
LEMMA SplitGrows ==
  ASSUME NEW paragraphs \in Seq(Texts), NEW budget \in Nat, NEW overlap \in Nat, NEW i \in 1..Len(paragraphs),
         NEW at \in SplitAt(paragraphs, budget, overlap, i - 1)
  PROVE  PutParagraph(at, paragraphs, i, budget, overlap) \in SplitAt(paragraphs, budget, overlap, i)
<1> DEFINE p == paragraphs[i]
           next == PutParagraph(at, paragraphs, i, budget, overlap)
<1>1. /\ at \in [chunks : Seq(Texts), current : Texts \cup {<<>>}]
      /\ Shown(at.chunks) \cup Ink(at.current) = Said(paragraphs, i - 1)
      /\ \A k \in DOMAIN at.chunks : Slack(at.chunks[k], budget, overlap)
      /\ overlap > 0 => Len(at.current) <= budget + overlap + 2
  BY DEF SplitAt
<1>2. Said(paragraphs, i) = Said(paragraphs, i - 1) \cup Ink(p)
  <2>1. 1..i = (1..(i - 1)) \cup {i}
    OBVIOUS
  <2> QED
    BY <2>1 DEF Said
<1>3. /\ Closed(at) \in Seq(Texts) /\ Shown(Closed(at)) = Said(paragraphs, i - 1)
      /\ \A k \in DOMAIN Closed(at) : Slack(Closed(at)[k], budget, overlap)
  BY ClosedSays
<1>4. p \in Texts /\ p \in Seq(Characters) /\ Len(p) \in Nat
  BY DEF Texts
<1>5. at.current \in Seq(Characters) /\ Len(at.current) \in Nat /\ (at.current \in Texts \/ at.current = <<>>)
  <2>1. at.current \in Texts \/ at.current = <<>>
    BY <1>1
  <2>2. at.current \in Seq(Characters)
    BY <2>1, NoInk DEF Texts
  <2> QED
    BY <2>1, <2>2
<1>6. CASE Len(p) > budget
  <2> DEFINE pieces == HardSplit(p, budget)
             q == Closed(at) \o pieces
  <2>1. pieces \in Seq(Texts) /\ Shown(pieces) = Ink(p) /\ \A k \in DOMAIN pieces : Fits(pieces[k], budget)
    BY <1>4, Pieces
  <2>2. next = [chunks |-> q, current |-> <<>>]
    BY <1>6 DEF PutParagraph
  <2> HIDE DEF pieces, p
  <2>3. q \in Seq(Texts) /\ Shown(q) = Said(paragraphs, i)
    BY <1>2, <1>3, <2>1, ShownConcat
  <2>4. \A k \in DOMAIN pieces : Slack(pieces[k], budget, overlap)
    <3> SUFFICES ASSUME NEW k \in DOMAIN pieces PROVE Slack(pieces[k], budget, overlap)
      OBVIOUS
    <3>1. Len(pieces[k]) \in Nat
      BY <2>1 DEF Texts
    <3> QED
      BY <2>1, <3>1 DEF Fits, Slack
  <2>5. \A k \in DOMAIN q : (k \in DOMAIN Closed(at) /\ q[k] = Closed(at)[k])
                             \/ (k - Len(Closed(at)) \in DOMAIN pieces /\ q[k] = pieces[k - Len(Closed(at))])
    BY <1>3, <2>1
  <2>6. \A k \in DOMAIN q : Slack(q[k], budget, overlap)
    BY <1>3, <2>4, <2>5
  <2> HIDE DEF q, next
  <2> QED
    BY <2>2, <2>3, <2>6, NoInk DEF SplitAt, next
<1>7. CASE ~(Len(p) > budget) /\ at.current # <<>> /\ Len(at.current) + 2 + Len(p) > budget
  <2> DEFINE carried == Carried(at.current, overlap)
             q == Join(carried, p)
  <2>1. /\ carried \in Seq(Characters) /\ Ink(carried) \subseteq Ink(at.current)
        /\ overlap > 0 => Len(carried) <= overlap
    BY <1>5, CarriedSays
  <2>2. next = [chunks |-> Closed(at), current |-> q]
    BY <1>7 DEF PutParagraph
  <2> HIDE DEF carried, p
  <2>3. q \in Texts /\ Ink(q) = Ink(carried) \cup Ink(p) /\ Len(q) <= Len(carried) + 2 + Len(p)
    BY <1>4, <2>1, JoinSays
  <2>4. Ink(carried) \subseteq Said(paragraphs, i - 1)
    BY <1>1, <2>1
  <2>5. overlap > 0 => Len(q) <= budget + overlap + 2
    <3>1. Len(q) \in Nat /\ Len(carried) \in Nat
      BY <2>1, <2>3 DEF Texts
    <3> QED
      BY <1>4, <1>7, <2>1, <2>3, <3>1
  <2> HIDE DEF q, next
  <2> QED
    BY <1>2, <1>3, <2>2, <2>3, <2>4, <2>5 DEF SplitAt, next
<1>8. CASE ~(Len(p) > budget) /\ ~(at.current # <<>> /\ Len(at.current) + 2 + Len(p) > budget)
  <2> DEFINE q == Join(at.current, p)
  <2>1. next = [at EXCEPT !.current = q]
    BY <1>8 DEF PutParagraph
  <2>2. next = [chunks |-> at.chunks, current |-> q]
    BY <1>1, <2>1
  <2> HIDE DEF p
  <2>3. /\ q \in Texts /\ Ink(q) = Ink(at.current) \cup Ink(p) /\ Len(q) <= Len(at.current) + 2 + Len(p)
        /\ at.current = <<>> => q = p
    BY <1>4, <1>5, JoinSays
  <2>4. Len(q) <= budget
    <3>1. Len(q) \in Nat
      BY <2>3 DEF Texts
    <3> QED
      BY <1>4, <1>5, <1>8, <2>3, <3>1
  <2>5. overlap > 0 => Len(q) <= budget + overlap + 2
    <3>1. Len(q) \in Nat
      BY <2>3 DEF Texts
    <3> QED
      BY <2>4, <3>1
  <2> HIDE DEF q, next
  <2>6. Shown(at.chunks) \cup Ink(q) = Said(paragraphs, i)
    BY <1>1, <1>2, <2>3
  <2> QED
    BY <1>1, <2>2, <2>3, <2>5, <2>6 DEF SplitAt, next
<1> QED
  BY <1>6, <1>7, <1>8

\* The function the fold of the paragraphs is.
SplitSteps(paragraphs, budget, overlap) ==
  CHOOSE f : f = [i \in 0..Len(paragraphs) |->
                    IF i = 0 THEN [chunks |-> <<>>, current |-> <<>>]
                    ELSE PutParagraph(f[i - 1], paragraphs, i, budget, overlap)]

\* All paragraphs are in what SplitText has at its end.
LEMMA SplitOfParagraphs ==
  ASSUME NEW paragraphs \in Seq(Texts), NEW budget \in Nat, NEW overlap \in Nat
  PROVE  SplitSteps(paragraphs, budget, overlap)[Len(paragraphs)]
           \in SplitAt(paragraphs, budget, overlap, Len(paragraphs))
<1> DEFINE n == Len(paragraphs)
           base == [chunks |-> <<>>, current |-> <<>>]
           States == [chunks : Seq(Texts), current : Texts \cup {<<>>}]
           Inv == [i \in 0..n |-> SplitAt(paragraphs, budget, overlap, i)]
           step == [p \in (1..n) \X States |-> PutParagraph(p[2], paragraphs, p[1], budget, overlap)]
           Follows(f) == f = [i \in 0..n |-> IF i = 0 THEN base
                                             ELSE PutParagraph(f[i - 1], paragraphs, i, budget, overlap)]
           upTo == CHOOSE f : Follows(f)
<1>1. n \in Nat
  OBVIOUS
<1>2. SplitSteps(paragraphs, budget, overlap) = upTo
  BY Zenon DEF SplitSteps
<1>3. base \in Inv[0]
  <2>1. Shown(<<>>) = {} /\ Said(paragraphs, 0) = {} /\ <<>> \in Seq(Texts)
    BY DEF Shown, Said
  <2> QED
    BY <1>1, <2>1, NoInk DEF SplitAt
<1>4. ASSUME NEW i \in 1..n, NEW x \in Inv[i - 1]
      PROVE  PutParagraph(x, paragraphs, i, budget, overlap) \in Inv[i] /\ x \in States
  <2>1. i - 1 \in 0..n /\ i \in 0..n
    BY <1>1
  <2>2. x \in SplitAt(paragraphs, budget, overlap, i - 1)
    BY <2>1
  <2>3. PutParagraph(x, paragraphs, i, budget, overlap) \in SplitAt(paragraphs, budget, overlap, i)
    BY <2>2, SplitGrows
  <2> QED
    BY <2>1, <2>2, <2>3 DEF SplitAt
<1> HIDE DEF Inv, n, States, base
<1>5. \A i \in 1..n : \A x \in Inv[i - 1] : step[<<i, x>>] = PutParagraph(x, paragraphs, i, budget, overlap)
  BY <1>4
<1>6. PICK f : Iterates(f, step, base, Inv, n)
  <2> HIDE DEF step
  <2>1. Keeps(step, Inv, n)
    BY <1>4, <1>5 DEF Keeps
  <2> QED
    BY <1>1, <1>3, <2>1, Recursion
<1> HIDE DEF step
<1>7. Follows(f)
  <2>1. ASSUME NEW i \in 1..n PROVE f[i] = PutParagraph(f[i - 1], paragraphs, i, budget, overlap)
    <3>1. i - 1 \in 0..n
      BY <1>1
    <3>2. f[i - 1] \in Inv[i - 1] /\ f[i] = step[<<i, f[i - 1]>>]
      BY <1>6, <3>1 DEF Iterates
    <3> QED
      BY <1>5, <3>2
  <2>2. f = [i \in 0..n |-> f[i]] /\ f[0] = base
    BY <1>6 DEF Iterates
  <2>3. \A i \in 0..n : f[i] = IF i = 0 THEN base ELSE PutParagraph(f[i - 1], paragraphs, i, budget, overlap)
    <3>1. \A i \in 0..n : i = 0 \/ i \in 1..n
      BY <1>1
    <3> QED
      BY <2>1, <2>2, <3>1, Zenon
  <2> QED
    BY <2>2, <2>3, Zenon
<1>8. Follows(upTo)
  BY <1>7, Zenon
<1> HIDE DEF upTo
<1>9. \A i \in 0..n : upTo[i] \in Inv[i]
  <2>1. upTo[0] \in Inv[0]
    BY <1>1, <1>3, <1>8
  <2>2. \A i \in 1..n : upTo[i - 1] \in Inv[i - 1] => upTo[i] \in Inv[i]
    BY <1>1, <1>4, <1>8
  <2> QED
    BY <1>1, <2>1, <2>2, Induct
<1> QED
  BY <1>1, <1>2, <1>9 DEF Inv, n

\* SplitText keeps what the paragraphs say, and exceeds the budget by what it carries.
LEMMA Splits ==
  ASSUME NEW paragraphs \in Seq(Texts), NEW budget \in Nat, NEW overlap \in Nat
  PROVE  LET parts == SplitText(paragraphs, budget, overlap)
         IN /\ parts \in Seq(Texts) /\ Shown(parts) = Shown(paragraphs)
            /\ \A k \in DOMAIN parts : Slack(parts[k], budget, overlap)
<1>1. SplitText(paragraphs, budget, overlap) = Closed(SplitSteps(paragraphs, budget, overlap)[Len(paragraphs)])
  BY Zenon DEF SplitText, SplitSteps, PutParagraph
<1>2. Said(paragraphs, Len(paragraphs)) = Shown(paragraphs)
  BY DEF Said, Shown
<1> DEFINE at == SplitSteps(paragraphs, budget, overlap)[Len(paragraphs)]
<1>3. at \in SplitAt(paragraphs, budget, overlap, Len(paragraphs))
  BY SplitOfParagraphs
<1> HIDE DEF at
<1>4. /\ Closed(at) \in Seq(Texts) /\ Shown(Closed(at)) = Said(paragraphs, Len(paragraphs))
      /\ \A k \in DOMAIN Closed(at) : Slack(Closed(at)[k], budget, overlap)
  BY <1>3, ClosedSays
<1>5. SplitText(paragraphs, budget, overlap) = Closed(at)
  BY <1>1 DEF at
<1> QED
  BY <1>2, <1>4, <1>5, Zenon

\* One step of the joined text.
JoinNth(text, paragraphs, i) == Join(text, paragraphs[i])

\* The function the fold of the joins is.
JoinSteps(paragraphs) ==
  CHOOSE f : f = [i \in 0..Len(paragraphs) |-> IF i = 0 THEN <<>> ELSE JoinNth(f[i - 1], paragraphs, i)]

\* A text that says what the first i paragraphs say.
JoinedAt(paragraphs, i) == {text \in Seq(Characters) : Ink(text) = Said(paragraphs, i)}

\* JoinedAt is kept from one paragraph to the next.
LEMMA JoinGrows ==
  ASSUME NEW paragraphs \in Seq(Texts), NEW i \in 1..Len(paragraphs), NEW text \in JoinedAt(paragraphs, i - 1)
  PROVE  JoinNth(text, paragraphs, i) \in JoinedAt(paragraphs, i)
<1>1. 1..i = (1..(i - 1)) \cup {i} /\ paragraphs[i] \in Texts
  OBVIOUS
<1>2. Said(paragraphs, i) = Said(paragraphs, i - 1) \cup Ink(paragraphs[i])
  BY <1>1 DEF Said
<1>3. text \in Seq(Characters) /\ Ink(text) = Said(paragraphs, i - 1)
  BY DEF JoinedAt
<1>4. /\ Join(text, paragraphs[i]) \in Texts
      /\ Ink(Join(text, paragraphs[i])) = Ink(text) \cup Ink(paragraphs[i])
  BY <1>1, <1>3, JoinSays
<1>5. Join(text, paragraphs[i]) \in Seq(Characters)
  BY <1>4 DEF Texts
<1> QED
  BY <1>2, <1>3, <1>4, <1>5 DEF JoinedAt, JoinNth

\* Joined paragraphs say what the paragraphs say.
LEMMA JoinedParagraphs ==
  ASSUME NEW paragraphs \in Seq(Texts)
  PROVE  Joined(paragraphs) \in Seq(Characters) /\ Ink(Joined(paragraphs)) = Shown(paragraphs)
<1> DEFINE n == Len(paragraphs)
           Inv == [i \in 0..n |-> JoinedAt(paragraphs, i)]
           step == [p \in (1..n) \X Seq(Characters) |-> JoinNth(p[2], paragraphs, p[1])]
           Follows(f) == f = [i \in 0..n |-> IF i = 0 THEN <<>> ELSE JoinNth(f[i - 1], paragraphs, i)]
           upTo == CHOOSE f : Follows(f)
<1>1. n \in Nat
  OBVIOUS
<1>2. Joined(paragraphs) = upTo[n]
  BY Zenon DEF Joined, JoinNth
<1>3. <<>> \in Inv[0]
  <2>1. Said(paragraphs, 0) = {}
    BY DEF Said
  <2>2. <<>> \in JoinedAt(paragraphs, 0)
    BY <2>1, NoInk DEF JoinedAt
  <2> QED
    BY <1>1, <2>2
<1>4. ASSUME NEW i \in 1..n, NEW x \in Inv[i - 1]
      PROVE  JoinNth(x, paragraphs, i) \in Inv[i] /\ x \in Seq(Characters)
  <2>1. i - 1 \in 0..n /\ i \in 0..n
    BY <1>1
  <2>2. x \in JoinedAt(paragraphs, i - 1)
    BY <2>1
  <2>3. JoinNth(x, paragraphs, i) \in JoinedAt(paragraphs, i)
    BY <2>2, JoinGrows
  <2> QED
    BY <2>1, <2>2, <2>3 DEF JoinedAt
<1> HIDE DEF Inv, n
<1>5. \A i \in 1..n : \A x \in Inv[i - 1] : step[<<i, x>>] = JoinNth(x, paragraphs, i)
  BY <1>4
<1>6. PICK f : Iterates(f, step, <<>>, Inv, n)
  <2> HIDE DEF step
  <2>1. Keeps(step, Inv, n)
    BY <1>4, <1>5 DEF Keeps
  <2> QED
    BY <1>1, <1>3, <2>1, Recursion
<1> HIDE DEF step
<1>7. Follows(f)
  <2>1. ASSUME NEW i \in 1..n PROVE f[i] = JoinNth(f[i - 1], paragraphs, i)
    <3>1. i - 1 \in 0..n
      BY <1>1
    <3>2. f[i - 1] \in Inv[i - 1] /\ f[i] = step[<<i, f[i - 1]>>]
      BY <1>6, <3>1 DEF Iterates
    <3> QED
      BY <1>5, <3>2
  <2>2. f = [i \in 0..n |-> f[i]] /\ f[0] = <<>>
    BY <1>6 DEF Iterates
  <2>3. \A i \in 0..n : f[i] = IF i = 0 THEN <<>> ELSE JoinNth(f[i - 1], paragraphs, i)
    <3>1. \A i \in 0..n : i = 0 \/ i \in 1..n
      BY <1>1
    <3> QED
      BY <2>1, <2>2, <3>1, Zenon
  <2> QED
    BY <2>2, <2>3, Zenon
<1>8. Follows(upTo)
  BY <1>7, Zenon
<1> HIDE DEF upTo
<1>9. \A i \in 0..n : upTo[i] \in Inv[i]
  <2>1. upTo[0] \in Inv[0]
    BY <1>1, <1>3, <1>8
  <2>2. \A i \in 1..n : upTo[i - 1] \in Inv[i - 1] => upTo[i] \in Inv[i]
    BY <1>1, <1>4, <1>8
  <2> QED
    BY <1>1, <2>1, <2>2, Induct
<1>10. Said(paragraphs, n) = Shown(paragraphs)
  BY DEF Said, Shown, n
<1> QED
  BY <1>1, <1>2, <1>9, <1>10 DEF Inv, n, JoinedAt

-----------------------------------------------------------------------------
(***************************************************************************)
(* Slices.  The recursion goes up from a position to the end of the text,  *)
(* so the tables of it that are shown to exist grow downwards.             *)
(***************************************************************************)
Spaces(text, size, position) ==
  {i \in (position + 1)..(Min({position + size, Len(text)}) - 1) : text[i + 1] = Space}

\* Where the slice from a position ends.
EndOf(text, size, position) ==
  IF Min({position + size, Len(text)}) < Len(text) /\ Spaces(text, size, position) # {}
    THEN Max(Spaces(text, size, position)) ELSE Min({position + size, Len(text)})

\* Where the next one would start with the overlap.
StartOf(text, size, overlap, position) ==
  IF EndOf(text, size, position) - overlap <= position
    THEN EndOf(text, size, position) ELSE EndOf(text, size, position) - overlap

\* ... and where it starts without blanks.
NextOf(text, size, overlap, position) ==
  Min({i \in StartOf(text, size, overlap, position)..Len(text) : i = Len(text) \/ text[i + 1] > 0})

\* The slice, unless it is blank.
SliceOf(text, size, position) ==
  IF IsBlank(Cut(text, position, EndOf(text, size, position))) THEN <<>>
  ELSE <<Cut(text, position, EndOf(text, size, position))>>

\* A slice has a character at least, and is within the text.
LEMMA EndBounds ==
  ASSUME NEW text \in Seq(Characters), NEW size \in Nat \ {0}, NEW position \in 0..(Len(text) - 1)
  PROVE  EndOf(text, size, position) \in (position + 1)..Len(text)
         /\ EndOf(text, size, position) - position <= size
<1> DEFINE n == Len(text)
           end == Min({position + size, n})
           spaces == Spaces(text, size, position)
<1>1. n \in Nat /\ position \in Nat /\ position < n
  OBVIOUS
<1>2. end = IF position + size < n THEN position + size ELSE n
  BY <1>1, MinOfTwo
<1> HIDE DEF n, end
<1>3. end \in (position + 1)..n /\ end - position <= size
  BY <1>1, <1>2
<1>4. CASE end < n /\ spaces # {}
  <2>1. EndOf(text, size, position) = Max(spaces)
    BY <1>4 DEF EndOf, end, n
  <2>2. spaces \in SUBSET ((position + 1)..(end - 1)) /\ spaces \in SUBSET (0..n)
    <3>1. spaces \subseteq (position + 1)..(end - 1)
      BY DEF Spaces, end, n
    <3>2. (position + 1)..(end - 1) \subseteq 0..n
      BY <1>1, <1>3
    <3> QED
      BY <3>1, <3>2, Zenon
  <2> HIDE DEF spaces
  <2>3. Max(spaces) \in spaces
    BY <1>1, <1>4, <2>2, GreatestNumber
  <2>4. Max(spaces) \in (position + 1)..(end - 1)
    BY <2>2, <2>3
  <2> QED
    BY <1>1, <1>3, <2>1, <2>4 DEF n
<1>5. CASE ~(end < n /\ spaces # {})
  <2>1. EndOf(text, size, position) = end
    BY <1>5 DEF EndOf, end, n
  <2> QED
    BY <1>3, <2>1 DEF n
<1> QED
  BY <1>4, <1>5

\* The next slice starts later, and there is nothing but blanks between
\* where it starts and where it might have.
LEMMA NextBounds ==
  ASSUME NEW text \in Seq(Characters), NEW size \in Nat \ {0}, NEW overlap \in Nat,
         NEW position \in 0..(Len(text) - 1)
  PROVE  LET next == NextOf(text, size, overlap, position)
         IN /\ next \in (position + 1)..Len(text)
            /\ \A i \in EndOf(text, size, position)..(next - 1) : ~(text[i + 1] > 0)
<1> DEFINE n == Len(text)
           end == EndOf(text, size, position)
           start == StartOf(text, size, overlap, position)
           S == {i \in start..n : i = n \/ text[i + 1] > 0}
           next == Min(S)
<1>1. n \in Nat /\ position \in Nat /\ end \in (position + 1)..n
  BY EndBounds
<1>2. start \in (position + 1)..end
  BY <1>1 DEF StartOf
<1>3. S \in SUBSET Nat /\ n \in S
  BY <1>1, <1>2
<1> HIDE DEF start, end, n
<1>4. next \in S /\ \A k \in S : next <= k
  <2> HIDE DEF S
  <2> QED
    BY <1>3, LeastNumber
<1>5. next \in (position + 1)..n
  BY <1>1, <1>2, <1>4
<1>6. ASSUME NEW i \in end..(next - 1) PROVE ~(text[i + 1] > 0)
  <2>1. i \in start..n /\ ~(next <= i)
    BY <1>1, <1>2, <1>5
  <2>2. i \notin S
    BY <1>4, <2>1
  <2> QED
    BY <2>1, <2>2
<1>7. next = NextOf(text, size, overlap, position)
  BY DEF NextOf, start, n
<1> QED
  BY <1>5, <1>6, <1>7 DEF end, n

\* What is said from a position on.
Remains(text, position) == {text[i] : i \in {i \in (position + 1)..Len(text) : text[i] > 0}}

\* The slices from a position on.
Slices(text, size, position, parts) ==
  /\ parts \in Seq(Texts) /\ Shown(parts) = Remains(text, position)
  /\ \A k \in DOMAIN parts : Len(parts[k]) <= size

\* One step of the slices.
SlicesFrom(text, size, overlap, position, parts) ==
  IF position = Len(text) THEN <<>>
  ELSE SliceOf(text, size, position)
       \o (IF EndOf(text, size, position) = Len(text) THEN <<>>
           ELSE parts[NextOf(text, size, overlap, position)])

\* A slice says what is between its ends.
LEMMA SliceSays ==
  ASSUME NEW text \in Seq(Characters), NEW size \in Nat \ {0}, NEW position \in 0..(Len(text) - 1)
  PROVE  LET end == EndOf(text, size, position)
             slice == SliceOf(text, size, position)
         IN /\ slice \in Seq(Texts)
            /\ Shown(slice) = {text[i] : i \in {i \in (position + 1)..end : text[i] > 0}}
            /\ \A k \in DOMAIN slice : Len(slice[k]) <= size
<1> DEFINE end == EndOf(text, size, position)
           cut == SubSeq(text, position + 1, end)
           slice == SliceOf(text, size, position)
<1>1. end \in (position + 1)..Len(text) /\ end - position <= size /\ position \in Nat
  BY EndBounds
<1> HIDE DEF end
<1>2. position + 1 \in 1..(Len(text) + 1) /\ end \in 0..Len(text)
  BY <1>1
<1>3. /\ cut \in Seq(Characters)
      /\ Ink(cut) = {text[i] : i \in {i \in (position + 1)..end : text[i] > 0}}
      /\ Len(cut) = IF position + 1 <= end THEN end - (position + 1) + 1 ELSE 0
  BY <1>2, InkOfSub
<1>4. Len(cut) <= size
  BY <1>1, <1>3
<1>5. slice = IF IsBlank(cut) THEN <<>> ELSE <<cut>>
  BY DEF SliceOf, Cut, end
<1> HIDE DEF cut, slice
<1>6. CASE IsBlank(cut)
  <2>1. cut \notin Texts
    BY <1>6 DEF Texts
  <2>2. Ink(cut) = {}
    BY <1>3, <2>1, TextsSay
  <2>3. slice = <<>> /\ Shown(<<>>) = {} /\ <<>> \in Seq(Texts) /\ DOMAIN <<>> = {}
    BY <1>5, <1>6 DEF Shown
  <2> QED
    BY <1>3, <2>2, <2>3 DEF slice, end
<1>7. CASE ~IsBlank(cut)
  <2>1. cut \in Texts
    BY <1>3, <1>7 DEF Texts
  <2>2. slice = <<cut>> /\ DOMAIN slice = {1} /\ slice[1] = cut
    BY <1>5, <1>7
  <2>3. slice \in Seq(Texts) /\ Shown(slice) = Ink(cut)
    BY <2>1, <2>2, ShownOne
  <2> QED
    BY <1>3, <1>4, <2>2, <2>3 DEF slice, end
<1> QED
  BY <1>6, <1>7

\* A slice and those after the next start say all that remains.
LEMMA SlicesGrow ==
  ASSUME NEW text \in Seq(Characters), NEW size \in Nat \ {0}, NEW overlap \in Nat, NEW parts,
         NEW position \in 0..Len(text),
         \A q \in (position + 1)..Len(text) : Slices(text, size, q, parts[q])
  PROVE  Slices(text, size, position, SlicesFrom(text, size, overlap, position, parts))
<1> DEFINE n == Len(text)
           new == SlicesFrom(text, size, overlap, position, parts)
<1>1. CASE position = n
  <2>1. new = <<>>
    BY <1>1 DEF SlicesFrom
  <2>2. Remains(text, position) = {}
    BY <1>1 DEF Remains
  <2>3. Shown(<<>>) = {} /\ <<>> \in Seq(Texts) /\ DOMAIN <<>> = {}
    BY DEF Shown
  <2> QED
    BY <2>1, <2>2, <2>3 DEF Slices
<1>2. CASE position # n
  <2> DEFINE end == EndOf(text, size, position)
             next == NextOf(text, size, overlap, position)
             slice == SliceOf(text, size, position)
             rest == IF end = n THEN <<>> ELSE parts[next]
  <2>1. position \in 0..(n - 1) /\ n \in Nat
    BY <1>2
  <2>2. end \in (position + 1)..n
    BY <2>1, EndBounds
  <2>3. /\ next \in (position + 1)..n
        /\ \A i \in end..(next - 1) : ~(text[i + 1] > 0)
    BY <2>1, NextBounds
  <2>4. /\ slice \in Seq(Texts)
        /\ Shown(slice) = {text[i] : i \in {i \in (position + 1)..end : text[i] > 0}}
        /\ \A k \in DOMAIN slice : Len(slice[k]) <= size
    BY <2>1, SliceSays
  <2>5. new = slice \o rest
    BY <1>2 DEF SlicesFrom
  <2> HIDE DEF end, next, slice, n, new
  <2>6. /\ rest \in Seq(Texts)
        /\ \A k \in DOMAIN rest : Len(rest[k]) <= size
        /\ Shown(rest) = IF end = n THEN {} ELSE Remains(text, next)
    <3>1. CASE end = n
      <4>1. rest = <<>> /\ Shown(<<>>) = {} /\ <<>> \in Seq(Texts) /\ DOMAIN <<>> = {}
        BY <3>1 DEF Shown
      <4> QED
        BY <3>1, <4>1
    <3>2. CASE end # n
      <4>1. Slices(text, size, next, parts[next])
        BY <2>3 DEF n
      <4> QED
        BY <3>2, <4>1 DEF Slices
    <3> QED
      BY <3>1, <3>2
  <2>7. Shown(slice) \cup Shown(rest) = Remains(text, position)
    <3>1. CASE end = n
      BY <2>4, <2>6, <3>1 DEF Remains, n
    <3>2. CASE end # n
      <4>1. \A i \in (position + 1)..n : text[i] > 0 => i \in (position + 1)..end \/ i \in (next + 1)..n
        <5> SUFFICES ASSUME NEW i \in (position + 1)..n, text[i] > 0, i \notin (position + 1)..end,
                            i \notin (next + 1)..n
                     PROVE FALSE
          OBVIOUS
        <5>1. i - 1 \in end..(next - 1) /\ (i - 1) + 1 = i
          BY <2>1, <2>2, <2>3
        <5> QED
          BY <2>3, <5>1
      <4>2. (position + 1)..end \subseteq (position + 1)..n /\ (next + 1)..n \subseteq (position + 1)..n
        BY <2>1, <2>2, <2>3
      <4>3. Shown(rest) = {text[i] : i \in {i \in (next + 1)..n : text[i] > 0}}
        BY <2>6, <3>2 DEF Remains, n
      <4>4. Remains(text, position) = {text[i] : i \in {i \in (position + 1)..n : text[i] > 0}}
        BY DEF Remains, n
      <4> QED
        BY <2>4, <4>1, <4>2, <4>3, <4>4
    <3> QED
      BY <3>1, <3>2
  <2> HIDE DEF rest
  <2>8. new \in Seq(Texts) /\ Shown(new) = Remains(text, position)
    BY <2>4, <2>5, <2>6, <2>7, ShownConcat
  <2>9. \A k \in DOMAIN new : (k \in DOMAIN slice /\ new[k] = slice[k])
                              \/ (k - Len(slice) \in DOMAIN rest /\ new[k] = rest[k - Len(slice)])
    BY <2>4, <2>5, <2>6
  <2>10. \A k \in DOMAIN new : Len(new[k]) <= size
    BY <2>4, <2>6, <2>9
  <2> QED
    BY <2>8, <2>10 DEF Slices, new
<1> QED
  BY <1>1, <1>2

\* A table of the slices from m on.
Table(text, size, overlap, m, x) ==
  /\ x = [p \in m..Len(text) |-> x[p]]
  /\ \A p \in m..Len(text) :
       /\ x[p] = SlicesFrom(text, size, overlap, p, x)
       /\ Slices(text, size, p, x[p])

\* Only what comes later in the table matters.
LEMMA SlicesLater ==
  ASSUME NEW text \in Seq(Characters), NEW size \in Nat \ {0}, NEW overlap \in Nat,
         NEW position \in 0..Len(text), NEW x, NEW y,
         \A q \in (position + 1)..Len(text) : x[q] = y[q]
  PROVE  SlicesFrom(text, size, overlap, position, x) = SlicesFrom(text, size, overlap, position, y)
<1>1. CASE position = Len(text)
  BY <1>1 DEF SlicesFrom
<1>2. CASE position # Len(text)
  <2>1. position \in 0..(Len(text) - 1)
    BY <1>2
  <2>2. NextOf(text, size, overlap, position) \in (position + 1)..Len(text)
    BY <2>1, NextBounds
  <2>3. x[NextOf(text, size, overlap, position)] = y[NextOf(text, size, overlap, position)]
    BY <2>2
  <2> QED
    BY <1>2, <2>3 DEF SlicesFrom
<1> QED
  BY <1>1, <1>2

\* A table from m on gives one from m - 1 on.
LEMMA TableGrows ==
  ASSUME NEW text \in Seq(Characters), NEW size \in Nat \ {0}, NEW overlap \in Nat,
         NEW m \in 1..Len(text), NEW x, Table(text, size, overlap, m, x)
  PROVE  \E y : Table(text, size, overlap, m - 1, y)
<1> DEFINE n == Len(text)
           first == SlicesFrom(text, size, overlap, m - 1, x)
           y == [p \in (m - 1)..n |-> IF p = m - 1 THEN first ELSE x[p]]
<1>1. n \in Nat /\ m \in 1..n /\ m - 1 \in 0..n /\ (m - 1) + 1 = m
  OBVIOUS
<1>2. Slices(text, size, m - 1, first)
  <2>1. \A q \in ((m - 1) + 1)..Len(text) : Slices(text, size, q, x[q])
    BY <1>1 DEF Table
  <2> QED
    BY <1>1, <2>1, SlicesGrow
<1>3. y[m - 1] = first
  BY <1>1
<1>4. \A p \in m..n : y[p] = x[p] /\ p \in (m - 1)..n
  BY <1>1
<1>5. y = [p \in (m - 1)..n |-> y[p]]
  OBVIOUS
<1>6. \A p \in (m - 1)..n : p = m - 1 \/ p \in m..n
  BY <1>1
<1> HIDE DEF y
<1>7. first = SlicesFrom(text, size, overlap, m - 1, y)
  <2>1. \A q \in ((m - 1) + 1)..Len(text) : x[q] = y[q]
    BY <1>1, <1>4
  <2> QED
    BY <1>1, <2>1, SlicesLater
<1>8. ASSUME NEW p \in m..n PROVE y[p] = SlicesFrom(text, size, overlap, p, y)
  <2>1. p \in 0..Len(text) /\ \A q \in (p + 1)..Len(text) : q \in m..n
    BY <1>1
  <2>2. \A q \in (p + 1)..Len(text) : x[q] = y[q]
    BY <1>4, <2>1
  <2>3. SlicesFrom(text, size, overlap, p, x) = SlicesFrom(text, size, overlap, p, y)
    BY <2>1, <2>2, SlicesLater
  <2> QED
    BY <1>4, <2>3 DEF Table
<1>9. \A p \in m..n : Slices(text, size, p, y[p])
  BY <1>4 DEF Table
<1> HIDE DEF first
<1>10. Table(text, size, overlap, m - 1, y)
  BY <1>2, <1>3, <1>5, <1>6, <1>7, <1>8, <1>9 DEF Table
<1> QED
  BY <1>10

\* The table the recursive function is.
SliceTable(text, size, overlap) ==
  CHOOSE x : x = [p \in 0..Len(text) |-> SlicesFrom(text, size, overlap, p, x)]

\* It exists, and all its entries are right.
LEMMA SlicesExist ==
  ASSUME NEW text \in Seq(Characters), NEW size \in Nat \ {0}, NEW overlap \in Nat
  PROVE  \E x : x = [p \in 0..Len(text) |-> SlicesFrom(text, size, overlap, p, x)]
<1> DEFINE n == Len(text)
           S == {m \in 0..n : \E x : Table(text, size, overlap, m, x)}
<1>1. n \in Nat /\ S \in SUBSET Nat
  OBVIOUS
<1>2. n \in S
  <2> DEFINE x == [p \in n..n |-> SlicesFrom(text, size, overlap, n, <<>>)]
  <2>1. DOMAIN x = {n} /\ x[n] = SlicesFrom(text, size, overlap, n, <<>>) /\ \A p \in n..n : p = n
    BY <1>1
  <2>2. x = [p \in n..n |-> x[p]]
    OBVIOUS
  <2>3. n \in 0..Len(text) /\ \A q \in (n + 1)..Len(text) : FALSE
    BY <1>1
  <2> HIDE DEF x
  <2>4. x[n] = SlicesFrom(text, size, overlap, n, x)
    <3> DEFINE none == <<>>
    <3>1. \A q \in (n + 1)..Len(text) : none[q] = x[q]
      BY <2>3
    <3> HIDE DEF none
    <3>2. SlicesFrom(text, size, overlap, n, none) = SlicesFrom(text, size, overlap, n, x)
      BY <2>3, <3>1, SlicesLater
    <3> QED
      BY <2>1, <3>2 DEF none
  <2>5. Slices(text, size, n, x[n])
    BY <2>3, <2>4, SlicesGrow
  <2>6. Table(text, size, overlap, n, x)
    BY <2>1, <2>2, <2>4, <2>5 DEF Table
  <2> QED
    BY <1>1, <2>6
<1>3. Min(S) \in S /\ \A k \in S : Min(S) <= k
  <2> HIDE DEF S
  <2> QED
    BY <1>1, <1>2, LeastNumber
<1> DEFINE m == Min(S)
<1> HIDE DEF m
<1>4. m \in 0..n /\ \E x : Table(text, size, overlap, m, x)
  BY <1>3 DEF m
<1>5. m = 0
  <2> SUFFICES ASSUME m # 0 PROVE FALSE
    OBVIOUS
  <2>1. m \in 1..Len(text) /\ m - 1 \in 0..n /\ ~(m <= m - 1)
    BY <1>1, <1>4
  <2>2. \E y : Table(text, size, overlap, m - 1, y)
    BY <1>4, <2>1, TableGrows
  <2>3. m - 1 \in S
    BY <2>1, <2>2
  <2> QED
    BY <1>3, <2>1, <2>3 DEF m
<1>6. PICK x : Table(text, size, overlap, 0, x)
  BY <1>4, <1>5
<1>7. x = [p \in 0..n |-> x[p]] /\ \A p \in 0..n : x[p] = SlicesFrom(text, size, overlap, p, x)
  BY <1>6 DEF Table
<1>8. x = [p \in 0..n |-> SlicesFrom(text, size, overlap, p, x)]
  BY <1>7, Zenon
<1> QED
  BY <1>8

\* The slices keep what a text says, within the budget.
LEMMA SlicesOfText ==
  ASSUME NEW text \in Seq(Characters), NEW size \in Nat \ {0}, NEW overlap \in Nat
  PROVE  LET parts == SplitByChars(text, size, overlap)
         IN /\ parts \in Seq(Texts) /\ Shown(parts) = Ink(text)
            /\ \A k \in DOMAIN parts : Len(parts[k]) <= size
<1> DEFINE n == Len(text)
           x == SliceTable(text, size, overlap)
           parts == SplitByChars(text, size, overlap)
<1>1. n \in Nat /\ DOMAIN text = 1..n
  OBVIOUS
<1>2. parts = IF n <= size THEN (IF IsBlank(text) THEN <<>> ELSE <<text>>) ELSE x[0]
  BY Zenon DEF SplitByChars, SliceTable, SlicesFrom, SliceOf, NextOf, StartOf, EndOf, Spaces
<1>3. x = [p \in 0..n |-> SlicesFrom(text, size, overlap, p, x)]
  BY SlicesExist, Zenon DEF SliceTable
<1> HIDE DEF x, parts
<1>4. CASE n <= size /\ IsBlank(text)
  <2>1. Ink(text) = {}
    BY <1>4, TextsSay DEF Texts
  <2>2. parts = <<>> /\ Shown(<<>>) = {} /\ <<>> \in Seq(Texts) /\ DOMAIN <<>> = {}
    BY <1>2, <1>4 DEF Shown
  <2> QED
    BY <2>1, <2>2 DEF parts
<1>5. CASE n <= size /\ ~IsBlank(text)
  <2>1. text \in Texts
    BY <1>5 DEF Texts
  <2>2. parts = <<text>> /\ DOMAIN parts = {1} /\ parts[1] = text
    BY <1>2, <1>5
  <2>3. parts \in Seq(Texts) /\ Shown(parts) = Ink(text)
    BY <2>1, <2>2, ShownOne
  <2> QED
    BY <1>5, <2>2, <2>3 DEF parts
<1>6. CASE ~(n <= size)
  <2> DEFINE S == {p \in 0..n : ~Slices(text, size, p, x[p])}
  <2>1. S = {}
    <3> SUFFICES ASSUME S # {} PROVE FALSE
      OBVIOUS
    <3>1. S \in SUBSET (0..n)
      OBVIOUS
    <3>2. Max(S) \in S /\ \A k \in S : Max(S) >= k
      <4> HIDE DEF S
      <4> QED
        BY <1>1, <3>1, GreatestNumber
    <3> DEFINE m == Max(S)
    <3> HIDE DEF m
    <3>3. m \in 0..n /\ ~Slices(text, size, m, x[m])
      BY <3>2 DEF m
    <3>4. ASSUME NEW q \in (m + 1)..n PROVE Slices(text, size, q, x[q])
      <4>1. q \in 0..n /\ ~(m >= q)
        BY <1>1, <3>3
      <4>2. q \notin S
        BY <3>2, <4>1 DEF m
      <4> QED
        BY <4>1, <4>2
    <3>5. Slices(text, size, m, SlicesFrom(text, size, overlap, m, x))
      BY <3>3, <3>4, SlicesGrow
    <3> QED
      BY <1>3, <3>3, <3>5
  <2>2. Slices(text, size, 0, x[0])
    BY <1>1, <2>1
  <2>3. Remains(text, 0) = Ink(text)
    BY <1>1 DEF Remains, Ink
  <2>4. parts = x[0]
    BY <1>2, <1>6
  <2> QED
    BY <2>2, <2>3, <2>4 DEF Slices, parts
<1> QED
  BY <1>4, <1>5, <1>6

-----------------------------------------------------------------------------
(***************************************************************************)
(* Sequences put together.                                                 *)
(***************************************************************************)
LEMMA Flattens ==
  ASSUME NEW seqs, NEW n \in Nat \ {0}, Len(seqs) = n, NEW Inv, seqs[1] \in Inv[1],
         \A i \in 2..n : \A x \in Inv[i - 1] : x \o seqs[i] \in Inv[i]
  PROVE  FlattenSeq(seqs) \in Inv[n]
<1> DEFINE m == n - 1
           Values == UNION {Inv[i] : i \in 1..n}
           Later == [j \in 0..m |-> Inv[j + 1]]
           step == [p \in (1..m) \X Values |-> p[2] \o seqs[p[1] + 1]]
           Follows(f) == f = [i \in 1..n |-> IF i = 1 THEN seqs[i] ELSE f[i - 1] \o seqs[i]]
           flatten == CHOOSE f : Follows(f)
<1>1. m \in Nat /\ n = m + 1
  OBVIOUS
<1>2. FlattenSeq(seqs) = flatten[n]
  <2>1. n # 0
    OBVIOUS
  <2> QED
    BY <2>1, Zenon DEF FlattenSeq
<1> HIDE DEF m
<1>3. \A j \in 0..m : Later[j] = Inv[j + 1] /\ j + 1 \in 1..n
  BY <1>1
<1>4. ASSUME NEW j \in 1..m, NEW x \in Later[j - 1]
      PROVE  step[<<j, x>>] = x \o seqs[j + 1] /\ x \o seqs[j + 1] \in Later[j]
  <2>1. j - 1 \in 0..m /\ j \in 0..m /\ (j - 1) + 1 = j /\ j \in 1..n /\ j + 1 \in 2..n /\ (j + 1) - 1 = j
    BY <1>1
  <2>2. x \in Inv[j]
    BY <1>3, <2>1
  <2>3. x \in Values
    BY <2>1, <2>2
  <2>4. x \o seqs[j + 1] \in Inv[j + 1]
    BY <2>1, <2>2
  <2> HIDE DEF Values, Later
  <2> QED
    BY <1>3, <2>1, <2>3, <2>4
<1>5. seqs[1] \in Later[0]
  BY <1>1
<1> HIDE DEF Later, step
<1>6. PICK f : Iterates(f, step, seqs[1], Later, m)
  <2>1. Keeps(step, Later, m)
    BY <1>4 DEF Keeps
  <2> QED
    BY <1>1, <1>5, <2>1, Recursion
<1> DEFINE g == [i \in 1..n |-> f[i - 1]]
<1>7. Follows(g)
  <2>1. g = [i \in 1..n |-> g[i]]
    OBVIOUS
  <2>2. ASSUME NEW i \in 1..n PROVE g[i] = IF i = 1 THEN seqs[i] ELSE g[i - 1] \o seqs[i]
    <3>1. CASE i = 1
      BY <1>6, <3>1 DEF Iterates
    <3>2. CASE i # 1
      <4>1. i - 1 \in 1..m /\ i - 1 \in 1..n /\ (i - 1) + 1 = i /\ (i - 1) - 1 \in 0..m
        BY <1>1, <3>2
      <4>2. g[i] = f[i - 1] /\ g[i - 1] = f[(i - 1) - 1]
        BY <4>1
      <4>3. f[i - 1] = step[<<i - 1, f[(i - 1) - 1]>>] /\ f[(i - 1) - 1] \in Later[(i - 1) - 1]
        BY <1>6, <4>1 DEF Iterates
      <4> QED
        BY <1>4, <3>2, <4>1, <4>2, <4>3
    <3> QED
      BY <3>1, <3>2
  <2> HIDE DEF g
  <2> QED
    BY <2>1, <2>2, Zenon
<1>8. Follows(flatten)
  BY <1>7, Zenon
<1> HIDE DEF flatten, g
<1>9. \A j \in 0..m : flatten[j + 1] \in Later[j]
  <2> DEFINE h == [j \in 0..m |-> flatten[j + 1]]
  <2>1. h[0] \in Later[0]
    BY <1>1, <1>5, <1>8
  <2>2. ASSUME NEW j \in 1..m, h[j - 1] \in Later[j - 1] PROVE h[j] \in Later[j]
    <3>1. j \in 0..m /\ j - 1 \in 0..m /\ (j - 1) + 1 = j /\ j + 1 \in 1..n /\ j + 1 # 1 /\ (j + 1) - 1 = j
      BY <1>1
    <3>2. h[j] = flatten[j + 1] /\ h[j - 1] = flatten[j]
      BY <3>1
    <3>3. flatten[j + 1] = flatten[j] \o seqs[j + 1]
      BY <1>8, <3>1
    <3> QED
      BY <1>4, <2>2, <3>2, <3>3
  <2>3. \A j \in 0..m : h[j] = flatten[j + 1]
    OBVIOUS
  <2> HIDE DEF h
  <2>4. \A j \in 0..m : h[j] \in Later[j]
    BY <1>1, <2>1, <2>2, Induct
  <2> QED
    BY <2>3, <2>4
<1>10. m \in 0..m
  BY <1>1
<1> QED
  BY <1>1, <1>2, <1>3, <1>9, <1>10

\* Parts of several texts: they say what all of them say, and each is one of them.
LEMMA FlattenShows ==
  ASSUME NEW seqs \in Seq(Seq(Texts))
  PROVE  LET all == FlattenSeq(seqs)
         IN /\ all \in Seq(Texts)
            /\ Shown(all) = UNION {Shown(seqs[i]) : i \in DOMAIN seqs}
            /\ \A k \in DOMAIN all : \E i \in DOMAIN seqs : \E j \in DOMAIN seqs[i] : all[k] = seqs[i][j]
<1> DEFINE n == Len(seqs)
           all == FlattenSeq(seqs)
           Shows(i) == UNION {Shown(seqs[j]) : j \in 1..i}
           Among(x, i) == \A k \in DOMAIN x : \E j \in 1..i : \E l \in DOMAIN seqs[j] : x[k] = seqs[j][l]
           Inv == [i \in 1..n |-> {x \in Seq(Texts) : Shown(x) = Shows(i) /\ Among(x, i)}]
<1>1. n \in Nat /\ DOMAIN seqs = 1..n
  OBVIOUS
<1>2. CASE n = 0
  <2>1. all = seqs
    BY <1>2, Zenon DEF FlattenSeq
  <2>2. DOMAIN seqs = {} /\ seqs = <<>>
    BY <1>1, <1>2
  <2>3. all = <<>> /\ DOMAIN all = {} /\ all \in Seq(Texts)
    BY <2>1, <2>2
  <2>4. Shown(all) = {} /\ UNION {Shown(seqs[i]) : i \in DOMAIN seqs} = {}
    BY <2>2, <2>3 DEF Shown
  <2> QED
    BY <2>3, <2>4
<1>3. CASE n # 0
  <2>1. n \in Nat \ {0}
    BY <1>1, <1>3
  <2>2. seqs[1] \in Inv[1]
    <3>1. 1 \in 1..n /\ seqs[1] \in Seq(Texts)
      BY <1>1, <1>3
    <3>2. 1..1 = {1}
      OBVIOUS
    <3>3. Shown(seqs[1]) = Shows(1) /\ Among(seqs[1], 1)
      BY <3>2
    <3> HIDE DEF Shows, Among
    <3> QED
      BY <3>1, <3>3
  <2>3. ASSUME NEW i \in 2..n, NEW x \in Inv[i - 1] PROVE x \o seqs[i] \in Inv[i]
    <3>1. i \in 1..n /\ i - 1 \in 1..n /\ seqs[i] \in Seq(Texts) /\ 1..i = (1..(i - 1)) \cup {i}
      BY <1>1
    <3>2. x \in Seq(Texts) /\ Shown(x) = Shows(i - 1) /\ Among(x, i - 1)
      <4> HIDE DEF Shows, Among
      <4> QED
        BY <3>1
    <3> DEFINE y == x \o seqs[i]
    <3>3. y \in Seq(Texts) /\ Shown(y) = Shown(x) \cup Shown(seqs[i])
      BY <3>1, <3>2, ShownConcat
    <3>4. Shows(i) = Shows(i - 1) \cup Shown(seqs[i])
      BY <3>1
    <3>5. \A k \in DOMAIN y : (k \in DOMAIN x /\ y[k] = x[k])
                              \/ (k - Len(x) \in DOMAIN seqs[i] /\ y[k] = seqs[i][k - Len(x)])
      BY <3>1, <3>2
    <3> HIDE DEF y
    <3>6. Among(y, i)
      <4> SUFFICES ASSUME NEW k \in DOMAIN y
                   PROVE  \E j \in 1..i : \E l \in DOMAIN seqs[j] : y[k] = seqs[j][l]
        OBVIOUS
      <4>1. CASE k \in DOMAIN x /\ y[k] = x[k]
        <5>1. PICK j \in 1..(i - 1) : \E l \in DOMAIN seqs[j] : x[k] = seqs[j][l]
          BY <3>2, <4>1
        <5> QED
          BY <3>1, <4>1, <5>1
      <4>2. CASE k - Len(x) \in DOMAIN seqs[i] /\ y[k] = seqs[i][k - Len(x)]
        <5>1. i \in 1..i
          BY <3>1
        <5> QED
          BY <4>2, <5>1
      <4> QED
        BY <3>5, <4>1, <4>2
    <3> HIDE DEF Shows, Among
    <3>7. y \in Inv[i]
      BY <3>1, <3>2, <3>3, <3>4, <3>6
    <3> QED
      BY <3>7 DEF y
  <2> HIDE DEF Inv
  <2>4. all \in Inv[n]
    <3> HIDE DEF n, all
    <3>1. Len(seqs) = n
      BY DEF n
    <3>2. FlattenSeq(seqs) \in Inv[n]
      BY <2>1, <2>2, <2>3, <3>1, Flattens
    <3> QED
      BY <3>2 DEF all
  <2>5. all \in Seq(Texts) /\ Shown(all) = Shows(n) /\ Among(all, n)
    <3> HIDE DEF Shows, Among, n, all
    <3>1. n \in 1..n
      BY <2>1
    <3> QED
      BY <2>4, <3>1 DEF Inv
  <2> HIDE DEF n, all
  <2> QED
    BY <1>1, <2>5 DEF all
<1> QED
  BY <1>2, <1>3

\* The sections and strategies of TransformAssumption.
Sections == [heading : {<<>>} \cup Texts, paragraphs : Seq(Texts)]
Strategies == [name : {"auto", "size", "sections"}, size : Nat \ {0}, overlap : Nat]

\* The text of a section says what its paragraphs say.
LEMMA TextOfSection ==
  ASSUME NEW section \in Sections
  PROVE  /\ SectionText(section) \in Seq(Texts)
         /\ SectionText(section) # <<>> => Ink(section.heading) \subseteq Shown(SectionText(section))
<1> DEFINE h == section.heading
           p == section.paragraphs
           text == SectionText(section)
<1>1. (h = <<>> \/ h \in Texts) /\ p \in Seq(Texts)
  BY DEF Sections
<1>2. text = IF p = <<>> THEN <<>> ELSE IF h = <<>> THEN p ELSE <<h>> \o p
  BY DEF SectionText
<1> HIDE DEF h, p, text
<1>3. CASE p = <<>>
  BY <1>2, <1>3 DEF text
<1>4. CASE p # <<>> /\ h = <<>>
  BY <1>1, <1>2, <1>4, NoInk DEF text, h
<1>5. CASE p # <<>> /\ h # <<>>
  <2>1. <<h>> \in Seq(Texts) /\ Shown(<<h>>) = Ink(h)
    BY <1>1, <1>5, ShownOne
  <2>2. <<h>> \o p \in Seq(Texts) /\ Shown(<<h>> \o p) = Shown(<<h>>) \cup Shown(p)
    BY <1>1, <2>1, ShownConcat
  <2> QED
    BY <1>2, <1>5, <2>1, <2>2 DEF text, h
<1> QED
  BY <1>3, <1>4, <1>5

\* What follows an opening is within the budget, or is one word.
Moderate(chunk, opening, s) ==
  LET rest == SubSeq(chunk, Len(opening) + 1, Len(chunk))
  IN /\ IsPrefix(opening, chunk)
     /\ Len(rest) <= s.size + Spare(s) \/ Len(WordsOf(rest)) = 1

\* A short rest after an opening is moderate.
LEMMA ModerateAfter ==
  ASSUME NEW opening \in Seq(Characters), NEW part \in Texts, NEW s,
         Len(part) <= s.size + Spare(s) \/ part \in Word
  PROVE  Moderate(opening \o part, opening, s)
<1> DEFINE chunk == opening \o part
           rest == SubSeq(chunk, Len(opening) + 1, Len(chunk))
<1>1. part \in Seq(Characters) /\ Len(part) \in Nat /\ Len(opening) \in Nat
  BY DEF Texts
<1>2. chunk \in Seq(Characters) /\ Len(chunk) = Len(opening) + Len(part)
  BY <1>1
<1>3. rest = part
  <2>1. rest \in Seq(Characters) /\ Len(rest) = Len(part)
    BY <1>1, <1>2
  <2>2. ASSUME NEW i \in 1..Len(part) PROVE rest[i] = part[i]
    <3>1. rest[i] = chunk[Len(opening) + i]
      BY <1>1, <1>2
    <3> QED
      BY <1>1, <3>1
  <2> HIDE DEF rest
  <2> QED
    BY <1>1, <2>1, <2>2
<1>4. IsPrefix(opening, chunk)
  <2> DEFINE front == SubSeq(chunk, 1, Len(opening))
  <2>1. SubSeq(opening, 1, Len(opening)) = opening
    BY <1>1
  <2>2. front \in Seq(Characters) /\ Len(front) = Len(opening)
    BY <1>1, <1>2
  <2>3. \A i \in 1..Len(opening) : front[i] = opening[i]
    BY <1>1, <1>2
  <2>4. Len(opening) <= Len(chunk)
    BY <1>1, <1>2
  <2>5. front = opening
    <3> HIDE DEF front, chunk
    <3> QED
      BY <2>2, <2>3
  <2> QED
    BY <2>1, <2>4, <2>5, Zenon DEF IsPrefix
<1>5. Len(rest) <= s.size + Spare(s) \/ Len(WordsOf(rest)) = 1
  BY <1>1, <1>3, WordsOfText
<1> HIDE DEF chunk
<1> QED
  BY <1>4, <1>5 DEF Moderate, chunk

\* So is a short chunk without one.
LEMMA ModerateWhole ==
  ASSUME NEW part \in Texts, NEW s, Len(part) <= s.size + Spare(s) \/ part \in Word
  PROVE  Moderate(part, <<>>, s)
<1>1. <<>> \o part = part
  BY DEF Texts
<1> QED
  BY <1>1, NoInk, ModerateAfter

\* What the chunks of a section have to be.
Chunked(section, s, parts) ==
  /\ parts \in Seq(Texts)
  /\ Shown(parts) = Shown(SectionText(section))
  /\ s.overlap > 0 => \A k \in DOMAIN parts :
       \E opening \in {<<>>} \cup (IF s.name = "sections" THEN {section.heading \o Break} ELSE {}) :
         Moderate(parts[k], opening, s)

\* The overlap is less than the budget.
LEMMA CappedOverlap ==
  ASSUME NEW a \in Nat, NEW b \in Nat
  PROVE  Min({a, b}) \in Nat /\ Min({a, b}) <= a /\ (a > 0 /\ b > 0 => Min({a, b}) > 0)
<1>1. Min({a, b}) = IF a < b THEN a ELSE b
  BY MinOfTwo
<1> QED
  BY <1>1

\* The size strategy.
LEMMA SizeChunked ==
  ASSUME NEW section \in Sections, NEW s \in Strategies, s.name = "size"
  PROVE  Chunked(section, s, SizeChunks(section, s))
<1> DEFINE paragraphs == SectionText(section)
           text == Joined(paragraphs)
           overlap == Min({s.overlap, s.size \div 2})
           parts == SplitByChars(text, s.size, overlap)
<1>1. s.size \in Nat \ {0} /\ s.overlap \in Nat /\ s.size \div 2 \in Nat
  BY DEF Strategies
<1>2. overlap \in Nat
  BY <1>1, CappedOverlap
<1>3. paragraphs \in Seq(Texts)
  BY TextOfSection
<1> HIDE DEF paragraphs, overlap
<1>4. text \in Seq(Characters) /\ Ink(text) = Shown(paragraphs)
  BY <1>3, JoinedParagraphs
<1> HIDE DEF text
<1>5. /\ parts \in Seq(Texts) /\ Shown(parts) = Ink(text)
      /\ \A k \in DOMAIN parts : Len(parts[k]) <= s.size
  BY <1>1, <1>2, <1>4, SlicesOfText
<1> HIDE DEF parts
<1>6. ASSUME NEW k \in DOMAIN parts PROVE Moderate(parts[k], <<>>, s)
  <2>1. parts[k] \in Texts /\ Len(parts[k]) <= s.size + Spare(s)
    <3>1. Spare(s) = 0
      BY DEF Spare
    <3> QED
      BY <1>1, <1>5, <3>1
  <2> QED
    BY <2>1, ModerateWhole
<1>7. SizeChunks(section, s) = parts
  BY DEF SizeChunks, parts, text, paragraphs, overlap
<1> QED
  BY <1>4, <1>5, <1>6, <1>7 DEF Chunked, paragraphs

\* The parts of SplitText, under both strategies that use it.
LEMMA PartsOfSection ==
  ASSUME NEW section \in Sections, NEW s \in Strategies, s.name # "size"
  PROVE  LET parts == SplitText(SectionText(section), s.size, Min({s.overlap, s.size}))
         IN /\ parts \in Seq(Texts) /\ Shown(parts) = Shown(SectionText(section))
            /\ s.overlap > 0 =>
                 \A k \in DOMAIN parts : Len(parts[k]) <= s.size + Spare(s) \/ parts[k] \in Word
<1> DEFINE overlap == Min({s.overlap, s.size})
           paragraphs == SectionText(section)
           parts == SplitText(paragraphs, s.size, overlap)
<1>1. s.size \in Nat /\ s.size > 0 /\ s.overlap \in Nat /\ Spare(s) = s.overlap + 2
  BY DEF Strategies, Spare
<1>2. overlap \in Nat /\ overlap <= s.overlap /\ (s.overlap > 0 => overlap > 0)
  BY <1>1, CappedOverlap
<1>3. paragraphs \in Seq(Texts)
  BY TextOfSection
<1> HIDE DEF overlap, paragraphs
<1>4. /\ parts \in Seq(Texts) /\ Shown(parts) = Shown(paragraphs)
      /\ \A k \in DOMAIN parts : Slack(parts[k], s.size, overlap)
  BY <1>1, <1>2, <1>3, Splits
<1> HIDE DEF parts
<1>5. ASSUME s.overlap > 0, NEW k \in DOMAIN parts
      PROVE  Len(parts[k]) <= s.size + Spare(s) \/ parts[k] \in Word
  <2>1. Len(parts[k]) \in Nat
    BY <1>4 DEF Texts
  <2>2. (overlap > 0 => Len(parts[k]) <= s.size + overlap + 2) \/ parts[k] \in Word
    BY <1>4 DEF Slack
  <2> QED
    BY <1>1, <1>2, <1>5, <2>1, <2>2
<1> QED
  BY <1>4, <1>5 DEF parts, paragraphs, overlap

\* The auto strategy.
LEMMA AutoChunked ==
  ASSUME NEW section \in Sections, NEW s \in Strategies, s.name = "auto"
  PROVE  Chunked(section, s, AutoChunks(section, s))
<1> DEFINE parts == AutoChunks(section, s)
<1>1. /\ parts \in Seq(Texts) /\ Shown(parts) = Shown(SectionText(section))
      /\ s.overlap > 0 => \A k \in DOMAIN parts : Len(parts[k]) <= s.size + Spare(s) \/ parts[k] \in Word
  BY PartsOfSection DEF AutoChunks
<1> HIDE DEF parts
<1>2. ASSUME s.overlap > 0, NEW k \in DOMAIN parts PROVE Moderate(parts[k], <<>>, s)
  <2>1. parts[k] \in Texts
    BY <1>1
  <2> QED
    BY <1>1, <1>2, <2>1, ModerateWhole
<1> QED
  BY <1>1, <1>2 DEF Chunked, parts

\* The sections strategy, which repeats the heading.
LEMMA SectionsChunked ==
  ASSUME NEW section \in Sections, NEW s \in Strategies, s.name = "sections"
  PROVE  Chunked(section, s, SectionsChunks(section, s))
<1> DEFINE parts == SplitText(SectionText(section), s.size, Min({s.overlap, s.size}))
           h == section.heading
           all == Continued(section, parts)
<1>1. /\ parts \in Seq(Texts) /\ Shown(parts) = Shown(SectionText(section))
      /\ s.overlap > 0 => \A k \in DOMAIN parts : Len(parts[k]) <= s.size + Spare(s) \/ parts[k] \in Word
  BY PartsOfSection
<1>2. SectionsChunks(section, s) = all
  BY DEF SectionsChunks
<1>3. h = <<>> \/ h \in Texts
  BY DEF Sections
<1> HIDE DEF parts, h
<1>4. /\ all = [i \in DOMAIN parts |-> all[i]]
      /\ \A i \in DOMAIN parts : \/ all[i] = parts[i]
                                 \/ i > 1 /\ h # <<>> /\ all[i] = h \o Break \o parts[i]
  BY DEF Continued, h
<1> HIDE DEF all
<1>5. ASSUME h # <<>>
      PROVE  h \o Break \in Seq(Characters) /\ Ink(h \o Break) = Ink(h)
  <2>1. h \in Seq(Characters)
    BY <1>3, <1>5 DEF Texts
  <2>2. h \o Break \in Seq(Characters) /\ Ink(h \o Break) = Ink(h) \cup Ink(Break)
    BY <2>1, NoInk, InkOfConcat
  <2> QED
    BY <2>2, NoInk
<1>6. ASSUME NEW i \in DOMAIN parts
      PROVE  /\ all[i] \in Texts
             /\ Ink(all[i]) = Ink(parts[i]) \/ Ink(all[i]) = Ink(parts[i]) \cup Ink(h)
             /\ s.overlap > 0 => \E opening \in {<<>>, h \o Break} : Moderate(all[i], opening, s)
  <2>1. parts[i] \in Texts /\ (s.overlap > 0 => Len(parts[i]) <= s.size + Spare(s) \/ parts[i] \in Word)
    BY <1>1
  <2>2. CASE all[i] = parts[i]
    <3>1. s.overlap > 0 => Moderate(all[i], <<>>, s)
      BY <2>1, <2>2, ModerateWhole
    <3> QED
      BY <2>1, <2>2, <3>1
  <2>3. CASE h # <<>> /\ all[i] = h \o Break \o parts[i]
    <3> DEFINE opening == h \o Break
    <3>1. opening \in Seq(Characters) /\ Ink(opening) = Ink(h) /\ all[i] = opening \o parts[i]
      BY <1>5, <2>3
    <3> HIDE DEF opening
    <3>2. all[i] \in Texts /\ Ink(all[i]) = Ink(h) \cup Ink(parts[i])
      BY <2>1, <3>1, TextsJoin
    <3>3. s.overlap > 0 => Moderate(all[i], opening, s)
      BY <2>1, <3>1, ModerateAfter
    <3> QED
      BY <3>2, <3>3 DEF opening
  <2> QED
    BY <1>4, <2>2, <2>3
<1>7. all \in Seq(Texts) /\ DOMAIN all = DOMAIN parts
  <2>1. Len(parts) \in Nat /\ DOMAIN parts = 1..Len(parts)
    BY <1>1
  <2>2. \A i \in 1..Len(parts) : all[i] \in Texts
    BY <1>6, <2>1
  <2> QED
    BY <1>4, <2>1, <2>2
<1>8. Shown(all) = Shown(parts)
  <2>1. Shown(parts) \subseteq Shown(all)
    BY <1>6, <1>7 DEF Shown
  <2>2. ASSUME NEW i \in DOMAIN parts PROVE Ink(all[i]) \subseteq Shown(parts)
    <3>1. Ink(parts[i]) \subseteq Shown(parts)
      BY DEF Shown
    <3>2. Ink(parts[i]) # {}
      BY <1>1, TextsSay DEF Texts
    <3>3. SectionText(section) # <<>>
      <4> SUFFICES ASSUME SectionText(section) = <<>> PROVE FALSE
        OBVIOUS
      <4>1. Shown(SectionText(section)) = {}
        BY DEF Shown
      <4> QED
        BY <1>1, <3>1, <3>2, <4>1
    <3>4. Ink(h) \subseteq Shown(parts)
      BY <1>1, <3>3, TextOfSection DEF h
    <3> QED
      BY <1>6, <3>1, <3>4
  <2>3. Shown(all) \subseteq Shown(parts)
    BY <1>7, <2>2 DEF Shown
  <2> QED
    BY <2>1, <2>3
<1>9. s.overlap > 0 => \A k \in DOMAIN all : \E opening \in {<<>>} \cup {h \o Break} : Moderate(all[k], opening, s)
  BY <1>6, <1>7
<1> QED
  BY <1>1, <1>2, <1>7, <1>8, <1>9 DEF Chunked, h

\* All sections of a document.
LEMMA ChunksOfDocument ==
  ASSUME NEW document \in Seq(Sections), NEW s \in Strategies
  PROVE  LET all == ChunksOf(document, s)
         IN /\ all \in Seq(Texts)
            /\ Shown(all) = UNION {Shown(SectionText(document[i])) : i \in DOMAIN document}
            /\ s.overlap > 0 => WithinBudget(all, document, s)
<1> DEFINE one(i) == CASE s.name = "size" -> SizeChunks(document[i], s)
                       [] s.name = "auto" -> AutoChunks(document[i], s)
                       [] s.name = "sections" -> SectionsChunks(document[i], s)
           each == [i \in DOMAIN document |-> one(i)]
           all == FlattenSeq(each)
<1>1. ChunksOf(document, s) = all
  BY DEF ChunksOf
<1>2. Len(document) \in Nat /\ DOMAIN document = 1..Len(document) /\ DOMAIN each = DOMAIN document
  OBVIOUS
<1>3. ASSUME NEW i \in DOMAIN document PROVE Chunked(document[i], s, each[i])
  <2>1. document[i] \in Sections /\ s.name \in {"auto", "size", "sections"}
    BY DEF Strategies
  <2>2. CASE s.name = "size"
    <3>1. each[i] = SizeChunks(document[i], s)
      BY <2>2
    <3> QED
      BY <2>1, <2>2, <3>1, SizeChunked
  <2>3. CASE s.name = "auto"
    <3>1. each[i] = AutoChunks(document[i], s)
      BY <2>3
    <3> QED
      BY <2>1, <2>3, <3>1, AutoChunked
  <2>4. CASE s.name = "sections"
    <3>1. each[i] = SectionsChunks(document[i], s)
      BY <2>4
    <3> QED
      BY <2>1, <2>4, <3>1, SectionsChunked
  <2> QED
    BY <2>1, <2>2, <2>3, <2>4
<1>4. each = [i \in 1..Len(document) |-> each[i]]
  <2>1. each = [i \in DOMAIN document |-> each[i]]
    <3> HIDE DEF one
    <3> QED
      OBVIOUS
  <2> HIDE DEF each
  <2> QED
    BY <1>2, <2>1
<1> HIDE DEF each
<1>5. each \in Seq(Seq(Texts))
  BY <1>2, <1>3, <1>4 DEF Chunked
<1>6. /\ all \in Seq(Texts)
      /\ Shown(all) = UNION {Shown(each[i]) : i \in DOMAIN each}
      /\ \A k \in DOMAIN all : \E i \in DOMAIN each : \E j \in DOMAIN each[i] : all[k] = each[i][j]
  BY <1>5, FlattenShows
<1> HIDE DEF all
<1>7. Shown(all) = UNION {Shown(SectionText(document[i])) : i \in DOMAIN document}
  BY <1>2, <1>3, <1>6 DEF Chunked
<1>8. ASSUME s.overlap > 0, NEW k \in DOMAIN all
      PROVE  \E opening \in Openings(document, s) : Moderate(all[k], opening, s)
  <2>1. PICK i \in DOMAIN document : \E j \in DOMAIN each[i] : all[k] = each[i][j]
    BY <1>2, <1>6
  <2> PICK j \in DOMAIN each[i] : all[k] = each[i][j]
    BY <2>1
  <2>2. \E opening \in {<<>>} \cup (IF s.name = "sections" THEN {document[i].heading \o Break} ELSE {}) :
           Moderate(each[i][j], opening, s)
    BY <1>3, <1>8 DEF Chunked
  <2>3. {<<>>} \cup (IF s.name = "sections" THEN {document[i].heading \o Break} ELSE {}) \subseteq Openings(document, s)
    BY DEF Openings
  <2> QED
    BY <2>1, <2>2, <2>3
<1>9. s.overlap > 0 => WithinBudget(all, document, s)
  BY <1>8 DEF WithinBudget, Moderate
<1> QED
  BY <1>1, <1>6, <1>7, <1>9

\* Unions over the same values.
LEMMA UnionsAgree ==
  ASSUME NEW S, NEW own, NEW said, NEW D, \A i \in S : own[i] \ D = said[i]
  PROVE  (UNION {own[i] : i \in S}) \ D = UNION {said[i] : i \in S}
<1>1. ASSUME NEW x \in (UNION {own[i] : i \in S}) \ D PROVE x \in UNION {said[i] : i \in S}
  <2>1. PICK i \in S : x \in own[i] \ D
    OBVIOUS
  <2>2. x \in said[i]
    BY <2>1, Zenon
  <2> QED
    BY <2>2
<1>2. ASSUME NEW x \in UNION {said[i] : i \in S} PROVE x \in (UNION {own[i] : i \in S}) \ D
  <2>1. PICK i \in S : x \in said[i]
    OBVIOUS
  <2>2. x \in own[i] \ D
    BY <2>1, Zenon
  <2> QED
    BY <2>2
<1> QED
  BY <1>1, <1>2, Zenon

\* Ink as Covers has it.
LEMMA InkIsRange ==
  ASSUME NEW parts \in Seq(Texts)
  PROVE  (UNION {Range(c) : c \in Range(parts)}) \ {Space, Newline} = Shown(parts)
<1>1. ASSUME NEW i \in DOMAIN parts PROVE Range(parts[i]) \ {Space, Newline} = Ink(parts[i])
  <2>1. parts[i] \in Seq(Characters)
    BY DEF Texts
  <2>2. \A j \in DOMAIN parts[i] : parts[i][j] \in Int /\ parts[i][j] >= Newline
    BY <2>1 DEF Characters
  <2> QED
    BY <2>2 DEF Range, Ink, Space, Newline
<1>2. Range(parts) = {parts[i] : i \in DOMAIN parts}
  BY DEF Range
<1>3. UNION {Range(c) : c \in Range(parts)} = UNION {Range(parts[i]) : i \in DOMAIN parts}
  BY <1>2
<1> DEFINE own == [i \in DOMAIN parts |-> Range(parts[i])]
           said == [i \in DOMAIN parts |-> Ink(parts[i])]
<1>4. UNION {Range(parts[i]) : i \in DOMAIN parts} = UNION {own[i] : i \in DOMAIN parts}
  BY Zenon
<1>5. Shown(parts) = UNION {said[i] : i \in DOMAIN parts}
  BY Zenon DEF Shown
<1>6. \A i \in DOMAIN parts : own[i] \ {Space, Newline} = said[i]
  BY <1>1, Zenon
<1> HIDE DEF own, said
<1>7. (UNION {own[i] : i \in DOMAIN parts}) \ {Space, Newline} = UNION {said[i] : i \in DOMAIN parts}
  <2> DEFINE S == DOMAIN parts
             D == {Space, Newline}
  <2>1. \A i \in S : own[i] \ D = said[i]
    BY <1>6
  <2> HIDE DEF S, D
  <2>2. (UNION {own[i] : i \in S}) \ D = UNION {said[i] : i \in S}
    BY <2>1, UnionsAgree
  <2> QED
    BY <2>2 DEF S, D
<1> QED
  BY <1>3, <1>4, <1>5, <1>7, Zenon

\* Whatever the strategy, Covers and WithinBudget hold of the chunks.
LEMMA DocumentCovered ==
  ASSUME NEW document \in Seq(Sections), NEW s \in Strategies
  PROVE  /\ ChunksOf(document, s) \in Seq(Texts)
         /\ Covers(ChunksOf(document, s), document)
         /\ s.overlap > 0 => WithinBudget(ChunksOf(document, s), document, s)
<1> DEFINE all == ChunksOf(document, s)
<1>1. /\ all \in Seq(Texts)
      /\ Shown(all) = UNION {Shown(SectionText(document[i])) : i \in DOMAIN document}
      /\ s.overlap > 0 => WithinBudget(all, document, s)
  BY ChunksOfDocument
<1> HIDE DEF all
<1>2. (UNION {Range(c) : c \in Range(all)}) \ {Space, Newline} = Shown(all)
  BY <1>1, InkIsRange
<1>3. \A i \in DOMAIN document :
        (UNION {Range(p) : p \in Range(SectionText(document[i]))}) \ {Space, Newline} = Shown(SectionText(document[i]))
  BY TextOfSection, InkIsRange
<1>4. Inked(document) = Shown(all)
  <2> DEFINE own == [i \in DOMAIN document |-> UNION {Range(p) : p \in Range(SectionText(document[i]))}]
             said == [i \in DOMAIN document |-> Shown(SectionText(document[i]))]
  <2>1. Inked(document) = (UNION {own[i] : i \in DOMAIN document}) \ {Space, Newline}
    BY Zenon DEF Inked
  <2>2. Shown(all) = UNION {said[i] : i \in DOMAIN document}
    BY <1>1, Zenon
  <2>3. \A i \in DOMAIN document : own[i] \ {Space, Newline} = said[i]
    BY <1>3, Zenon
  <2> HIDE DEF own, said
  <2>4. (UNION {own[i] : i \in DOMAIN document}) \ {Space, Newline} = UNION {said[i] : i \in DOMAIN document}
    <3> DEFINE S == DOMAIN document
               D == {Space, Newline}
    <3>1. \A i \in S : own[i] \ D = said[i]
      BY <2>3
    <3> HIDE DEF S, D
    <3>2. (UNION {own[i] : i \in S}) \ D = UNION {said[i] : i \in S}
      BY <3>1, UnionsAgree
    <3> QED
      BY <3>2 DEF S, D
  <2> QED
    BY <2>1, <2>2, <2>4, Zenon
<1>5. \A i \in DOMAIN all : ~IsBlank(all[i])
  BY <1>1 DEF Texts
<1> QED
  BY <1>1, <1>2, <1>4, <1>5 DEF Covers, all

-----------------------------------------------------------------------------
(***************************************************************************)
(* Numbers in order.                                                       *)
(***************************************************************************)
Increasing(s) == \A i, j \in DOMAIN s : i < j => s[i] < s[j]

\* There is an order, up to any m in 0..n.
LEMMA OrderExists ==
  ASSUME NEW n \in Nat, NEW S \in SUBSET (1..n)
  PROVE  \E s \in SetToSeqs(S) : Increasing(s)
<1> DEFINE Below(m) == {x \in S : x <= m}
           Bad == {m \in 0..n : ~\E s \in SetToSeqs(Below(m)) : Increasing(s)}
<1>0. \A x \in S : x \in Nat /\ x >= 1 /\ x <= n
  BY DEF Below
<1>1. Bad = {}
  <2> SUFFICES ASSUME Bad # {} PROVE FALSE
    OBVIOUS
  <2>1. Min(Bad) \in Bad /\ \A k \in Bad : Min(Bad) <= k
    <3>1. Bad \in SUBSET Nat
      OBVIOUS
    <3> HIDE DEF Bad
    <3> QED
      BY <3>1, LeastNumber
  <2> DEFINE m == Min(Bad)
  <2> HIDE DEF m
  <2>2. m \in 0..n /\ ~\E s \in SetToSeqs(Below(m)) : Increasing(s)
    BY <2>1 DEF m
  <2>3. CASE m = 0
    <3>1. Below(0) = {}
      <4>1. \A x \in S : ~(x <= 0)
        BY <1>0
      <4> QED
        BY <4>1
    <3>2. Cardinality({}) = 0 /\ 1..0 = {}
      BY FS_EmptySet
    <3> DEFINE s == [i \in {} |-> i]
    <3>3. s \in [{} -> {}] /\ DOMAIN s = {}
      OBVIOUS
    <3> HIDE DEF s, Below
    <3>4. s \in SetToSeqs({})
      BY <3>2, <3>3, Zenon DEF SetToSeqs
    <3>5. Increasing(s)
      BY <3>3 DEF Increasing
    <3> QED
      BY <2>2, <2>3, <3>1, <3>4, <3>5
  <2>4. CASE m # 0
    <3>1. m \in 1..n /\ m - 1 \in 0..n /\ ~(m <= m - 1)
      BY <2>2, <2>4
    <3>2. m - 1 \notin Bad
      BY <2>1, <3>1 DEF m
    <3>3. PICK s \in SetToSeqs(Below(m - 1)) : Increasing(s)
      BY <3>1, <3>2
    <3>4. CASE m \notin S
      <4>1. Below(m) = Below(m - 1)
        <5>1. \A x \in S : x <= m <=> x <= m - 1
          BY <1>0, <3>1, <3>4
        <5> QED
          BY <5>1
      <4> QED
        BY <2>2, <3>3, <4>1
    <3>5. CASE m \in S
      <4> DEFINE T == Below(m - 1)
                 c == Cardinality(T)
                 f == [i \in 1..(c + 1) |-> IF i = c + 1 THEN m ELSE s[i]]
      <4>1. Below(m) = T \cup {m} /\ m \notin T /\ T \in SUBSET Nat /\ \A x \in T : x < m
        <5>1. \A x \in S : x <= m <=> x <= m - 1 \/ x = m
          BY <1>0, <3>1, <3>5
        <5>2. \A x \in S : x <= m - 1 => x < m
          BY <1>0, <3>1
        <5>3. ~(m <= m - 1)
          BY <3>1
        <5> QED
          BY <1>0, <3>5, <5>1, <5>2, <5>3
      <4>2. IsFiniteSet(T)
        <5>1. m \in Nat /\ \A x \in T : x <= m
          BY <3>1, <4>1
        <5> HIDE DEF T
        <5> QED
          BY <4>1, <5>1, FS_BoundedSetOfNaturals
      <4> HIDE DEF T, Below
      <4>3. c \in Nat /\ Cardinality(Below(m)) = c + 1
        BY <4>1, <4>2, FS_CardinalityType, FS_AddElement
      <4> HIDE DEF c
      <4>4. s \in [1..c -> T] /\ (\A i, j \in 1..c : i # j => s[i] # s[j]) /\ \A i, j \in 1..c : i < j => s[i] < s[j]
        BY <3>3 DEF SetToSeqs, Increasing, T, c
      <4>5. \A i \in 1..(c + 1) : i = c + 1 \/ i \in 1..c
        BY <4>3
      <4>6. f \in [1..(c + 1) -> T \cup {m}]
        BY <4>4, <4>5
      <4>7. ASSUME NEW i \in 1..(c + 1), NEW j \in 1..(c + 1), i < j PROVE f[i] < f[j]
        <5>1. i \in 1..c /\ f[i] = s[i]
          BY <4>3, <4>7
        <5>2. CASE j = c + 1
          BY <4>1, <4>4, <5>1, <5>2
        <5>3. CASE j # c + 1
          BY <4>3, <4>4, <4>7, <5>1, <5>3
        <5> QED
          BY <5>2, <5>3
      <4>8. \A i, j \in 1..(c + 1) : i # j => f[i] # f[j]
        <5> SUFFICES ASSUME NEW i \in 1..(c + 1), NEW j \in 1..(c + 1), i # j PROVE f[i] # f[j]
          OBVIOUS
        <5>1. i < j \/ j < i
          BY <4>3
        <5>2. f[i] \in Nat /\ f[j] \in Nat
          <6>1. T \cup {m} \subseteq Nat
            BY <3>1, <4>1
          <6> QED
            BY <4>6, <6>1
        <5>3. f[i] < f[j] \/ f[j] < f[i]
          BY <4>7, <5>1
        <5> HIDE DEF f
        <5> QED
          BY <5>2, <5>3
      <4>9. DOMAIN f = 1..(c + 1)
        OBVIOUS
      <4> HIDE DEF f
      <4>10. f \in SetToSeqs(Below(m))
        BY <4>1, <4>3, <4>6, <4>8 DEF SetToSeqs
      <4>11. Increasing(f)
        BY <4>7, <4>9 DEF Increasing
      <4> QED
        BY <2>2, <4>10, <4>11
    <3> QED
      BY <3>4, <3>5
  <2> QED
    BY <2>3, <2>4
<1>2. Below(n) = S
  BY <1>0
<1>3. n \in 0..n
  OBVIOUS
<1>4. \E s \in SetToSeqs(Below(n)) : Increasing(s)
  <2> HIDE DEF Below
  <2> QED
    BY <1>1, <1>3
<1> QED
  BY <1>2, <1>4

\* Ascending has all members of a set, in order.
LEMMA AscendingOrder ==
  ASSUME NEW n \in Nat, NEW S \in SUBSET (1..n)
  PROVE  /\ Ascending(S) \in SetToSeqs(S) /\ Increasing(Ascending(S))
         /\ Ascending(S) \in Seq(S)
         /\ \A x \in S : \E k \in DOMAIN Ascending(S) : Ascending(S)[k] = x
<1> DEFINE s == Ascending(S)
           c == Cardinality(S)
<1>1. s \in SetToSeqs(S) /\ Increasing(s)
  <2>1. \E q \in SetToSeqs(S) : \A i, j \in DOMAIN q : i < j => q[i] < q[j]
    BY OrderExists DEF Increasing
  <2> QED
    BY <2>1, Zenon DEF Ascending, Increasing
<1>2. IsFiniteSet(S) /\ c \in Nat
  <2>1. 1 \in Int /\ n \in Int
    OBVIOUS
  <2>2. IsFiniteSet(1..n)
    BY <2>1, FS_Interval, Zenon
  <2> QED
    BY <2>2, FS_Subset, FS_CardinalityType
<1>3. Cardinality(1..c) = c
  <2>1. 1 \in Int /\ c \in Int
    BY <1>2
  <2>2. Cardinality(1..c) = IF 1 > c THEN 0 ELSE c - 1 + 1
    BY <2>1, FS_Interval, Zenon
  <2> HIDE DEF c
  <2> QED
    BY <1>2, <2>2
<1> HIDE DEF s
<1>4. s \in [1..c -> S] /\ \A i, j \in 1..c : i # j => s[i] # s[j]
  BY <1>1 DEF SetToSeqs
<1>5. s \in Injection(1..c, S)
  BY <1>4 DEF Injection, IsInjective
<1>6. s \in Surjection(1..c, S)
  BY <1>2, <1>3, <1>5, FS_Injection
<1>7. s \in Seq(S)
  <2> HIDE DEF c
  <2> QED
    BY <1>2, <1>4
<1>8. \A x \in S : \E k \in 1..c : s[k] = x
  BY <1>6 DEF Surjection
<1>9. DOMAIN s = 1..c
  BY <1>4
<1> QED
  BY <1>1, <1>7, <1>8, <1>9 DEF s

\* Up to n there is one order.
LEMMA AscendingAll ==
  ASSUME NEW n \in Nat
  PROVE  Ascending(1..n) = [k \in 1..n |-> k]
<1> DEFINE s == Ascending(1..n)
<1>1. s \in SetToSeqs(1..n) /\ Increasing(s)
  BY AscendingOrder
<1>2. Cardinality(1..n) = n
  <2>1. 1 \in Int /\ n \in Int
    OBVIOUS
  <2>2. Cardinality(1..n) = IF 1 > n THEN 0 ELSE n - 1 + 1
    BY <2>1, FS_Interval, Zenon
  <2> QED
    BY <2>2
<1> HIDE DEF s
<1>3. s \in [1..n -> 1..n] /\ \A i, j \in 1..n : i < j => s[i] < s[j]
  BY <1>1, <1>2 DEF SetToSeqs, Increasing
<1>4. \A k \in 1..n : s[k] >= k
  <2> DEFINE Bad == {k \in 1..n : ~(s[k] >= k)}
  <2> SUFFICES ASSUME Bad # {} PROVE FALSE
    OBVIOUS
  <2>1. Min(Bad) \in Bad /\ \A k \in Bad : Min(Bad) <= k
    <3>1. Bad \in SUBSET Nat
      OBVIOUS
    <3> HIDE DEF Bad
    <3> QED
      BY <3>1, LeastNumber
  <2> DEFINE m == Min(Bad)
  <2> HIDE DEF m
  <2>2. m \in 1..n /\ ~(s[m] >= m)
    BY <2>1 DEF m
  <2>3. m - 1 \in 1..n
    BY <1>3, <2>2
  <2>4. m - 1 \notin Bad
    BY <2>1, <2>2, <2>3 DEF m
  <2>5. s[m - 1] >= m - 1 /\ s[m - 1] < s[m]
    BY <1>3, <2>2, <2>3, <2>4
  <2>6. s[m] \in Nat /\ s[m - 1] \in Nat
    BY <1>3, <2>2, <2>3
  <2> QED
    BY <2>2, <2>5, <2>6
<1>5. \A k \in 1..n : s[k] <= k
  <2> DEFINE Bad == {k \in 1..n : ~(s[k] <= k)}
  <2> SUFFICES ASSUME Bad # {} PROVE FALSE
    OBVIOUS
  <2>1. Max(Bad) \in Bad /\ \A k \in Bad : Max(Bad) >= k
    <3>1. Bad \in SUBSET (0..n)
      OBVIOUS
    <3> HIDE DEF Bad
    <3> QED
      BY <3>1, GreatestNumber
  <2> DEFINE m == Max(Bad)
  <2> HIDE DEF m
  <2>2. m \in 1..n /\ ~(s[m] <= m) /\ s[m] \in 1..n
    BY <1>3, <2>1 DEF m
  <2>3. m + 1 \in 1..n
    BY <2>2
  <2>4. m + 1 \notin Bad
    BY <2>1, <2>2, <2>3 DEF m
  <2>5. s[m + 1] <= m + 1 /\ s[m] < s[m + 1]
    BY <1>3, <2>2, <2>3, <2>4
  <2>6. s[m] \in Nat /\ s[m + 1] \in Nat
    BY <1>3, <2>2, <2>3
  <2> QED
    BY <2>2, <2>5, <2>6
<1>6. \A k \in 1..n : s[k] = k
  <2> SUFFICES ASSUME NEW k \in 1..n PROVE s[k] = k
    OBVIOUS
  <2>1. s[k] \in Nat /\ s[k] >= k /\ s[k] <= k
    BY <1>3, <1>4, <1>5
  <2> QED
    BY <2>1
<1> QED
  BY <1>3, <1>6 DEF s

-----------------------------------------------------------------------------
(***************************************************************************)
(* Batches.                                                                *)
(***************************************************************************)
LEMMA Products ==
  ASSUME NEW a \in Nat, NEW b \in Nat, NEW c \in Nat, a <= b
  PROVE  a * c \in Nat /\ b * c \in Nat /\ a * c <= b * c
<1>1. b * c = a * c + (b - a) * c /\ (b - a) * c \in Nat /\ a * c \in Nat /\ b * c \in Nat
  OBVIOUS
<1> QED
  BY <1>1

\* As many batches as are needed, and no more.
LEMMA Ceiling ==
  ASSUME NEW n \in Nat \ {0}, NEW d \in Nat \ {0}
  PROVE  /\ Ceil(n, d) \in Nat \ {0}
         /\ Ceil(n, d) * d >= n
         /\ (Ceil(n, d) - 1) * d < n
<1> DEFINE q == (n + d - 1) \div d
           r == (n + d - 1) % d
<1>1. q \in Int /\ r \in 0..(d - 1) /\ n + d - 1 = d * q + r
  OBVIOUS
<1>2. q \in Nat
  <2>1. n + d - 1 \in Nat
    OBVIOUS
  <2> QED
    BY <2>1
<1> HIDE DEF q, r
<1> QED
  BY <1>1, <1>2 DEF Ceil, q

\* A slice after another one.
LEMMA Halves ==
  ASSUME NEW X, NEW s \in Seq(X), NEW a \in 0..Len(s), NEW b \in a..Len(s)
  PROVE  SubSeq(s, 1, a) \o SubSeq(s, a + 1, b) = SubSeq(s, 1, b)
<1> DEFINE u == SubSeq(s, 1, a)
           v == SubSeq(s, a + 1, b)
           w == SubSeq(s, 1, b)
<1>1. u \in Seq(X) /\ Len(u) = a /\ \A i \in 1..a : u[i] = s[i]
  OBVIOUS
<1>2. v \in Seq(X) /\ Len(v) = b - a /\ \A i \in 1..(b - a) : v[i] = s[a + i]
  OBVIOUS
<1>3. w \in Seq(X) /\ Len(w) = b /\ \A i \in 1..b : w[i] = s[i]
  OBVIOUS
<1> HIDE DEF u, v, w
<1>0. a \in Nat /\ b \in Nat /\ a <= b
  OBVIOUS
<1>4. u \o v \in Seq(X) /\ Len(u \o v) = b
  <2>1. u \o v \in Seq(X) /\ Len(u \o v) = Len(u) + Len(v)
    BY <1>1, <1>2
  <2> QED
    BY <1>0, <1>1, <1>2, <2>1
<1>5. ASSUME NEW i \in 1..b PROVE (u \o v)[i] = s[i]
  <2>1. CASE i \in 1..a
    BY <1>1, <1>2, <2>1
  <2>2. CASE i \notin 1..a
    <3>1. i - a \in 1..(b - a) /\ a + (i - a) = i
      BY <2>2
    <3>2. (u \o v)[i] = v[i - a]
      BY <1>1, <1>2, <2>2, <3>1
    <3> QED
      BY <1>2, <3>1, <3>2
  <2> QED
    BY <2>1, <2>2
<1>6. u \o v = w
  <2> DEFINE z == u \o v
  <2>1. z \in Seq(X) /\ Len(z) = b
    BY <1>4
  <2>2. \A i \in 1..b : z[i] = w[i]
    BY <1>3, <1>5
  <2> HIDE DEF z
  <2>3. z = w
    BY <1>3, <2>1, <2>2
  <2> QED
    BY <2>3 DEF z
<1> QED
  BY <1>6 DEF u, v, w

\* What is cut into batches is whole again when they are put together.
LEMMA BatchesTogether ==
  ASSUME NEW X, NEW want \in Seq(X), want # <<>>, NEW d \in Nat \ {0}, NEW seqs,
         Len(seqs) = Ceil(Len(want), d),
         \A b \in 1..Ceil(Len(want), d) : seqs[b] = SubSeq(want, (b - 1) * d + 1, Min({b * d, Len(want)}))
  PROVE  FlattenSeq(seqs) = want
<1> DEFINE n == Len(want)
           count == Ceil(n, d)
           upTo(b) == IF b * d < n THEN b * d ELSE n
           Inv == [b \in 1..count |-> {SubSeq(want, 1, upTo(b))}]
<1>1. n \in Nat \ {0}
  OBVIOUS
<1>2. count \in Nat \ {0} /\ count * d >= n /\ (count - 1) * d < n
  BY <1>1, Ceiling
<1>3. ASSUME NEW b \in 1..count
      PROVE  /\ (b - 1) * d \in 0..n
             /\ Min({b * d, n}) = upTo(b) /\ upTo(b) \in ((b - 1) * d)..n
             /\ b > 1 => upTo(b - 1) = (b - 1) * d
  <2> HIDE DEF count, n
  <2>1. b - 1 \in Nat /\ count - 1 \in Nat /\ b - 1 <= count - 1 /\ b \in Nat
    BY <1>2
  <2>2. (b - 1) * d \in Nat /\ (count - 1) * d \in Nat /\ (b - 1) * d <= (count - 1) * d
    BY <2>1, Products
  <2>3. b * d = (b - 1) * d + d /\ b * d \in Nat
    BY <2>1
  <2>4. (b - 1) * d < n
    BY <1>1, <1>2, <2>2
  <2>5. Min({b * d, n}) = upTo(b)
    BY <1>1, <2>3, MinOfTwo
  <2>6. upTo(b) \in ((b - 1) * d)..n
    BY <1>1, <2>2, <2>3, <2>4
  <2> QED
    BY <1>1, <2>2, <2>4, <2>5, <2>6
<1>4. \A b \in 1..count : seqs[b] = SubSeq(want, (b - 1) * d + 1, Min({b * d, n}))
  OBVIOUS
<1> HIDE DEF count, n, upTo
<1>5. n = Len(want)
  BY DEF n
<1>6. 1 \in 1..count
  BY <1>2
<1>7. seqs[1] \in Inv[1]
  <2>1. (1 - 1) * d + 1 = 1
    OBVIOUS
  <2>2. seqs[1] = SubSeq(want, 1, upTo(1))
    <3>1. seqs[1] = SubSeq(want, (1 - 1) * d + 1, Min({1 * d, n})) /\ Min({1 * d, n}) = upTo(1)
      BY <1>3, <1>4, <1>6
    <3> QED
      BY <2>1, <3>1
  <2> QED
    BY <1>6, <2>2
<1>8. ASSUME NEW b \in 2..count, NEW x \in Inv[b - 1] PROVE x \o seqs[b] \in Inv[b]
  <2>1. b \in 1..count /\ b - 1 \in 1..count /\ b > 1
    BY <1>2
  <2> DEFINE p == (b - 1) * d
             q == upTo(b)
  <2>2. x = SubSeq(want, 1, p)
    BY <1>3, <2>1
  <2>3. seqs[b] = SubSeq(want, p + 1, q) /\ p \in 0..Len(want) /\ q \in p..Len(want)
    BY <1>3, <1>4, <1>5, <2>1
  <2> HIDE DEF p, q
  <2>4. x \o seqs[b] = SubSeq(want, 1, q)
    BY <2>2, <2>3, Halves
  <2> QED
    BY <2>1, <2>4 DEF q
<1> HIDE DEF Inv
<1>9. Len(seqs) = count
  BY DEF count, n
<1>10. FlattenSeq(seqs) \in Inv[count]
  BY <1>2, <1>7, <1>8, <1>9, Flattens
<1>11. upTo(count) = n
  BY <1>1, <1>2 DEF upTo
<1>12. FlattenSeq(seqs) = SubSeq(want, 1, n)
  <2>1. count \in 1..count
    BY <1>2
  <2> QED
    BY <1>10, <1>11, <2>1 DEF Inv
<1>13. SubSeq(want, 1, Len(want)) = want
  OBVIOUS
<1> QED
  BY <1>5, <1>12, <1>13

\* The entries of a reply, in any order, are in the order of the inputs again.
LEMMA SortedReply ==
  ASSUME NEW n \in Nat, NEW order \in SetToSeqs(1..n), NEW want, NEW entries,
         DOMAIN entries = 1..n, \A k \in 1..n : entries[k].index = order[k] /\ entries[k].embedding = want[order[k]]
  PROVE  Sorted(entries) = [k \in 1..n |-> want[k]]
<1> DEFINE indexes == {entries[k].index : k \in DOMAIN entries}
<1>1. IsFiniteSet(1..n) /\ Cardinality(1..n) = n
  <2>1. 1 \in Int /\ n \in Int
    OBVIOUS
  <2>2. IsFiniteSet(1..n) /\ Cardinality(1..n) = IF 1 > n THEN 0 ELSE n - 1 + 1
    BY <2>1, FS_Interval, Zenon
  <2> QED
    BY <2>2
<1>2. order \in [1..n -> 1..n] /\ \A i, j \in 1..n : i # j => order[i] # order[j]
  BY <1>1 DEF SetToSeqs
<1>3. order \in Injection(1..n, 1..n)
  BY <1>2 DEF Injection, IsInjective
<1>4. order \in Surjection(1..n, 1..n)
  <2> DEFINE S == 1..n
  <2>1. IsFiniteSet(S) /\ order \in Injection(S, S)
    BY <1>1, <1>3
  <2> HIDE DEF S
  <2>2. order \in Surjection(S, S)
    BY <2>1, FS_Injection
  <2> QED
    BY <2>2 DEF S
<1>5. \A i \in 1..n : \E k \in 1..n : entries[k].index = i
  <2>1. \A i \in 1..n : \E k \in 1..n : order[k] = i
    BY <1>4 DEF Surjection
  <2> SUFFICES ASSUME NEW i \in 1..n PROVE \E k \in 1..n : entries[k].index = i
    OBVIOUS
  <2>2. PICK k \in 1..n : order[k] = i
    BY <2>1
  <2>3. entries[k].index = order[k]
    OBVIOUS
  <2> QED
    BY <2>2, <2>3
<1>6. indexes = 1..n
  <2>1. \A k \in 1..n : entries[k].index \in 1..n
    <3>1. \A k \in 1..n : order[k] \in 1..n
      BY <1>2
    <3> QED
      BY <3>1
  <2>2. indexes \subseteq 1..n
    BY <2>1
  <2>3. ASSUME NEW i \in 1..n PROVE i \in indexes
    <3>1. PICK k \in 1..n : entries[k].index = i
      BY <1>5
    <3> QED
      BY <3>1
  <2> HIDE DEF indexes
  <2> QED
    BY <2>2, <2>3
<1>7. Ascending(indexes) = [k \in 1..n |-> k]
  BY <1>6, AscendingAll
<1> DEFINE picked(k) == (CHOOSE e \in ToSet(entries) : e.index = k).embedding
<1>8. ASSUME NEW k \in 1..n PROVE picked(k) = want[k]
  <2>1. \E e \in ToSet(entries) : e.index = k
    <3>1. \E i \in 1..n : entries[i].index = k
      BY <1>5
    <3> QED
      BY <3>1 DEF ToSet
  <2>2. \A e \in ToSet(entries) : e.index = k => e.embedding = want[k]
    <3> SUFFICES ASSUME NEW e \in ToSet(entries), e.index = k PROVE e.embedding = want[k]
      OBVIOUS
    <3>1. PICK i \in 1..n : e = entries[i]
      BY DEF ToSet
    <3> QED
      BY <3>1
  <2> DEFINE e == CHOOSE e \in ToSet(entries) : e.index = k
  <2>3. e \in ToSet(entries) /\ e.index = k
    BY <2>1, Zenon
  <2> HIDE DEF e
  <2>4. e.embedding = want[k]
    BY <2>2, <2>3
  <2> QED
    BY <2>4 DEF e
<1> DEFINE result == Sorted(entries)
           rank == Ascending(indexes)
<1>9. result = [k \in 1..n |-> picked(rank[k])]
  BY Zenon DEF Sorted
<1>10. \A k \in 1..n : rank[k] = k
  BY <1>7
<1> HIDE DEF rank, result, indexes, picked
<1>11. \A k \in 1..n : picked(rank[k]) = want[k]
  BY <1>8, <1>10
<1>12. result = [k \in 1..n |-> want[k]]
  BY <1>9, <1>11
<1> QED
  BY <1>12 DEF result

-----------------------------------------------------------------------------
(***************************************************************************)
(* Where a run is, and what it works on.                                   *)
(***************************************************************************)
Storing == {"write", "connect", "use", "execute", "acquire", "connecting"}

\* The chunks of a run are those of its document from its first step on.
Flow ==
  /\ world \in Worlds
  /\ pc \in [Runs -> Stops]
  /\ chunks = [t \in Runs |-> IF pc[t] = "chunk" THEN <<>> ELSE ChunksOf(world.document[t], world.strategy[t])]
  /\ vectors = [t \in Runs |-> vectors[t]]
  /\ missing = [t \in Runs |-> missing[t]]
  /\ replies = [t \in Runs |-> replies[t]]
  /\ have = [t \in Runs |-> have[t]]

LEMMA FlowInitially == Init => Flow
BY DEF Init, Flow, Stops

LEMMA Moved ==
  ASSUME Flow, NEW t \in Runs, NEW there \in Stops, Goto(t, there)
  PROVE  /\ pc' = [pc EXCEPT ![t] = there] /\ pc' \in [Runs -> Stops]
         /\ pc'[t] = there
         /\ \A u \in Runs : u # t => pc'[u] = pc[u]
BY DEF Flow, Goto

\* What every run but one keeps, and what that one may do.
Step(t) ==
  /\ world' = world
  /\ \E there \in Stops : pc' = [pc EXCEPT ![t] = there]
  /\ (chunks' = chunks /\ pc[t] # "chunk" /\ pc'[t] # "chunk")
     \/ (pc'[t] # "chunk" /\ chunks' = [chunks EXCEPT ![t] = ChunksOf(world.document[t], world.strategy[t])])
  /\ vectors' = vectors \/ \E x : vectors' = [vectors EXCEPT ![t] = x]
  /\ missing' = missing \/ \E x : missing' = [missing EXCEPT ![t] = x]
  /\ replies' = replies \/ \E x : replies' = [replies EXCEPT ![t] = x]
  /\ have' = have \/ \E x : have' = [have EXCEPT ![t] = x]

\* A step of one run keeps it.
LEMMA FlowKept ==
  ASSUME Flow, NEW t \in Runs, Step(t)
  PROVE  Flow'
<1>1. PICK there \in Stops : pc' = [pc EXCEPT ![t] = there]
  BY DEF Step
<1>2. /\ pc' \in [Runs -> Stops] /\ pc'[t] = there /\ \A u \in Runs : u # t => pc'[u] = pc[u]
  BY <1>1 DEF Flow
<1>3. vectors' = [u \in Runs |-> vectors'[u]]
  BY DEF Flow, Step
<1>4. missing' = [u \in Runs |-> missing'[u]]
  BY DEF Flow, Step
<1>5. replies' = [u \in Runs |-> replies'[u]]
  BY DEF Flow, Step
<1>6. have' = [u \in Runs |-> have'[u]]
  BY DEF Flow, Step
<1> DEFINE whole(u) == ChunksOf(world.document[u], world.strategy[u])
<1>7. chunks = [u \in Runs |-> IF pc[u] = "chunk" THEN <<>> ELSE whole(u)]
  BY DEF Flow
<1>8. \/ chunks' = chunks /\ pc[t] # "chunk" /\ pc'[t] # "chunk"
      \/ pc'[t] # "chunk" /\ chunks' = [chunks EXCEPT ![t] = whole(t)]
  BY DEF Step
<1> HIDE DEF whole
<1>9. chunks' = [u \in Runs |-> IF pc'[u] = "chunk" THEN <<>> ELSE whole(u)]
  BY <1>2, <1>7, <1>8
<1>10. world' = world /\ world \in Worlds
  BY DEF Step, Flow
<1> QED
  BY <1>2, <1>3, <1>4, <1>5, <1>6, <1>9, <1>10 DEF Flow, whole

\* What no step of a run changes but for that run.
Acts(t) ==
  \/ ChunkStep(t) \/ Lookup(t) \/ EmbedFails(t) \/ Gather(t)
  \/ Check(t) \/ Connect(t) \/ Use(t) \/ Write(t)
  \/ EnsureTable(t) \/ Acquire(t) \/ Connected(t) \/ Execute(t)

\* The steps of one of its requests,
Asks(t) == \E b \in DOMAIN replies[t] : Send(t, b) \/ Reply(t, b)

\* ... and those of no run.
Aside == Drop \/ Close \/ UNCHANGED vars

LEMMA NextSplits == [Next]_vars => (\E t \in Runs : Acts(t) \/ Asks(t)) \/ Aside
BY DEF Next, Acts, Asks, Aside, Ended

\* A run changes nothing but what is its own.
LEMMA ActsStep ==
  ASSUME Flow, NEW t \in Runs, Acts(t)
  PROVE  Step(t)
<1> USE DEF Goto, Stops, embedding, store
<1>0. pc \in [Runs -> Stops] /\ DOMAIN pc = Runs
  BY DEF Flow
<1>1. CASE ChunkStep(t)
  <2>1. /\ chunks' = [chunks EXCEPT ![t] = ChunksOf(world.document[t], world.strategy[t])]
        /\ UNCHANGED <<world, vectors, missing, replies, have>>
        /\ \E there \in {"done", "lookup"} : pc' = [pc EXCEPT ![t] = there]
    BY <1>1 DEF ChunkStep
  <2> HIDE DEF Goto, Stops
  <2>2. \E there \in Stops : pc' = [pc EXCEPT ![t] = there]
    BY <2>1 DEF Stops
  <2>3. pc'[t] # "chunk"
    BY <1>0, <2>1
  <2> QED
    BY <2>1, <2>2, <2>3 DEF Step
<1>2. CASE Lookup(t)
  <2>1. pc[t] = "lookup" /\ UNCHANGED <<world, chunks, have>>
    BY <1>2 DEF Lookup
  <2>2. \E there \in {"failed", "write", "embed"} : pc' = [pc EXCEPT ![t] = there]
    BY <1>2 DEF Lookup
  <2>3. vectors' = vectors \/ \E x : vectors' = [vectors EXCEPT ![t] = x]
    BY <1>2, Zenon DEF Lookup
  <2>4. missing' = missing \/ \E x : missing' = [missing EXCEPT ![t] = x]
    BY <1>2, Zenon DEF Lookup
  <2>5. replies' = replies \/ \E x : replies' = [replies EXCEPT ![t] = x]
    BY <1>2, Zenon DEF Lookup
  <2> QED
    BY <1>0, <2>1, <2>2, <2>3, <2>4, <2>5 DEF Step
<1>3. CASE EmbedFails(t)
  BY <1>0, <1>3 DEF EmbedFails, Step
<1>4. CASE Gather(t)
  <2>1. pc[t] = "embed" /\ UNCHANGED <<world, chunks, missing, have>> /\ replies' = [replies EXCEPT ![t] = <<>>]
    BY <1>4 DEF Gather
  <2>2. \E there \in {"failed", "write"} : pc' = [pc EXCEPT ![t] = there]
    BY <1>4 DEF Gather
  <2>3. \E x : vectors' = [vectors EXCEPT ![t] = x]
    BY <1>4, Zenon DEF Gather
  <2> QED
    BY <1>0, <2>1, <2>2, <2>3 DEF Step
<1>5. CASE Check(t)
  BY <1>0, <1>5 DEF Check, Step
<1>6. CASE Connect(t)
  BY <1>0, <1>6 DEF Connect, Step
<1>7. CASE Use(t)
  BY <1>0, <1>7 DEF Use, Step
<1>8. CASE Write(t)
  BY <1>0, <1>8 DEF Write, Step
<1>9. CASE EnsureTable(t)
  BY <1>0, <1>9 DEF EnsureTable, Step
<1>10. CASE Acquire(t)
  BY <1>0, <1>10 DEF Acquire, Step
<1>11. CASE Connected(t)
  BY <1>0, <1>11 DEF Connected, Step
<1>12. CASE Execute(t)
  BY <1>0, <1>12 DEF Execute, Step
<1> QED
  BY <1>1, <1>2, <1>3, <1>4, <1>5, <1>6, <1>7, <1>8, <1>9, <1>10, <1>11, <1>12 DEF Acts

\* A request changes one reply.
LEMMA AsksFlow ==
  ASSUME Flow, NEW t \in Runs, NEW b, Send(t, b) \/ Reply(t, b)
  PROVE  /\ UNCHANGED <<world, pc, chunks, vectors, missing, cached, item, have, rows>>
         /\ \E x : replies' = [replies EXCEPT ![t] = [replies[t] EXCEPT ![b] = x]]
<1>1. UNCHANGED <<world, pc, chunks, vectors, missing, cached, item, have, rows>>
  BY DEF Send, Reply, store
<1>2. CASE Send(t, b)
  <2>1. replies' = [replies EXCEPT ![t][b] = Sent]
    BY <1>2 DEF Send
  <2> QED
    BY <1>1, <2>1
<1>3. CASE Reply(t, b)
  <2>1. \E x : replies' = [replies EXCEPT ![t][b] = x]
    BY <1>3, Zenon DEF Reply
  <2> QED
    BY <1>1, <2>1
<1> QED
  BY <1>2, <1>3

LEMMA FlowInductive == Flow /\ [Next]_vars => Flow'
<1> SUFFICES ASSUME Flow, [Next]_vars PROVE Flow'
  OBVIOUS
<1>1. CASE \E t \in Runs : Acts(t)
  BY <1>1, ActsStep, FlowKept
<1>2. CASE \E t \in Runs : Asks(t)
  <2> PICK t \in Runs : Asks(t)
    BY <1>2
  <2>1. PICK b \in DOMAIN replies[t] : Send(t, b) \/ Reply(t, b)
    BY DEF Asks
  <2>2. /\ UNCHANGED <<world, pc, chunks, vectors, missing, have>>
        /\ \E x : replies' = [replies EXCEPT ![t] = [replies[t] EXCEPT ![b] = x]]
    BY <2>1, AsksFlow
  <2> QED
    BY <2>2 DEF Flow
<1>3. CASE Aside
  BY <1>3 DEF Aside, Drop, Close, vars, embedding, store, Flow
<1> QED
  BY <1>1, <1>2, <1>3, NextSplits

LEMMA FlowAlways == Spec => []Flow
BY FlowInitially, FlowInductive, PTL DEF Spec

\* The chunks are texts.
LEMMA ChunksHeld ==
  ASSUME Flow, NEW t \in Runs
  PROVE  chunks[t] \in Seq(Texts)
<1>1. world.document[t] \in Seq(Sections) /\ world.strategy[t] \in Strategies
  BY TransformAssumption DEF Flow, Sections, Strategies
<1>2. ChunksOf(world.document[t], world.strategy[t]) \in Seq(Texts)
  BY <1>1, DocumentCovered
<1> QED
  BY <1>2 DEF Flow

(* Whatever the documents, the budgets and the overlaps, nothing is lost    *)
(* between two chunks, nothing else is in them, and a chunk with an overlap *)
(* exceeds its budget by what it carries over and repeats, or is one word   *)
(* (chunk/auto.py, chunk/size.py, chunk/sections.py).                       *)
THEOREM NothingLost == Spec => []ChunksComplete
<1>1. Flow => ChunksComplete
  <2> SUFFICES ASSUME Flow, NEW t \in Runs, pc[t] # "chunk"
               PROVE  /\ Covers(chunks[t], world.document[t])
                      /\ world.strategy[t].overlap > 0 =>
                           WithinBudget(chunks[t], world.document[t], world.strategy[t])
    BY DEF ChunksComplete
  <2>1. world.document[t] \in Seq(Sections) /\ world.strategy[t] \in Strategies
    BY TransformAssumption DEF Flow, Sections, Strategies
  <2>2. chunks[t] = ChunksOf(world.document[t], world.strategy[t])
    BY DEF Flow
  <2> QED
    BY <2>1, <2>2, DocumentCovered
<1> QED
  BY <1>1, FlowAlways, PTL

-----------------------------------------------------------------------------
(***************************************************************************)
(* What is written.                                                        *)
(***************************************************************************)
Found(t, i) == \E r \in rows : r[1] = world.index /\ r[2] = t /\ r[3] = chunks[t][i]

\* What is written of a run, by where it is.
Kept(t) ==
  /\ item[t] \in Nat
  /\ pc[t] \in {"chunk", "lookup", "embed"} => item[t] = 0
  /\ pc[t] \in {"lookup", "embed"} \cup Storing => item[t] < Len(chunks[t])
  /\ pc[t] = "done" => item[t] = Len(chunks[t]) \/ world.index = "none"
  /\ world.index \in {"file", "pgvector"} => \A i \in 1..item[t] : Found(t, i)

\* The first chunks of a run, as many as it has counted, are found.
Stored ==
  /\ item = [t \in Runs |-> item[t]]
  /\ \A t \in Runs : Kept(t)

LEMMA StoredInitially == Init => Stored
BY DEF Init, Stored, Kept, Storing

\* A run that does not move keeps what it has, as rows are only added.
LEMMA KeptElsewhere ==
  ASSUME NEW u, Kept(u), world' = world, pc'[u] = pc[u], chunks'[u] = chunks[u], item'[u] = item[u],
         rows \subseteq rows'
  PROVE  Kept(u)'
<1>1. \A i \in 1..item[u] : Found(u, i) => Found(u, i)'
  BY DEF Found
<1> QED
  BY <1>1 DEF Kept

\* One that moves without writing.
LEMMA KeptMoving ==
  ASSUME NEW u, Kept(u), UNCHANGED <<world, chunks, item, rows>>,
         \/ pc'[u] = "failed" /\ pc[u] # "chunk"
         \/ pc[u] = "lookup" /\ pc'[u] = "embed"
         \/ pc[u] \in {"lookup", "embed"} \cup Storing /\ pc'[u] \in Storing
  PROVE  Kept(u)'
<1>1. \A i \in 1..item[u] : Found(u, i) => Found(u, i)'
  BY DEF Found
<1> QED
  BY <1>1 DEF Kept, Storing

\* No run moves another one.
LEMMA ActsElsewhere ==
  ASSUME Flow, NEW t \in Runs, Step(t), NEW u \in Runs, u # t
  PROVE  pc'[u] = pc[u] /\ chunks'[u] = chunks[u]
BY DEF Flow, Step

\* The runs whose rows and items stay the same.
Quiet(t) ==
  \/ Lookup(t) \/ EmbedFails(t) \/ Gather(t)
  \/ Check(t) \/ Connect(t) \/ Use(t)
  \/ EnsureTable(t) \/ Acquire(t) \/ Connected(t)

\* They go on to the next stop, or fail.
LEMMA QuietMoves ==
  ASSUME Flow, NEW t \in Runs, Quiet(t)
  PROVE  /\ UNCHANGED <<world, chunks, item, rows>>
         /\ \/ pc'[t] = "failed" /\ pc[t] # "chunk"
            \/ pc[t] = "lookup" /\ pc'[t] = "embed"
            \/ pc[t] \in {"lookup", "embed"} \cup Storing /\ pc'[t] \in Storing
<1> USE DEF Goto, embedding, store, Storing
<1>0. pc \in [Runs -> Stops]
  BY DEF Flow
<1>1. CASE Lookup(t)
  <2>1. pc[t] = "lookup" /\ UNCHANGED <<world, chunks, item, rows>>
    BY <1>1 DEF Lookup
  <2>2. \E there \in {"failed", "write", "embed"} : pc' = [pc EXCEPT ![t] = there]
    BY <1>1 DEF Lookup
  <2> QED
    BY <1>0, <2>1, <2>2
<1>2. CASE EmbedFails(t)
  BY <1>0, <1>2 DEF EmbedFails
<1>3. CASE Gather(t)
  <2>1. pc[t] = "embed" /\ UNCHANGED <<world, chunks, item, rows>>
    BY <1>3 DEF Gather
  <2>2. \E there \in {"failed", "write"} : pc' = [pc EXCEPT ![t] = there]
    BY <1>3 DEF Gather
  <2> QED
    BY <1>0, <2>1, <2>2
<1>4. CASE Check(t)
  BY <1>0, <1>4 DEF Check
<1>5. CASE Connect(t)
  BY <1>0, <1>5 DEF Connect
<1>6. CASE Use(t)
  BY <1>0, <1>6 DEF Use
<1>7. CASE EnsureTable(t)
  BY <1>0, <1>7 DEF EnsureTable
<1>8. CASE Acquire(t)
  BY <1>0, <1>8 DEF Acquire
<1>9. CASE Connected(t)
  BY <1>0, <1>9 DEF Connected
<1> QED
  BY <1>1, <1>2, <1>3, <1>4, <1>5, <1>6, <1>7, <1>8, <1>9 DEF Quiet

\* A run without chunks has nothing to write.
LEMMA ChunkStored ==
  ASSUME Flow, Stored, NEW t \in Runs, ChunkStep(t)
  PROVE  Stored'
<1>1. Step(t) /\ Flow'
  BY ActsStep, FlowKept DEF Acts
<1>2. item' = item /\ rows' = rows /\ world' = world
  BY DEF ChunkStep
<1>3. Kept(t)'
  <2>1. item[t] = 0
    BY DEF Stored, Kept, ChunkStep
  <2>2. Len(chunks'[t]) \in Nat /\ (chunks'[t] # <<>> => Len(chunks'[t]) > 0) /\ Len(<<>>) = 0
    <3>1. chunks'[t] \in Seq(Texts)
      <4>1. ChunksOf(world.document[t], world.strategy[t]) \in Seq(Texts)
        BY TransformAssumption, DocumentCovered DEF Flow, Sections, Strategies
      <4> QED
        BY <4>1 DEF ChunkStep, Flow
    <3> QED
      BY <3>1
  <2>3. \/ pc'[t] = "done" /\ (world.index = "none" \/ chunks'[t] = <<>>)
        \/ pc'[t] = "lookup" /\ chunks'[t] # <<>>
    BY DEF ChunkStep, Goto, Flow
  <2> QED
    BY <1>2, <2>1, <2>2, <2>3 DEF Kept, Storing
<1>4. ASSUME NEW u \in Runs, u # t PROVE Kept(u)'
  BY <1>1, <1>2, <1>4, ActsElsewhere, KeptElsewhere DEF Stored
<1> QED
  BY <1>2, <1>3, <1>4 DEF Stored

\* What is written now, and what was.
LEMMA MoreKept ==
  ASSUME Flow, Stored, NEW t \in Runs, NEW last \in Nat, pc[t] \in Storing, item[t] <= last, last <= Len(chunks[t]),
         world' = world, chunks' = chunks, item' = [item EXCEPT ![t] = last],
         rows' = rows \cup {Row(t, i) : i \in (item[t] + 1)..last},
         (pc'[t] = "done" /\ last = Len(chunks[t])) \/ (pc'[t] \in Storing /\ last # Len(chunks[t])),
         \A u \in Runs : u # t => pc'[u] = pc[u]
  PROVE  Stored'
<1>1. item' = [u \in Runs |-> item'[u]] /\ item'[t] = last /\ \A u \in Runs : u # t => item'[u] = item[u]
  BY DEF Stored
<1>2. Kept(t)'
  <2>1. Len(chunks[t]) \in Nat /\ item[t] \in Nat /\ Kept(t)
    BY ChunksHeld DEF Stored, Kept
  <2>2. ASSUME world.index \in {"file", "pgvector"}, NEW i \in 1..last PROVE Found(t, i)'
    <3>1. CASE i \in 1..item[t]
      <4>1. Found(t, i)
        BY <2>1, <2>2, <3>1 DEF Kept
      <4> QED
        BY <4>1 DEF Found
    <3>2. CASE i \notin 1..item[t]
      <4>1. i \in (item[t] + 1)..last
        BY <2>1, <3>2
      <4>2. Row(t, i) \in rows'
        BY <4>1
      <4>3. Row(t, i)[1] = world.index /\ Row(t, i)[2] = t /\ Row(t, i)[3] = chunks[t][i]
        BY <2>2 DEF Row, Place
      <4> QED
        BY <4>2, <4>3 DEF Found
    <3> QED
      BY <3>1, <3>2
  <2>3. pc'[t] \in Storing => last < Len(chunks[t])
    BY <2>1 DEF Storing
  <2> QED
    BY <1>1, <2>1, <2>2, <2>3 DEF Kept, Storing
<1>3. ASSUME NEW u \in Runs, u # t PROVE Kept(u)'
  BY <1>1, <1>3, KeptElsewhere DEF Stored
<1> QED
  BY <1>1, <1>2, <1>3 DEF Stored

\* SqliteIndex writes one row at a time,
LEMMA WriteStored ==
  ASSUME Flow, Stored, NEW t \in Runs, Write(t)
  PROVE  Stored'
<1>1. /\ pc[t] = "execute" /\ UNCHANGED <<world, chunks>>
      /\ item' = [item EXCEPT ![t] = item[t] + 1]
      /\ rows' = rows \cup {Row(t, item'[t])}
      /\ pc' = [pc EXCEPT ![t] = IF item'[t] = Len(chunks[t]) THEN "done" ELSE "write"]
  BY DEF Write, embedding, Goto
<1>2. item[t] \in Nat /\ item[t] < Len(chunks[t]) /\ Len(chunks[t]) \in Nat
  BY <1>1, ChunksHeld DEF Stored, Kept, Storing
<1>3. item'[t] = item[t] + 1
  BY <1>1 DEF Stored
<1>4. {item'[t]} = (item[t] + 1)..(item[t] + 1)
  BY <1>2, <1>3
<1>5. rows' = rows \cup {Row(t, i) : i \in (item[t] + 1)..(item[t] + 1)}
  <2>1. \A i \in (item[t] + 1)..(item[t] + 1) : i = item'[t]
    BY <1>4
  <2>2. item'[t] \in (item[t] + 1)..(item[t] + 1)
    BY <1>4
  <2> QED
    BY <1>1, <2>1, <2>2, Zenon
<1>6. pc'[t] = (IF item'[t] = Len(chunks[t]) THEN "done" ELSE "write") /\ \A u \in Runs : u # t => pc'[u] = pc[u]
  BY <1>1 DEF Flow
<1>7. item[t] + 1 \in Nat /\ item[t] <= item[t] + 1 /\ item[t] + 1 <= Len(chunks[t])
  BY <1>2
<1>8. (pc'[t] = "done" /\ item[t] + 1 = Len(chunks[t])) \/ (pc'[t] \in Storing /\ item[t] + 1 # Len(chunks[t]))
  BY <1>3, <1>6 DEF Storing
<1> QED
  BY <1>1, <1>5, <1>6, <1>7, <1>8, MoreKept DEF Storing

\* ... PgVectorIndex as many as a statement takes.
LEMMA ExecuteStored ==
  ASSUME Flow, Stored, NEW t \in Runs, Execute(t)
  PROVE  Stored'
<1> DEFINE last == Min({item[t] + RowsPerInsert, Len(chunks[t])})
<1>1. Step(t) /\ pc[t] = "execute" /\ UNCHANGED <<world, chunks>>
  BY ActsStep DEF Acts, Execute, embedding
<1>2. \/ UNCHANGED <<item, rows>> /\ \E there \in {"failed", "acquire"} : Goto(t, there)
      \/ /\ rows' = rows \cup {Row(t, i) : i \in (item[t] + 1)..last}
         /\ item' = [item EXCEPT ![t] = last]
         /\ Goto(t, IF last = Len(chunks[t]) THEN "done" ELSE "execute")
  BY DEF Execute
<1>3. \A u \in Runs : u # t => pc'[u] = pc[u]
  BY <1>1, ActsElsewhere
<1>4. item[t] \in Nat /\ item[t] < Len(chunks[t]) /\ Len(chunks[t]) \in Nat /\ RowsPerInsert \in Nat
  BY <1>1, ChunksHeld, TransformAssumption DEF Stored, Kept, Storing
<1>5. last \in Nat /\ item[t] <= last /\ last <= Len(chunks[t])
  <2>1. item[t] + RowsPerInsert \in Int /\ Len(chunks[t]) \in Int
    BY <1>4
  <2>2. last = IF item[t] + RowsPerInsert < Len(chunks[t]) THEN item[t] + RowsPerInsert ELSE Len(chunks[t])
    BY <2>1, MinOfTwo
  <2> QED
    BY <1>4, <2>2
<1> HIDE DEF last
<1>6. CASE UNCHANGED <<item, rows>> /\ \E there \in {"failed", "acquire"} : Goto(t, there)
  <2>1. pc'[t] \in {"failed", "acquire"}
    BY <1>6 DEF Goto, Flow
  <2>2. Kept(t)'
    BY <1>1, <1>6, <2>1, KeptMoving DEF Stored, Storing
  <2>3. \A u \in Runs : u # t => Kept(u)'
    BY <1>1, <1>3, <1>6, KeptElsewhere DEF Stored
  <2> QED
    BY <1>6, <2>2, <2>3 DEF Stored
<1>7. CASE /\ rows' = rows \cup {Row(t, i) : i \in (item[t] + 1)..last}
           /\ item' = [item EXCEPT ![t] = last]
           /\ Goto(t, IF last = Len(chunks[t]) THEN "done" ELSE "execute")
  <2>1. pc'[t] = IF last = Len(chunks[t]) THEN "done" ELSE "execute"
    BY <1>7 DEF Goto, Flow
  <2>2. (pc'[t] = "done" /\ last = Len(chunks[t])) \/ (pc'[t] \in Storing /\ last # Len(chunks[t]))
    BY <2>1 DEF Storing
  <2> QED
    BY <1>1, <1>3, <1>5, <1>7, <2>2, MoreKept DEF Storing
<1> QED
  BY <1>2, <1>6, <1>7

LEMMA StoredInductive == Flow /\ Stored /\ [Next]_vars => Stored'
<1> SUFFICES ASSUME Flow, Stored, [Next]_vars PROVE Stored'
  OBVIOUS
<1>1. CASE \E t \in Runs : Quiet(t)
  <2>1. PICK t \in Runs : Quiet(t)
    BY <1>1
  <2>2. Step(t)
    BY <2>1, ActsStep DEF Quiet, Acts
  <2>3. UNCHANGED <<world, chunks, item, rows>> /\ Kept(t)'
    BY <2>1, QuietMoves, KeptMoving DEF Stored
  <2>4. \A u \in Runs : u # t => Kept(u)'
    BY <2>2, <2>3, ActsElsewhere, KeptElsewhere DEF Stored
  <2> QED
    BY <2>3, <2>4 DEF Stored
<1>2. CASE \E t \in Runs : ChunkStep(t) \/ Write(t) \/ Execute(t)
  BY <1>2, ChunkStored, WriteStored, ExecuteStored
<1>3. CASE \E t \in Runs : Asks(t)
  <2> PICK t \in Runs : Asks(t)
    BY <1>3
  <2>1. PICK b \in DOMAIN replies[t] : Send(t, b) \/ Reply(t, b)
    BY DEF Asks
  <2>2. UNCHANGED <<world, pc, chunks, item, rows>>
    BY <2>1, AsksFlow
  <2> QED
    BY <2>2, KeptElsewhere DEF Stored
<1>4. CASE Aside
  <2>1. UNCHANGED <<world, pc, chunks, item, rows>>
    BY <1>4 DEF Aside, Drop, Close, vars, embedding
  <2> QED
    BY <2>1, KeptElsewhere DEF Stored
<1> QED
  BY <1>1, <1>2, <1>3, <1>4, NextSplits DEF Acts, Quiet

LEMMA StoredAlways == Spec => []Stored
BY FlowAlways, StoredInitially, StoredInductive, PTL DEF Spec

(* When a run has succeeded, every chunk of it is a row that the index      *)
(* finds over whatever connection it has then, although two threads may     *)
(* have made one each, and the server may have dropped some (_execute of    *)
(* SqliteIndex, upsert of PgVectorIndex).                                   *)
THEOREM StoredIsFound == Spec => []StoredFound
<1>1. Flow /\ Stored => StoredFound
  <2> SUFFICES ASSUME Flow, Stored, world.index \in {"file", "pgvector"},
                      NEW t \in Runs, pc[t] = "done", NEW i \in DOMAIN chunks[t]
               PROVE  \E r \in rows : r[1] = Place(connection) /\ r[2] = t /\ r[3] = chunks[t][i]
    BY DEF StoredFound
  <2>1. chunks[t] \in Seq(Texts)
    BY ChunksHeld
  <2>2. item[t] = Len(chunks[t]) /\ \A k \in 1..item[t] : Found(t, k)
    BY DEF Stored, Kept
  <2>3. Found(t, i)
    BY <2>1, <2>2
  <2>4. Place(connection) = world.index
    BY DEF Place
  <2> QED
    BY <2>3, <2>4 DEF Found
<1> QED
  BY <1>1, FlowAlways, StoredAlways, PTL

-----------------------------------------------------------------------------
(***************************************************************************)
(* What is embedded.                                                       *)
(***************************************************************************)
Right(t, i) == VectorOf(t, chunks[t][i])

\* What is answered to a batch.
Answer(t, b) == [k \in DOMAIN Batch(t, b) |-> Right(t, Batch(t, b)[k])]

\* A place has its vector or is one of the missing ones, and every batch of
\* those that has been answered has the vectors of its texts.
Awaited(t) ==
  /\ missing[t] \in Seq(DOMAIN chunks[t]) /\ missing[t] # <<>>
  /\ \A i \in DOMAIN chunks[t] : vectors[t][i] = Right(t, i) \/ \E k \in DOMAIN missing[t] : missing[t][k] = i
  /\ vectors[t] = [i \in DOMAIN chunks[t] |-> vectors[t][i]]
  /\ replies[t] = [b \in 1..Ceil(Len(missing[t]), BatchSize) |-> replies[t][b]]
  /\ \A b \in DOMAIN replies[t] : replies[t][b] \in {Queued, Sent, Answer(t, b)}

\* Every chunk has its vector.
Complete(t) == \A i \in DOMAIN chunks[t] : vectors[t][i] = Right(t, i)

\* What must hold of a run by where it is.
Due(t) ==
  /\ pc[t] = "embed" => Awaited(t)
  /\ pc[t] \in Storing => Complete(t)

\* As long as the service answers for every input.
Embedded ==
  /\ \A e \in cached : e = <<e[1], e[1]>>
  /\ \A r \in rows : r[4] = VectorOf(r[2], r[3])
  /\ \A t \in Runs : Due(t)

\* The inductive invariant.
Whole == world.service = "whole" => Embedded

LEMMA EmbeddedInitially == Init => Whole
BY DEF Init, Whole, Embedded, Due, Storing

\* A run that is left alone keeps what is due.
LEMMA DueElsewhere ==
  ASSUME NEW u, Due(u), world' = world, pc'[u] = pc[u], chunks'[u] = chunks[u], vectors'[u] = vectors[u],
         missing'[u] = missing[u], replies'[u] = replies[u]
  PROVE  Due(u)'
<1>1. \A i : Right(u, i)' = Right(u, i)
  BY DEF Right, VectorOf
<1>2. \A b : Answer(u, b)' = Answer(u, b)
  BY DEF Answer, Batch, Right, VectorOf
<1>3. Awaited(u) => Awaited(u)'
  <2> SUFFICES ASSUME Awaited(u) PROVE Awaited(u)'
    OBVIOUS
  <2>1. /\ missing'[u] \in Seq(DOMAIN chunks'[u]) /\ missing'[u] # <<>>
        /\ vectors'[u] = [i \in DOMAIN chunks'[u] |-> vectors'[u][i]]
        /\ replies'[u] = [b \in 1..Ceil(Len(missing'[u]), BatchSize) |-> replies'[u][b]]
    BY DEF Awaited
  <2>2. \A i \in DOMAIN chunks'[u] : vectors'[u][i] = Right(u, i)' \/ \E k \in DOMAIN missing'[u] : missing'[u][k] = i
    <3>1. \A i \in DOMAIN chunks[u] : vectors[u][i] = Right(u, i) \/ \E k \in DOMAIN missing[u] : missing[u][k] = i
      BY DEF Awaited
    <3>2. \A i \in DOMAIN chunks[u] : vectors[u][i] = Right(u, i)' \/ \E k \in DOMAIN missing[u] : missing[u][k] = i
      BY <1>1, <3>1
    <3> QED
      BY <3>2
  <2>3. \A b \in DOMAIN replies'[u] : replies'[u][b] \in {Queued, Sent, Answer(u, b)'}
    BY <1>2 DEF Awaited
  <2> QED
    BY <2>1, <2>2, <2>3 DEF Awaited
<1>4. Complete(u) => Complete(u)'
  BY <1>1 DEF Complete
<1> QED
  BY <1>3, <1>4 DEF Due

\* No run touches what another one works on.
LEMMA StepElsewhere ==
  ASSUME Flow, NEW t \in Runs, Step(t), NEW u \in Runs, u # t
  PROVE  /\ world' = world /\ pc'[u] = pc[u] /\ chunks'[u] = chunks[u]
         /\ vectors'[u] = vectors[u] /\ missing'[u] = missing[u] /\ replies'[u] = replies[u]
<1>1. world' = world /\ pc'[u] = pc[u]
  BY DEF Flow, Step
<1>2. chunks'[u] = chunks[u]
  BY DEF Flow, Step
<1>3. vectors'[u] = vectors[u]
  BY DEF Flow, Step
<1>4. missing'[u] = missing[u]
  BY DEF Flow, Step
<1>5. replies'[u] = replies[u]
  BY DEF Flow, Step
<1> QED
  BY <1>1, <1>2, <1>3, <1>4, <1>5

\* Rows of the world stay right.
LEMMA RowsKept ==
  ASSUME Embedded, world' = world,
         \A r \in rows' : r \in rows \/ r[4] = VectorOf(r[2], r[3])
  PROVE  (\A r \in rows : r[4] = VectorOf(r[2], r[3]))'
BY DEF Embedded, VectorOf

\* Steps of a run that settle what is due of it.
LEMMA EmbeddedKept ==
  ASSUME Flow, Embedded, NEW t \in Runs, Step(t), Due(t)',
         \A e \in cached' : e = <<e[1], e[1]>>,
         \A r \in rows' : r \in rows \/ r[4] = VectorOf(r[2], r[3])
  PROVE  Embedded'
<1>1. ASSUME NEW u \in Runs, u # t PROVE Due(u)'
  BY <1>1, StepElsewhere, DueElsewhere DEF Embedded
<1>2. (\A r \in rows : r[4] = VectorOf(r[2], r[3]))'
  BY RowsKept DEF Step
<1>3. \A u \in Runs : Due(u)'
  BY <1>1
<1> QED
  BY <1>2, <1>3 DEF Embedded

\* Nothing is due of a run before its lookup,
LEMMA ChunkEmbedded ==
  ASSUME Flow, Embedded, NEW t \in Runs, ChunkStep(t)
  PROVE  Embedded'
<1>1. Step(t) /\ cached' = cached /\ rows' = rows
  BY ActsStep DEF Acts, ChunkStep
<1>2. pc'[t] \in {"done", "lookup"}
  BY DEF ChunkStep, Goto, Flow
<1>3. Due(t)'
  BY <1>2 DEF Due, Storing
<1> QED
  BY <1>1, <1>3, EmbeddedKept DEF Embedded

\* ... nor of one that has failed.
LEMMA FailEmbedded ==
  ASSUME Flow, Embedded, NEW t \in Runs, EmbedFails(t)
  PROVE  Embedded'
<1>1. Step(t) /\ cached' = cached /\ rows' = rows
  BY ActsStep DEF Acts, EmbedFails
<1>2. pc'[t] = "failed"
  BY DEF EmbedFails, Goto, Flow
<1>3. Due(t)'
  BY <1>2 DEF Due, Storing
<1> QED
  BY <1>1, <1>3, EmbeddedKept DEF Embedded

\* Rows are written with the vectors that were found or computed.
LEMMA StoreEmbedded ==
  ASSUME Flow, Stored, Embedded, NEW t \in Runs,
         Check(t) \/ Connect(t) \/ Use(t) \/ Write(t) \/ EnsureTable(t) \/ Acquire(t) \/ Connected(t) \/ Execute(t)
  PROVE  Embedded'
<1>1. Step(t) /\ Flow'
  BY ActsStep, FlowKept DEF Acts
<1>2. UNCHANGED <<world, chunks, vectors, missing, replies, cached>> /\ pc[t] \in Storing
  BY DEF Check, Connect, Use, Write, EnsureTable, Acquire, Connected, Execute, embedding, Storing
<1>3. Complete(t)
  BY <1>2 DEF Embedded, Due
<1>4. pc'[t] # "embed"
  BY DEF Check, Connect, Use, Write, EnsureTable, Acquire, Connected, Execute, Goto, Flow
<1>5. Due(t)'
  BY <1>2, <1>3, <1>4 DEF Due, Complete, Right, VectorOf
<1>6. \A r \in rows' : r \in rows \/ \E i \in DOMAIN chunks[t] : r = Row(t, i)
  <2>1. chunks[t] \in Seq(Texts) /\ item[t] \in Nat /\ item[t] < Len(chunks[t])
    BY <1>2, ChunksHeld DEF Stored, Kept
  <2>2. CASE Write(t)
    <3>1. item'[t] = item[t] + 1 /\ rows' = rows \cup {Row(t, item'[t])}
      BY <2>2 DEF Write, Stored
    <3>2. item'[t] \in DOMAIN chunks[t]
      BY <2>1, <3>1
    <3> QED
      BY <3>1, <3>2
  <2>3. CASE Execute(t)
    <3> DEFINE last == Min({item[t] + RowsPerInsert, Len(chunks[t])})
    <3>1. rows' = rows \/ rows' = rows \cup {Row(t, i) : i \in (item[t] + 1)..last}
      BY <2>3 DEF Execute
    <3>2. item[t] + RowsPerInsert \in Int /\ Len(chunks[t]) \in Int
      BY <2>1, TransformAssumption
    <3>3. last = IF item[t] + RowsPerInsert < Len(chunks[t]) THEN item[t] + RowsPerInsert ELSE Len(chunks[t])
      BY <3>2, MinOfTwo
    <3>4. last <= Len(chunks[t]) /\ last \in Int
      BY <3>2, <3>3
    <3> HIDE DEF last
    <3>5. \A i \in (item[t] + 1)..last : i \in DOMAIN chunks[t]
      BY <2>1, <3>4
    <3> QED
      BY <3>1, <3>5
  <2>4. CASE Check(t) \/ Connect(t) \/ Use(t) \/ EnsureTable(t) \/ Acquire(t) \/ Connected(t)
    <3>1. rows' = rows
      BY <2>4 DEF Check, Connect, Use, EnsureTable, Acquire, Connected
    <3> QED
      BY <3>1
  <2> QED
    BY <2>2, <2>3, <2>4
<1>7. \A i \in DOMAIN chunks[t] : Row(t, i)[4] = VectorOf(Row(t, i)[2], Row(t, i)[3])
  BY <1>3 DEF Complete, Right, Row
<1>8. \A r \in rows' : r \in rows \/ r[4] = VectorOf(r[2], r[3])
  BY <1>6, <1>7
<1> QED
  BY <1>1, <1>2, <1>5, <1>8, EmbeddedKept DEF Embedded

\* The parts of Lookup.
FoundFor(t, i) == IF world.cache = "file" THEN Known(t, i) ELSE {}

\* The chunks the cache does not have.
Misses(t) == {i \in DOMAIN chunks[t] : FoundFor(t, i) = {}}

\* What a lookup does when the cache can be opened.
LookedUp(t) ==
  /\ vectors' = [vectors EXCEPT ![t] =
       [i \in DOMAIN chunks[t] |-> IF FoundFor(t, i) = {} THEN Nothing ELSE CHOOSE v \in FoundFor(t, i) : TRUE]]
  /\ missing' = [missing EXCEPT ![t] = Ascending(Misses(t))]
  /\ replies' = [replies EXCEPT ![t] = NoReplies(Len(Ascending(Misses(t))))]
  /\ Goto(t, IF Ascending(Misses(t)) = <<>> THEN "write" ELSE "embed")

\* There is no third way.
LEMMA LookupParts ==
  ASSUME NEW t, Lookup(t)
  PROVE  Goto(t, "failed") \/ LookedUp(t)
BY Zenon DEF Lookup, LookedUp, Misses, FoundFor

\* A hit is the vector of the text.
LEMMA HitIsRight ==
  ASSUME Embedded, NEW t, NEW i, NEW v \in FoundFor(t, i)
  PROVE  v = Right(t, i)
<1>1. PICK e \in cached : e[1] = KeyOf(t, i) /\ v = e[2]
  BY DEF FoundFor, Known
<1>2. e[2] = e[1]
  <2>1. e = <<e[1], e[1]>>
    BY DEF Embedded
  <2> QED
    BY <2>1
<1> QED
  BY <1>1, <1>2 DEF KeyOf, CacheKey, Right, VectorOf

\* What is not found is missing.
LEMMA LookupEmbedded ==
  ASSUME Flow, Embedded, NEW t \in Runs, Lookup(t)
  PROVE  Embedded'
<1>1. Step(t) /\ cached' = cached /\ rows' = rows /\ chunks' = chunks /\ world' = world
  BY ActsStep DEF Acts, Lookup, embedding
<1>2. CASE Goto(t, "failed")
  <2>1. pc'[t] = "failed"
    BY <1>2 DEF Goto, Flow
  <2>2. Due(t)'
    BY <2>1 DEF Due, Storing
  <2> QED
    BY <1>1, <2>2, EmbeddedKept DEF Embedded
<1>3. CASE LookedUp(t)
  <2> DEFINE M == Misses(t)
             misses == Ascending(M)
             n == Len(chunks[t])
  <2>1. n \in Nat /\ DOMAIN chunks[t] = 1..n
    BY ChunksHeld
  <2>2. M \in SUBSET (1..n)
    BY <2>1 DEF Misses
  <2>3. misses \in Seq(M) /\ \A i \in M : \E k \in DOMAIN misses : misses[k] = i
    <3> HIDE DEF M, n
    <3> QED
      BY <2>1, <2>2, AscendingOrder
  <2>4. misses \in Seq(DOMAIN chunks[t])
    BY <2>1, <2>2, <2>3
  <2>5. /\ vectors'[t] = [i \in DOMAIN chunks[t] |->
                            IF FoundFor(t, i) = {} THEN Nothing ELSE CHOOSE v \in FoundFor(t, i) : TRUE]
        /\ missing'[t] = misses /\ replies'[t] = NoReplies(Len(misses))
        /\ pc'[t] = IF misses = <<>> THEN "write" ELSE "embed"
    BY <1>3 DEF LookedUp, Flow, Goto
  <2>6. ASSUME NEW i \in DOMAIN chunks[t], i \notin M PROVE vectors'[t][i] = Right(t, i)
    <3>1. FoundFor(t, i) # {}
      BY <2>6 DEF Misses
    <3>2. (CHOOSE v \in FoundFor(t, i) : TRUE) \in FoundFor(t, i)
      BY <3>1, Zenon
    <3>3. vectors'[t][i] = CHOOSE v \in FoundFor(t, i) : TRUE
      BY <2>5, <3>1
    <3> QED
      BY <3>2, <3>3, HitIsRight
  <2>7. \A i : Right(t, i)' = Right(t, i)
    BY <1>1 DEF Right, VectorOf
  <2> HIDE DEF M, misses, n
  <2>8. CASE misses = <<>>
    <3>1. M = {}
      BY <2>3, <2>8
    <3>2. \A i \in DOMAIN chunks[t] : vectors'[t][i] = Right(t, i)'
      BY <2>6, <2>7, <3>1
    <3>3. Complete(t)'
      BY <1>1, <3>2 DEF Complete
    <3>4. pc'[t] = "write"
      BY <2>5, <2>8
    <3>5. Due(t)'
      BY <3>3, <3>4 DEF Due
    <3> QED
      BY <1>1, <3>5, EmbeddedKept DEF Embedded
  <2>9. CASE misses # <<>>
    <3>1. \A i \in DOMAIN chunks[t] : vectors'[t][i] = Right(t, i)' \/ \E k \in DOMAIN missing'[t] : missing'[t][k] = i
      <4>1. \A i \in DOMAIN chunks[t] : vectors'[t][i] = Right(t, i) \/ \E k \in DOMAIN misses : misses[k] = i
        BY <2>3, <2>6
      <4>2. \A i \in DOMAIN chunks[t] : vectors'[t][i] = Right(t, i)' \/ \E k \in DOMAIN misses : misses[k] = i
        BY <2>7, <4>1
      <4> QED
        BY <2>5, <4>2
    <3>2. vectors'[t] = [i \in DOMAIN chunks[t] |-> vectors'[t][i]]
      BY <2>5
    <3>3. replies'[t] = [b \in 1..Ceil(Len(misses), BatchSize) |-> Queued]
      BY <2>5 DEF NoReplies
    <3>4. replies'[t] = [b \in 1..Ceil(Len(misses), BatchSize) |-> replies'[t][b]]
          /\ \A b \in DOMAIN replies'[t] : replies'[t][b] = Queued
      BY <3>3
    <3>5. Awaited(t)'
      BY <1>1, <2>4, <2>5, <2>9, <3>1, <3>2, <3>4 DEF Awaited
    <3>6. pc'[t] = "embed"
      BY <2>5, <2>9
    <3>7. Due(t)'
      BY <3>5, <3>6 DEF Due, Storing
    <3> QED
      BY <1>1, <3>7, EmbeddedKept DEF Embedded
  <2> QED
    BY <2>8, <2>9
<1> QED
  BY <1>2, <1>3, LookupParts

\* A batch that is sent, or answered rightly.
LEMMA AskEmbedded ==
  ASSUME Flow, Embedded, NEW t \in Runs, NEW b \in DOMAIN replies[t], NEW x \in {Sent, Answer(t, b)},
         UNCHANGED <<world, pc, chunks, vectors, missing, cached, rows>>,
         replies' = [replies EXCEPT ![t] = [replies[t] EXCEPT ![b] = x]]
  PROVE  Embedded'
<1>1. replies'[t] = [replies[t] EXCEPT ![b] = x] /\ \A u \in Runs : u # t => replies'[u] = replies[u]
  BY DEF Flow
<1>2. \A a : Answer(t, a)' = Answer(t, a)
  BY DEF Answer, Batch, Right, VectorOf
<1>3. \A i : Right(t, i)' = Right(t, i)
  BY DEF Right, VectorOf
<1>4. Due(t)'
  <2>1. Complete(t) => Complete(t)'
    BY <1>3 DEF Complete
  <2>2. Awaited(t) => Awaited(t)'
    <3> SUFFICES ASSUME Awaited(t) PROVE Awaited(t)'
      OBVIOUS
    <3>1. \A i \in DOMAIN chunks[t] : vectors[t][i] = Right(t, i) \/ \E k \in DOMAIN missing[t] : missing[t][k] = i
      BY DEF Awaited
    <3>2. \A i \in DOMAIN chunks[t] : vectors[t][i] = Right(t, i)' \/ \E k \in DOMAIN missing[t] : missing[t][k] = i
      BY <1>3, <3>1
    <3>3. replies[t] = [a \in 1..Ceil(Len(missing[t]), BatchSize) |-> replies[t][a]]
          /\ \A a \in DOMAIN replies[t] : replies[t][a] \in {Queued, Sent, Answer(t, a)}
      BY DEF Awaited
    <3>4. /\ DOMAIN replies'[t] = DOMAIN replies[t]
          /\ replies'[t] = [a \in 1..Ceil(Len(missing[t]), BatchSize) |-> replies'[t][a]]
      BY <1>1, <3>3
    <3>5. \A a \in DOMAIN replies'[t] : replies'[t][a] \in {Queued, Sent, Answer(t, a)'}
      <4>1. \A a \in DOMAIN replies'[t] : replies'[t][a] \in {Queued, Sent, Answer(t, a)}
        <5> SUFFICES ASSUME NEW a \in DOMAIN replies'[t] PROVE replies'[t][a] \in {Queued, Sent, Answer(t, a)}
          OBVIOUS
        <5>1. CASE a = b
          BY <1>1, <3>4, <5>1
        <5>2. CASE a # b
          <6>1. replies'[t][a] = replies[t][a] /\ a \in DOMAIN replies[t]
            BY <1>1, <3>4, <5>2
          <6> QED
            BY <3>3, <6>1
        <5> QED
          BY <5>1, <5>2
      <4> QED
        BY <1>2, <4>1
    <3> QED
      <4>1. missing'[t] = missing[t] /\ vectors'[t] = vectors[t] /\ chunks'[t] = chunks[t]
        OBVIOUS
      <4>2. missing[t] \in Seq(DOMAIN chunks[t]) /\ missing[t] # <<>>
            /\ vectors[t] = [i \in DOMAIN chunks[t] |-> vectors[t][i]]
        BY DEF Awaited
      <4> QED
        BY <3>2, <3>4, <3>5, <4>1, <4>2 DEF Awaited
  <2> QED
    BY <2>1, <2>2 DEF Due, Embedded
<1>5. ASSUME NEW u \in Runs, u # t PROVE Due(u)'
  BY <1>1, <1>5, DueElsewhere DEF Embedded
<1>6. (\A r \in rows : r[4] = VectorOf(r[2], r[3]))'
  BY RowsKept
<1>7. \A u \in Runs : Due(u)'
  BY <1>4, <1>5
<1> QED
  BY <1>6, <1>7 DEF Embedded


\* What is to be answered in all.
Want(t) == [k \in DOMAIN missing[t] |-> Right(t, missing[t][k])]

\* No batch is empty or goes beyond the end.
LEMMA BatchBounds ==
  ASSUME NEW n \in Nat \ {0}, NEW d \in Nat \ {0}, NEW b \in 1..Ceil(n, d)
  PROVE  (b - 1) * d + 1 \in 1..n /\ Min({b * d, n}) \in ((b - 1) * d + 1)..n
<1> DEFINE count == Ceil(n, d)
<1>1. count \in Nat \ {0} /\ count * d >= n /\ (count - 1) * d < n
  BY Ceiling
<1> HIDE DEF count
<1>2. b - 1 \in Nat /\ count - 1 \in Nat /\ b - 1 <= count - 1 /\ b \in Nat
  BY <1>1 DEF count
<1>3. (b - 1) * d \in Nat /\ (count - 1) * d \in Nat /\ (b - 1) * d <= (count - 1) * d
  BY <1>2, Products
<1>4. b * d = (b - 1) * d + d /\ b * d \in Nat
  BY <1>2
<1>5. Min({b * d, n}) = IF b * d < n THEN b * d ELSE n
  BY <1>4, MinOfTwo
<1> QED
  BY <1>1, <1>3, <1>4, <1>5

\* A batch asks for places of the run, and is answered its part of the whole.
LEMMA BatchPlaces ==
  ASSUME NEW t, NEW n \in Nat, missing[t] \in Seq(1..n), missing[t] # <<>>,
         NEW b \in 1..Ceil(Len(missing[t]), BatchSize)
  PROVE  /\ Batch(t, b) \in Seq(1..n)
         /\ Answer(t, b) = SubSeq(Want(t), (b - 1) * BatchSize + 1, Min({b * BatchSize, Len(missing[t])}))
<1> DEFINE lo == (b - 1) * BatchSize + 1
           hi == Min({b * BatchSize, Len(missing[t])})
           value == [i \in 1..n |-> Right(t, i)]
           s == missing[t]
<1>1. s \in Seq(1..n) /\ Len(s) \in Nat \ {0} /\ BatchSize \in Nat \ {0}
  BY TransformAssumption
<1>2. lo \in 1..Len(s) /\ hi \in lo..Len(s)
  BY <1>1, BatchBounds
<1>3. Batch(t, b) = SubSeq(s, lo, hi)
  BY DEF Batch
<1>4. \A i \in 1..n : value[i] = Right(t, i)
  OBVIOUS
<1> HIDE DEF lo, hi, value, s
<1>5. /\ SubSeq(s, lo, hi) \in Seq(1..n)
      /\ [k \in DOMAIN SubSeq(s, lo, hi) |-> value[SubSeq(s, lo, hi)[k]]]
         = SubSeq([k \in DOMAIN s |-> value[s[k]]], lo, hi)
  <2> DEFINE X == 1..n
  <2>1. s \in Seq(X)
    BY <1>1
  <2> HIDE DEF X
  <2>2. /\ SubSeq(s, lo, hi) \in Seq(X)
        /\ [k \in DOMAIN SubSeq(s, lo, hi) |-> value[SubSeq(s, lo, hi)[k]]]
           = SubSeq([k \in DOMAIN s |-> value[s[k]]], lo, hi)
    BY <1>2, <2>1
  <2> QED
    BY <2>2 DEF X
<1>6. Want(t) = [k \in DOMAIN s |-> value[s[k]]]
  <2>1. \A k \in DOMAIN s : s[k] \in 1..n
    BY <1>1
  <2>2. \A k \in DOMAIN s : value[s[k]] = Right(t, s[k])
    BY <1>4, <2>1
  <2> QED
    BY <2>2, Zenon DEF Want, s
<1>7. Answer(t, b) = [k \in DOMAIN Batch(t, b) |-> value[Batch(t, b)[k]]]
  <2>0. \A k \in DOMAIN Batch(t, b) : Batch(t, b)[k] \in 1..n
    <3> DEFINE places == Batch(t, b)
    <3>1. places \in Seq(1..n)
      BY <1>3, <1>5
    <3> HIDE DEF places
    <3>2. \A k \in DOMAIN places : places[k] \in 1..n
      BY <3>1
    <3> QED
      BY <3>2 DEF places
  <2>1. \A k \in DOMAIN Batch(t, b) : value[Batch(t, b)[k]] = Right(t, Batch(t, b)[k])
    BY <1>4, <2>0
  <2> QED
    BY <2>1, Zenon DEF Answer
<1> QED
  BY <1>3, <1>5, <1>6, <1>7 DEF lo, hi, s

\* A request is sent.
LEMMA SendEmbedded ==
  ASSUME Flow, Embedded, NEW t \in Runs, NEW b \in DOMAIN replies[t], Send(t, b)
  PROVE  Embedded'
<1>1. replies' = [replies EXCEPT ![t] = [replies[t] EXCEPT ![b] = Sent]]
      /\ UNCHANGED <<world, pc, chunks, vectors, missing, cached, rows>>
  BY AsksFlow DEF Send
<1> QED
  BY <1>1, AskEmbedded

\* A reply in any order is the right answer.
LEMMA ReplyEmbedded ==
  ASSUME Flow, Embedded, world.service = "whole", NEW t \in Runs, NEW b \in DOMAIN replies[t], Reply(t, b)
  PROVE  Embedded'
<1> DEFINE places == Batch(t, b)
           n == Len(places)
           want == [k \in 1..n |-> Right(t, places[k])]
           entry(order, k) == [index |-> order[k], embedding |-> VectorOf(t, chunks[t][places[order[k]]])]
<1>1. UNCHANGED <<world, pc, chunks, vectors, missing, cached, rows>> /\ pc[t] = "embed"
  BY AsksFlow DEF Reply
<1>2. Awaited(t)
  BY <1>1 DEF Embedded, Due
<1>3. n \in Nat /\ DOMAIN places = 1..n
  <2>1. DOMAIN chunks[t] = 1..Len(chunks[t]) /\ Len(chunks[t]) \in Nat
    BY ChunksHeld
  <2>2. b \in 1..Ceil(Len(missing[t]), BatchSize) /\ missing[t] # <<>> /\ missing[t] \in Seq(1..Len(chunks[t]))
    BY <1>2, <2>1 DEF Awaited
  <2>3. places \in Seq(1..Len(chunks[t]))
    BY <2>1, <2>2, BatchPlaces
  <2> HIDE DEF places
  <2> QED
    BY <2>3
<1>4. PICK order \in SetToSeqs(1..n) :
        replies' = [replies EXCEPT ![t][b] = Sorted([k \in 1..(n - 0) |-> entry(order, k)])]
  BY Zenon DEF Reply
<1> DEFINE entries == [k \in 1..n |-> entry(order, k)]
<1>5. replies' = [replies EXCEPT ![t] = [replies[t] EXCEPT ![b] = Sorted(entries)]]
  <2>1. n - 0 = n
    BY <1>3
  <2> QED
    BY <1>4, <2>1
<1>6. DOMAIN entries = 1..n /\ \A k \in 1..n : entries[k].index = order[k] /\ entries[k].embedding = want[order[k]]
  <2>1. order \in [1..n -> 1..n]
    <3>1. 1 \in Int /\ n \in Int
      BY <1>3
    <3>2. Cardinality(1..n) = IF 1 > n THEN 0 ELSE n - 1 + 1
      BY <3>1, FS_Interval, Zenon
    <3>3. Cardinality(1..n) = n
      BY <1>3, <3>2
    <3> QED
      BY <1>4, <3>3 DEF SetToSeqs
  <2>2. \A k \in 1..n : want[order[k]] = VectorOf(t, chunks[t][places[order[k]]])
    BY <2>1 DEF Right
  <2> HIDE DEF want, n, places
  <2> QED
    BY <2>2
<1>7. Sorted(entries) = Answer(t, b)
  <2>1. Sorted(entries) = [k \in 1..n |-> want[k]]
    <3>1. n \in Nat /\ order \in SetToSeqs(1..n)
      BY <1>3
    <3> HIDE DEF entries, want, n
    <3> QED
      BY <1>6, <3>1, SortedReply
  <2>2. Answer(t, b) = [k \in 1..n |-> Right(t, places[k])]
    BY <1>3 DEF Answer
  <2>3. \A k \in 1..n : want[k] = Right(t, places[k])
    OBVIOUS
  <2> HIDE DEF want, n, places, entries
  <2> QED
    BY <2>1, <2>2, <2>3
<1> HIDE DEF entries
<1> QED
  BY <1>1, <1>5, <1>7, AskEmbedded

\* The parts of Gather.
Computed(t) == FlattenSeq(replies[t])

\* The missing places whose text has a key.
KeyedBy(t, key) == {k \in 1..Min({Len(Computed(t)), Len(missing[t])}) : KeyOf(t, missing[t][k]) = key}

\* A cached entry is an old one, or that of the last place with its key.
LEMMA GatherParts ==
  ASSUME NEW t, Gather(t)
  PROVE  /\ vectors' = [vectors EXCEPT ![t] =
              [i \in DOMAIN vectors[t] |->
                 IF \E k \in 1..Min({Len(Computed(t)), Len(missing[t])}) : missing[t][k] = i
                   THEN Computed(t)[CHOOSE k \in 1..Min({Len(Computed(t)), Len(missing[t])}) : missing[t][k] = i]
                   ELSE vectors[t][i]]]
         /\ \A e \in cached' :
              \/ e \in cached
              \/ \E key : KeyedBy(t, key) # {} /\ e = <<key, Computed(t)[Max(KeyedBy(t, key))]>>
         /\ Goto(t, IF Len(Computed(t)) = Len(missing[t]) THEN "write" ELSE "failed")
<1> DEFINE paired == 1..Min({Len(Computed(t)), Len(missing[t])})
           keys == {KeyOf(t, missing[t][k]) : k \in paired}
           entry(key) == <<key, Computed(t)[Max({k \in paired : KeyOf(t, missing[t][k]) = key})]>>
<1>1. /\ vectors' = [vectors EXCEPT ![t] =
              [i \in DOMAIN vectors[t] |->
                 IF \E k \in paired : missing[t][k] = i
                   THEN Computed(t)[CHOOSE k \in paired : missing[t][k] = i] ELSE vectors[t][i]]]
      /\ Goto(t, IF Len(Computed(t)) = Len(missing[t]) THEN "write" ELSE "failed")
  BY Zenon DEF Gather, Computed
<1>2. cached' = IF world.cache # "file" THEN cached
                ELSE {e \in cached : e[1] \notin keys} \cup {entry(key) : key \in keys}
  BY Zenon DEF Gather, Computed
<1>3. \A key \in keys : KeyedBy(t, key) # {} /\ entry(key) = <<key, Computed(t)[Max(KeyedBy(t, key))]>>
  BY Zenon DEF KeyedBy
<1> HIDE DEF entry, keys
<1>4. \A e \in cached' : e \in cached \/ \E key \in keys : e = entry(key)
  BY <1>2
<1> QED
  BY <1>1, <1>3, <1>4, Zenon

\* With every batch answered, every missing place has its vector.
LEMMA ComputedRight ==
  ASSUME Flow, NEW t \in Runs, Awaited(t), \A b \in DOMAIN replies[t] : replies[t][b] \notin {Queued, Sent}
  PROVE  /\ Len(missing[t]) \in Nat \ {0} /\ DOMAIN missing[t] = 1..Len(missing[t])
         /\ Len(Computed(t)) = Len(missing[t])
         /\ \A k \in 1..Len(missing[t]) : Computed(t)[k] = Right(t, missing[t][k])
<1> DEFINE n == Len(chunks[t])
           m == Len(missing[t])
           count == Ceil(m, BatchSize)
           X == {Right(t, i) : i \in 1..n}
<1>1. n \in Nat /\ DOMAIN chunks[t] = 1..n
  BY ChunksHeld
<1>2. missing[t] \in Seq(1..n) /\ missing[t] # <<>>
  BY <1>1 DEF Awaited
<1>3. m \in Nat \ {0} /\ DOMAIN missing[t] = 1..m /\ \A k \in 1..m : missing[t][k] \in 1..n
  BY <1>2
<1>4. BatchSize \in Nat \ {0}
  BY TransformAssumption
<1>5. replies[t] = [b \in 1..count |-> replies[t][b]] /\ \A b \in 1..count : replies[t][b] = Answer(t, b)
  BY DEF Awaited
<1>6. count \in Nat \ {0}
  BY <1>3, <1>4, Ceiling
<1> HIDE DEF n, m, count
<1>7. Len(replies[t]) = count
  BY <1>5, <1>6
<1> DEFINE want == Want(t)
<1>8. want = [k \in 1..m |-> Right(t, missing[t][k])]
  BY <1>3 DEF Want
<1>9. want \in Seq(X) /\ Len(want) = m /\ want # <<>>
  <2>1. \A k \in 1..m : Right(t, missing[t][k]) \in X
    BY <1>3
  <2> HIDE DEF X, want
  <2>2. want \in [1..m -> X]
    BY <1>8, <2>1
  <2> QED
    BY <1>3, <2>2
<1>10. \A b \in 1..count : replies[t][b] = SubSeq(want, (b - 1) * BatchSize + 1, Min({b * BatchSize, m}))
  <2>1. \A b \in 1..count : Answer(t, b) = SubSeq(want, (b - 1) * BatchSize + 1, Min({b * BatchSize, m}))
    BY <1>1, <1>2, BatchPlaces DEF count, m
  <2> QED
    BY <1>5, <2>1
<1>11. Computed(t) = want
  <2> HIDE DEF want, X
  <2>1. /\ Len(replies[t]) = Ceil(Len(want), BatchSize)
        /\ \A b \in 1..Ceil(Len(want), BatchSize) :
             replies[t][b] = SubSeq(want, (b - 1) * BatchSize + 1, Min({b * BatchSize, Len(want)}))
    BY <1>7, <1>9, <1>10 DEF count
  <2>2. FlattenSeq(replies[t]) = want
    BY <1>4, <1>9, <2>1, BatchesTogether
  <2> QED
    BY <2>2 DEF Computed
<1> HIDE DEF want
<1> QED
  BY <1>3, <1>8, <1>9, <1>11 DEF m

\* So what gather returns goes to its places and into the cache.
LEMMA GatherEmbedded ==
  ASSUME Flow, Embedded, NEW t \in Runs, Gather(t)
  PROVE  Embedded'
<1> DEFINE m == Len(missing[t])
           paired == 1..Min({Len(Computed(t)), Len(missing[t])})
<1>1. Step(t) /\ UNCHANGED <<world, chunks, missing, rows>> /\ pc[t] = "embed"
      /\ \A b \in DOMAIN replies[t] : replies[t][b] \notin {Queued, Sent}
  BY ActsStep DEF Acts, Gather
<1>2. Awaited(t)
  BY <1>1 DEF Embedded, Due
<1>3. /\ m \in Nat \ {0} /\ DOMAIN missing[t] = 1..m /\ Len(Computed(t)) = m
      /\ \A k \in 1..m : Computed(t)[k] = Right(t, missing[t][k])
  BY <1>1, <1>2, ComputedRight
<1>4. paired = 1..m
  <2>1. Min({m, m}) = m
    BY <1>3, MinOfTwo
  <2> QED
    BY <1>3, <2>1
<1>5. pc'[t] = "write"
  BY <1>3, GatherParts DEF Goto, Flow
<1> DEFINE at(i) == CHOOSE k \in paired : missing[t][k] = i
<1>6. DOMAIN vectors[t] = DOMAIN chunks[t]
  BY <1>2 DEF Awaited
<1>7. vectors'[t] = [i \in DOMAIN chunks[t] |->
                       IF \E k \in paired : missing[t][k] = i THEN Computed(t)[at(i)] ELSE vectors[t][i]]
  <2> DEFINE F == [i \in DOMAIN vectors[t] |->
                     IF \E k \in paired : missing[t][k] = i THEN Computed(t)[at(i)] ELSE vectors[t][i]]
  <2>1. vectors' = [vectors EXCEPT ![t] = F]
    BY GatherParts, Zenon
  <2> HIDE DEF F
  <2>2. vectors'[t] = F
    BY <2>1 DEF Flow
  <2> QED
    BY <1>6, <2>2, Zenon DEF F
<1>8. ASSUME NEW i \in DOMAIN chunks[t] PROVE vectors'[t][i] = Right(t, i)
  <2>1. CASE \E k \in paired : missing[t][k] = i
    <3>1. at(i) \in paired /\ missing[t][at(i)] = i
      BY <2>1, Zenon
    <3>2. vectors'[t][i] = Computed(t)[at(i)]
      BY <1>7, <2>1, Zenon
    <3> HIDE DEF at, paired, m
    <3>3. Computed(t)[at(i)] = Right(t, missing[t][at(i)])
      BY <1>3, <1>4, <3>1
    <3> QED
      BY <3>1, <3>2, <3>3
  <2>2. CASE ~\E k \in paired : missing[t][k] = i
    <3>1. vectors'[t][i] = vectors[t][i]
      BY <1>7, <2>2, Zenon
    <3>2. ~\E k \in DOMAIN missing[t] : missing[t][k] = i
      BY <1>3, <1>4, <2>2
    <3> QED
      BY <1>2, <3>1, <3>2 DEF Awaited
  <2> QED
    BY <2>1, <2>2
<1>9. Complete(t)'
  BY <1>1, <1>8 DEF Complete, Right, VectorOf
<1>10. Due(t)'
  BY <1>5, <1>9 DEF Due
<1>11. ASSUME NEW e \in cached' PROVE e = <<e[1], e[1]>>
  <2>1. CASE e \in cached
    BY <2>1 DEF Embedded
  <2>2. CASE \E key : KeyedBy(t, key) # {} /\ e = <<key, Computed(t)[Max(KeyedBy(t, key))]>>
    <3>1. PICK key : KeyedBy(t, key) # {} /\ e = <<key, Computed(t)[Max(KeyedBy(t, key))]>>
      BY <2>2
    <3> DEFINE last == Max(KeyedBy(t, key))
    <3>2. last \in KeyedBy(t, key)
      <4>1. KeyedBy(t, key) \in SUBSET (0..m)
        <5>1. \A k \in KeyedBy(t, key) : k \in 1..m
          BY <1>4 DEF KeyedBy
        <5> HIDE DEF m
        <5>2. \A k \in KeyedBy(t, key) : k \in 0..m
          BY <1>3, <5>1
        <5> QED
          BY <5>2
      <4> HIDE DEF m
      <4> QED
        BY <1>3, <3>1, <4>1, GreatestNumber
    <3>3. last \in 1..m /\ KeyOf(t, missing[t][last]) = key
      BY <1>4, <3>2 DEF KeyedBy
    <3>4. Computed(t)[last] = key
      BY <1>3, <3>3 DEF Right, KeyOf, CacheKey, VectorOf
    <3> HIDE DEF last
    <3>5. e = <<key, key>>
      BY <3>1, <3>4 DEF last
    <3> QED
      BY <3>5
  <2> QED
    BY <2>1, <2>2, GatherParts
<1>12. \A r \in rows' : r \in rows \/ r[4] = VectorOf(r[2], r[3])
  BY <1>1
<1> QED
  BY <1>1, <1>10, <1>11, <1>12, EmbeddedKept

\* Every step keeps it.
LEMMA EmbeddedInductive == Flow /\ Stored /\ Whole /\ [Next]_vars => Whole'
<1> SUFFICES ASSUME Flow, Stored, Whole, [Next]_vars, (world.service = "whole")' PROVE Embedded'
  BY DEF Whole
<1>1. CASE \E t \in Runs : Acts(t)
  <2>1. PICK t \in Runs : Acts(t)
    BY <1>1
  <2>2. Step(t)
    BY <2>1, ActsStep
  <2>3. world.service = "whole" /\ Embedded
    BY <2>2 DEF Step, Whole
  <2> QED
    BY <2>1, <2>3, ChunkEmbedded, LookupEmbedded, FailEmbedded, GatherEmbedded, StoreEmbedded DEF Acts
<1>2. CASE \E t \in Runs : Asks(t)
  <2> PICK t \in Runs : Asks(t)
    BY <1>2
  <2>1. PICK b \in DOMAIN replies[t] : Send(t, b) \/ Reply(t, b)
    BY DEF Asks
  <2>2. world.service = "whole" /\ Embedded
    BY <2>1, AsksFlow DEF Whole
  <2> QED
    BY <2>1, <2>2, SendEmbedded, ReplyEmbedded
<1>3. CASE Aside
  <2>1. UNCHANGED <<world, pc, chunks, vectors, missing, replies, cached, rows>>
    BY <1>3 DEF Aside, Drop, Close, vars, embedding
  <2>2. Embedded
    BY <2>1 DEF Whole
  <2>3. \A u \in Runs : Due(u)'
    BY <2>1, <2>2, DueElsewhere DEF Embedded
  <2>4. (\A r \in rows : r[4] = VectorOf(r[2], r[3]))'
    BY <2>1, <2>2, RowsKept
  <2> QED
    BY <2>1, <2>2, <2>3, <2>4 DEF Embedded
<1> QED
  BY <1>1, <1>2, <1>3, NextSplits

(* With a service that answers for every input, a row has the vector of its *)
(* own text by its own model: through cache hits, batches that come back in *)
(* any order, texts that occur twice, and a cache file for several models   *)
(* (CachingEmbedder.embed_batch, ApiEmbedder).                              *)
THEOREM VectorsRight == Spec => []VectorsFollow
<1>1. Init => Whole
  BY EmbeddedInitially
<1>2. Whole => VectorsFollow
  BY DEF Whole, Embedded, VectorsFollow
<1> QED
  BY <1>1, <1>2, FlowAlways, StoredAlways, EmbeddedInductive, PTL DEF Spec

-----------------------------------------------------------------------------
(***************************************************************************)
(* The PostgreSQL connection.                                              *)
(***************************************************************************)
\* What the variables of the connection hold.
Connections ==
  /\ pc \in [Runs -> Stops]
  /\ made \in Nat
  /\ connection \in (1..made) \cup {Nothing}
  /\ have \in [Runs -> (1..made) \cup {Nothing}]
  /\ opened \subseteq 1..made
  /\ noticed \subseteq (1..made) \cup {Nothing}

\* A connection known not to work does not; whoever connects holds the lock,
\* and no connection works then; the one that works is the index's own.
Guarded ==
  /\ noticed \cap opened = {}
  /\ Pg => opened \subseteq {connection}
  /\ \A t \in Runs : pc[t] = "connecting" => lock = t /\ (Pg => opened = {})

\* The inductive invariant of the connection.
CInv == Connections /\ Guarded

LEMMA ConnectionInitially == Init => CInv
BY DEF Init, CInv, Connections, Guarded, Stops

\* The steps that touch no connection, and send nobody to connect.
LEMMA Untouched ==
  ASSUME CInv, UNCHANGED <<world, connection, have, opened, noticed, made, lock>>,
         pc' \in [Runs -> Stops],
         \A t \in Runs : pc'[t] = "connecting" => pc[t] = "connecting"
  PROVE  CInv'
BY DEF CInv, Connections, Guarded, Pg

\* A run that does not go to connect.
LEMMA Elsewhere ==
  ASSUME CInv, NEW t \in Runs, NEW there \in Stops \ {"connecting"}, Goto(t, there)
  PROVE  /\ pc' \in [Runs -> Stops]
         /\ \A u \in Runs : pc'[u] = "connecting" => pc[u] = "connecting"
         /\ pc'[t] = there
         /\ \A u \in Runs : u # t => pc'[u] = pc[u]
BY DEF CInv, Connections, Goto

\* Chunks, vectors, rows of SQLite and the dimensions.
LEMMA TransformSteps ==
  ASSUME CInv, NEW t \in Runs,
         ChunkStep(t) \/ Lookup(t) \/ EmbedFails(t) \/ Gather(t) \/ Check(t) \/ Write(t) \/ EnsureTable(t)
  PROVE  CInv'
<1> USE DEF Stops, store, embedding
<1>1. CASE ChunkStep(t)
  BY <1>1, Elsewhere, Untouched DEF ChunkStep
<1>2. CASE Lookup(t)
  BY <1>2, Elsewhere, Untouched DEF Lookup
<1>3. CASE EmbedFails(t)
  BY <1>3, Elsewhere, Untouched DEF EmbedFails
<1>4. CASE Gather(t)
  BY <1>4, Elsewhere, Untouched DEF Gather
<1>5. CASE Check(t)
  BY <1>5, Elsewhere, Untouched DEF Check
<1>6. CASE Write(t)
  BY <1>6, Elsewhere, Untouched DEF Write
<1>7. CASE EnsureTable(t)
  BY <1>7, Elsewhere, Untouched DEF EnsureTable
<1> QED
  BY <1>1, <1>2, <1>3, <1>4, <1>5, <1>6, <1>7

\* Requests of the embedder.
LEMMA RequestSteps ==
  ASSUME CInv, NEW t \in Runs, NEW b, Send(t, b) \/ Reply(t, b)
  PROVE  CInv'
<1>1. UNCHANGED <<world, pc, connection, have, opened, noticed, made, lock>>
  BY DEF Send, Reply, store
<1> QED
  BY <1>1, Untouched DEF CInv, Connections

\* Connections of SQLite are no connections of PostgreSQL.
LEMMA SqliteSteps ==
  ASSUME CInv, NEW t \in Runs, Connect(t) \/ Use(t)
  PROVE  CInv'
<1> USE TransformAssumption DEF CInv, Connections, Guarded, Stops
<1>1. ~Pg /\ world' = world
  BY DEF Connect, Use, Pg, Sqlite
<1>2. ~Pg'
  BY <1>1 DEF Pg
<1>3. CASE Connect(t)
  <2>1. /\ pc' \in [Runs -> Stops]
        /\ \A u \in Runs : pc'[u] = "connecting" => pc[u] = "connecting"
    BY <1>3, Elsewhere DEF Connect
  <2>2. made + 1 \notin noticed /\ made + 1 \in Nat
    BY DEF Connections
  <2> QED
    BY <1>1, <1>2, <1>3, <2>1, <2>2 DEF Connect
<1>4. CASE Use(t)
  <2>1. /\ pc' \in [Runs -> Stops]
        /\ \A u \in Runs : pc'[u] = "connecting" => pc[u] = "connecting"
    BY <1>4, Elsewhere DEF Use
  <2> QED
    BY <1>1, <1>2, <1>4, <2>1 DEF Use
<1> QED
  BY <1>3, <1>4

\* Whoever finds no connection holds the lock.
LEMMA AcquireStep ==
  ASSUME CInv, NEW t \in Runs, Acquire(t)
  PROVE  CInv'
<1> USE TransformAssumption DEF CInv, Connections, Guarded, Stops
<1>1. /\ Pg /\ Pg' /\ lock = Nothing
      /\ UNCHANGED <<connection, opened, noticed, made>>
  BY DEF Acquire, Pg
<1>2. \A u \in Runs : pc[u] # "connecting"
  BY <1>1
<1>3. CASE connection = Nothing \/ connection \in noticed
  <2>1. opened = {}
    BY <1>1, <1>3
  <2>2. pc' = [pc EXCEPT ![t] = "connecting"] /\ lock' = t /\ have' = have
    BY <1>3 DEF Acquire, Goto
  <2> QED
    BY <1>1, <1>2, <2>1, <2>2
<1>4. CASE ~(connection = Nothing \/ connection \in noticed)
  <2>1. pc' = [pc EXCEPT ![t] = "execute"] /\ have' = [have EXCEPT ![t] = connection]
    BY <1>4 DEF Acquire, Goto
  <2> QED
    BY <1>1, <1>2, <2>1
<1> QED
  BY <1>3, <1>4

\* The only run that connects has connected, or failed.
LEMMA ConnectedStep ==
  ASSUME CInv, NEW t \in Runs, Connected(t)
  PROVE  CInv'
<1> USE TransformAssumption DEF CInv, Connections, Guarded, Stops
<1>1. Pg /\ Pg' /\ pc[t] = "connecting" /\ opened = {} /\ noticed' = noticed
  BY DEF Connected, Pg
<1>2. \A u \in Runs : u # t => pc[u] # "connecting"
  BY <1>1
<1>3. CASE /\ made' = made + 1 /\ connection' = made' /\ opened' = opened \cup {made'}
           /\ have' = [have EXCEPT ![t] = made']
           /\ Goto(t, "execute")
  <2>1. pc' = [pc EXCEPT ![t] = "execute"] /\ opened' = {made + 1} /\ connection' = made + 1
    BY <1>1, <1>3 DEF Goto
  <2>2. made + 1 \notin noticed /\ made + 1 \in Nat
    OBVIOUS
  <2>3. \A u \in Runs : pc'[u] # "connecting"
    BY <1>2, <2>1
  <2>4. Connections'
    BY <1>1, <1>3, <2>1, <2>2
  <2> QED
    BY <1>1, <2>1, <2>2, <2>3, <2>4
<1>4. CASE Goto(t, "failed") /\ UNCHANGED <<made, connection, opened, have>>
  <2>1. pc' = [pc EXCEPT ![t] = "failed"]
    BY <1>4 DEF Goto
  <2> QED
    BY <1>1, <1>2, <1>4, <2>1
<1> QED
  BY <1>3, <1>4 DEF Connected

\* A statement that fails tells that the connection does not work.
LEMMA ExecuteStep ==
  ASSUME CInv, NEW t \in Runs, Execute(t)
  PROVE  CInv'
<1>1. /\ Pg /\ UNCHANGED <<world, connection, have, opened, made, lock>>
      /\ \/ noticed' = noticed
         \/ have[t] \notin opened /\ noticed' = noticed \cup {have[t]}
  BY DEF Execute
<1>2. /\ pc' \in [Runs -> Stops]
      /\ \A u \in Runs : pc'[u] = "connecting" => pc[u] = "connecting"
  BY Elsewhere DEF Execute, Stops
<1>3. have[t] \in (1..made) \cup {Nothing}
  BY DEF CInv, Connections
<1> QED
  BY <1>1, <1>2, <1>3 DEF CInv, Connections, Guarded, Pg

LEMMA ConnectionInductive == CInv /\ [Next]_vars => CInv'
<1> SUFFICES ASSUME CInv, [Next]_vars PROVE CInv'
  OBVIOUS
<1>1. CASE \E t \in Runs : ChunkStep(t) \/ Lookup(t) \/ EmbedFails(t) \/ Gather(t)
                           \/ Check(t) \/ Write(t) \/ EnsureTable(t)
  BY <1>1, TransformSteps
<1>2. CASE \E t \in Runs : \E b \in DOMAIN replies[t] : Send(t, b) \/ Reply(t, b)
  BY <1>2, RequestSteps
<1>3. CASE \E t \in Runs : Connect(t) \/ Use(t)
  BY <1>3, SqliteSteps
<1>4. CASE \E t \in Runs : Acquire(t)
  BY <1>4, AcquireStep
<1>5. CASE \E t \in Runs : Connected(t)
  BY <1>5, ConnectedStep
<1>6. CASE \E t \in Runs : Execute(t)
  BY <1>6, ExecuteStep
<1>7. CASE Drop
  BY <1>7 DEF Drop, CInv, Connections, Guarded, Pg, embedding
<1>8. CASE Close
  BY <1>8 DEF Close, CInv, Connections, Guarded, Pg, Over, embedding
<1>9. CASE UNCHANGED vars
  BY <1>9, Untouched DEF vars, store, CInv, Connections
<1> QED
  BY <1>1, <1>2, <1>3, <1>4, <1>5, <1>6, <1>7, <1>8, <1>9 DEF Next, Ended

LEMMA ConnectionAlways == Spec => []CInv
BY ConnectionInitially, ConnectionInductive, PTL DEF Spec

(* However many pipelines share a PgVectorIndex and whatever the server     *)
(* drops, one connection works at a time, and none after aclose             *)
(* (_get_connection under its lock, aclose).                                *)
THEOREM SharedConnection == Spec => []OneConnection
<1>1. CInv => OneConnection
  <2> SUFFICES ASSUME CInv, Pg PROVE Cardinality(opened) <= 1 /\ (connection = Nothing => opened = {})
    BY DEF OneConnection
  <2>1. opened \subseteq {connection}
    BY DEF CInv, Guarded
  <2>2. opened = {} \/ opened = {connection}
    BY <2>1
  <2>3. Cardinality(opened) \in {0, 1}
    BY <2>2, FS_EmptySet, FS_Singleton
  <2>4. connection = Nothing => opened = {}
    BY <2>1, TransformAssumption DEF CInv, Connections
  <2> QED
    BY <2>3, <2>4
<1> QED
  BY <1>1, ConnectionAlways, PTL
=============================================================================
