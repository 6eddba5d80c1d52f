--------------------------- MODULE ChunkingProofs ---------------------------
(***************************************************************************)
(* For any target, any sizes and any documents: no chunk is too long or    *)
(* blank, together the chunks hold the text of the document, all of it,    *)
(* once and in order, a chunk of HTML carries the nearest heading, and in  *)
(* one of a handbook nothing long stands before a heading.  What the       *)
(* chunkers do step by step is followed by induction over the position     *)
(* they have reached (Recursion).                                          *)
(***************************************************************************)
EXTENDS Chunking, Recursion, FiniteSetTheorems, SequenceTheorems, TLAPS

(***************************************************************************)
(* Texts.                                                                  *)
(***************************************************************************)

Letter == (Nat \ {0}) \X Nat \X BOOLEAN
Char == Letter \cup {Space}

\* Spaces stand one by one, and between letters.
Tidy(text) ==
    \A k \in 1 .. Len(text) : text[k] = Space =>
        /\ k > 1 /\ text[k - 1] # Space
        /\ k < Len(text) /\ text[k + 1] # Space

Texts == {text \in Seq(Char) : text # <<>> /\ Tidy(text)}

\* A space is no letter.
LEMMA SpaceIsNoLetter == Space \notin Letter /\ Space \in Char
BY DEF Letter, Char, Space

\* What an item contributes is a text without spaces.
LEMMA CharactersAreLetters ==
    ASSUME NEW i \in Nat \ {0}, NEW size \in Nat \ {0}, NEW ends \in BOOLEAN
    PROVE  /\ Characters(i, size, ends) \in Seq(Letter)
           /\ Len(Characters(i, size, ends)) = size
<1>1. ASSUME NEW k \in 1 .. size, NEW e \in BOOLEAN
      PROVE  <<i, k, e>> \in Letter
  BY DEF Letter
<1>2. \A k \in 1 .. size : <<i, k, ends /\ k = size>> \in Letter
  <2>1. ASSUME NEW k
        PROVE  (ends /\ k = size) \in BOOLEAN
    OBVIOUS
  <2> QED BY <1>1, <2>1, Zenon
<1>3. Characters(i, size, ends) \in [1 .. size -> Letter]
  BY <1>2 DEF Characters
<1> QED BY <1>3

\* A text without spaces.
LEMMA LettersAreTidy ==
    ASSUME NEW text \in Seq(Letter), text # <<>>
    PROVE  text \in Texts
<1>1. text \in Seq(Char)
  BY DEF Char
<1>2. \A k \in 1 .. Len(text) : text[k] # Space
  BY SpaceIsNoLetter
<1> QED BY <1>1, <1>2 DEF Texts, Tidy

\* Two texts, joined.
LEMMA JoinTexts ==
    ASSUME NEW text \in Texts \cup {<<>>}, NEW more \in Texts
    PROVE  /\ Join(text, more) \in Texts
           /\ Len(Join(text, more)) <= Len(text) + Len(more) + 1
           /\ text = <<>> => Join(text, more) = more
<1>1. CASE text = <<>>
  <2>1. Join(text, more) = more
    BY <1>1 DEF Join, Texts
  <2> QED BY <1>1, <2>1 DEF Texts
<1>2. CASE text \in Texts
  <2> DEFINE both == Join(text, more)  m == Len(text)  n == Len(more)
  <2>1. /\ text \in Seq(Char) /\ more \in Seq(Char) /\ text # <<>> /\ more # <<>>
        /\ Tidy(text) /\ Tidy(more)
    BY <1>2 DEF Texts
  <2>2. m \in Nat \ {0} /\ n \in Nat \ {0} /\ <<Space>> \in Seq(Char)
    BY <2>1, SpaceIsNoLetter
  <2>3. both = (text \o <<Space>>) \o more
    BY <2>1 DEF Join
  <2>4. /\ both \in Seq(Char) /\ Len(both) = m + 1 + n
        /\ \A k \in 1 .. m : both[k] = text[k]
        /\ both[m + 1] = Space
        /\ \A k \in 1 .. n : both[m + 1 + k] = more[k]
    BY <2>1, <2>2, <2>3
  <2> HIDE DEF both
  <2>5. text[m] # Space /\ more[1] # Space
    BY <2>1, <2>2 DEF Tidy
  <2>6. ASSUME NEW k \in 1 .. Len(both), both[k] = Space
        PROVE  /\ k > 1 /\ both[k - 1] # Space
               /\ k < Len(both) /\ both[k + 1] # Space
    <3>1. CASE k \in 1 .. m
      <4>1. text[k] = Space
        BY <2>4, <2>6, <3>1
      <4>2. k > 1 /\ text[k - 1] # Space /\ k < m /\ text[k + 1] # Space
        BY <2>1, <3>1, <4>1 DEF Tidy
      <4>3. k - 1 \in 1 .. m /\ k + 1 \in 1 .. m
        BY <2>2, <3>1, <4>2
      <4> QED BY <2>2, <2>4, <4>2, <4>3
    <3>2. CASE k = m + 1
      <4>1. both[k - 1] = text[m] /\ both[k + 1] = more[1]
        BY <2>2, <2>4, <3>2
      <4> QED BY <2>2, <2>4, <2>5, <3>2, <4>1
    <3>3. CASE k > m + 1
      <4>1. PICK h \in 1 .. n : k = m + 1 + h
        <5>1. k - m - 1 \in 1 .. n /\ k = m + 1 + (k - m - 1)
          BY <2>2, <2>4, <3>3
        <5> QED BY <5>1
      <4>2. more[h] = Space
        BY <2>4, <2>6, <4>1
      <4>3. h > 1 /\ more[h - 1] # Space /\ h < n /\ more[h + 1] # Space
        BY <2>1, <4>2 DEF Tidy
      <4>4. PICK before \in 1 .. n, after \in 1 .. n : before = h - 1 /\ after = h + 1
        BY <2>2, <4>3
      <4>5. k - 1 = m + 1 + before /\ k + 1 = m + 1 + after
        BY <2>2, <4>1, <4>4
      <4>6. both[k - 1] # Space /\ both[k + 1] # Space
        BY <2>4, <4>3, <4>4, <4>5
      <4>7. k > 1 /\ k < Len(both)
        BY <2>2, <2>4, <4>1, <4>3
      <4> QED BY <4>6, <4>7
    <3> QED BY <2>2, <2>4, <3>1, <3>2, <3>3
  <2>7. both # <<>>
    BY <2>2, <2>4
  <2>8. both \in Texts
    BY <2>4, <2>6, <2>7 DEF Texts, Tidy
  <2> QED BY <2>1, <2>2, <2>4, <2>8 DEF both
<1> QED BY <1>1, <1>2

\* The texts that Flat adds up, and what there is of them after each.
LEMMA FlatSteps ==
    ASSUME NEW S,
           NEW seqs \in Seq(Seq(S))
    PROVE  \E f \in [0 .. Len(seqs) -> Seq(S)] :
              /\ f[0] = <<>>
              /\ \A k \in 1 .. Len(seqs) : f[k - 1] \in Seq(S) /\ f[k] = f[k - 1] \o seqs[k]
              /\ Flat(seqs) = f[Len(seqs)]
<1> DEFINE n == Len(seqs)
           body(f) == [k \in 0 .. n |-> IF k = 0 THEN <<>> ELSE f[k - 1] \o seqs[k]]
           step == [k \in 1 .. n |-> [v \in Seq(S) |-> v \o seqs[k]]]
<1>1. n \in Nat /\ <<>> \in Seq(S) /\ step \in [1 .. n -> [Seq(S) -> Seq(S)]]
  <2>1. \A k \in 1 .. n, v \in Seq(S) : v \o seqs[k] \in Seq(S)
    BY ElementOfSeq, ConcatProperties
  <2> QED BY <2>1
<1>2. PICK f \in [0 .. n -> Seq(S)] : Unfolds(f, Seq(S), <<>>, n, step)
  <2> HIDE DEF n, step
  <2> QED BY <1>1, Unfolding
<1>3. \A k \in 1 .. n, v \in Seq(S) : step[k][v] = v \o seqs[k]
  OBVIOUS
<1>4. f = body(f)
  <2>1. ASSUME NEW k \in 0 .. n
        PROVE  f[k] = IF k = 0 THEN <<>> ELSE f[k - 1] \o seqs[k]
    <3>1. k = 0 \/ k \in 1 .. n
      BY <1>1
    <3> HIDE DEF n, step
    <3> QED BY <1>2, <1>3, <3>1 DEF Unfolds
  <2>2. f = [k \in 0 .. n |-> f[k]]
    OBVIOUS
  <2> QED BY <2>1, <2>2, Zenon
<1> DEFINE g == CHOOSE h : h = body(h)
<1>5. g = body(g)
  BY <1>4
<1>6. Flat(seqs) = g[n]
  BY DEF Flat
<1> HIDE DEF g, step
<1>7. g[n] = f[n]
  <2>1. 0 \in 0 .. n /\ n \in 0 .. n /\ \A k \in 1 .. n : k \in 0 .. n /\ k # 0
    BY <1>1
  <2> HIDE DEF n
  <2>2. g[0] = <<>>
    BY <1>5, <2>1
  <2>3. ASSUME NEW k \in 1 .. n
        PROVE  g[k] = g[k - 1] \o seqs[k]
    BY <1>5, <2>1
  <2>4. \A k \in 1 .. n : g[k - 1] \in Seq(S) => g[k] = step[k][g[k - 1]]
    BY <1>3, <2>3
  <2> QED BY <1>2, <2>1, <2>2, <2>4 DEF Unfolds
<1> QED BY <1>2, <1>3, <1>6, <1>7 DEF Unfolds

\* What is in all of them is in what they add up to.
LEMMA FlatType ==
    ASSUME NEW S, NEW seqs \in Seq(Seq(S))
    PROVE  Flat(seqs) \in Seq(S)
<1>1. PICK f \in [0 .. Len(seqs) -> Seq(S)] : Flat(seqs) = f[Len(seqs)]
  BY FlatSteps
<1>2. Len(seqs) \in 0 .. Len(seqs)
  OBVIOUS
<1> QED BY <1>1, <1>2

\* What is left of a sequence is of the same kind, and not dropped.
LEMMA WithoutType ==
    ASSUME NEW S, NEW s \in Seq(S), NEW dropped
    PROVE  Without(s, dropped) \in Seq(S \ dropped)
<1> DEFINE seqs == [k \in 1 .. Len(s) |-> IF s[k] \in dropped THEN <<>> ELSE <<s[k]>>]
<1>1. ASSUME NEW k \in 1 .. Len(s)
      PROVE  (IF s[k] \in dropped THEN <<>> ELSE <<s[k]>>) \in Seq(S \ dropped)
  <2>1. <<>> \in Seq(S \ dropped)
    OBVIOUS
  <2>2. s[k] \notin dropped => <<s[k]>> \in Seq(S \ dropped)
    OBVIOUS
  <2> QED BY <2>1, <2>2
<1>2. seqs \in Seq(Seq(S \ dropped))
  <2>1. Len(s) \in Nat
    OBVIOUS
  <2> QED BY <1>1, <2>1, IsASeq
<1>3. Flat(seqs) \in Seq(S \ dropped)
  <2> HIDE DEF seqs
  <2> QED BY <1>2, FlatType
<1> QED BY <1>3 DEF Without

\* The texts that JoinAll joins, and what there is of them after each.
LEMMA JoinSteps ==
    ASSUME NEW texts \in Seq(Texts)
    PROVE  \E f \in [0 .. Len(texts) -> Texts \cup {<<>>}] :
              /\ f[0] = <<>>
              /\ \A k \in 1 .. Len(texts) : f[k - 1] \in Texts \cup {<<>>} /\ f[k] = Join(f[k - 1], texts[k])
              /\ JoinAll(texts) = f[Len(texts)]
<1> DEFINE n == Len(texts)
           body(f) == [k \in 0 .. n |-> IF k = 0 THEN <<>> ELSE Join(f[k - 1], texts[k])]
           step == [k \in 1 .. n |-> [v \in Texts \cup {<<>>} |-> Join(v, texts[k])]]
<1>1. n \in Nat /\ <<>> \in Texts \cup {<<>>} /\ step \in [1 .. n -> [Texts \cup {<<>>} -> Texts \cup {<<>>}]]
  <2>1. \A k \in 1 .. n, v \in Texts \cup {<<>>} : Join(v, texts[k]) \in Texts \cup {<<>>}
    BY JoinTexts
  <2> QED BY <2>1
<1>2. PICK f \in [0 .. n -> Texts \cup {<<>>}] : Unfolds(f, Texts \cup {<<>>}, <<>>, n, step)
  <2> HIDE DEF n, step
  <2> QED BY <1>1, Unfolding
<1>3. \A k \in 1 .. n, v \in Texts \cup {<<>>} : step[k][v] = Join(v, texts[k])
  OBVIOUS
<1>4. f = body(f)
  <2>1. ASSUME NEW k \in 0 .. n
        PROVE  f[k] = IF k = 0 THEN <<>> ELSE Join(f[k - 1], texts[k])
    <3>1. k = 0 \/ k \in 1 .. n
      BY <1>1
    <3> HIDE DEF n, step
    <3> QED BY <1>2, <1>3, <3>1 DEF Unfolds
  <2>2. f = [k \in 0 .. n |-> f[k]]
    OBVIOUS
  <2> QED BY <2>1, <2>2, Zenon
<1> DEFINE g == CHOOSE h : h = body(h)
<1>5. g = body(g)
  BY <1>4
<1>6. JoinAll(texts) = g[n]
  BY DEF JoinAll
<1> HIDE DEF g, step
<1>7. g[n] = f[n]
  <2>1. 0 \in 0 .. n /\ n \in 0 .. n /\ \A k \in 1 .. n : k \in 0 .. n /\ k # 0
    BY <1>1
  <2> HIDE DEF n
  <2>2. g[0] = <<>>
    BY <1>5, <2>1
  <2>3. ASSUME NEW k \in 1 .. n
        PROVE  g[k] = Join(g[k - 1], texts[k])
    BY <1>5, <2>1
  <2>4. \A k \in 1 .. n : g[k - 1] \in Texts \cup {<<>>} => g[k] = step[k][g[k - 1]]
    BY <1>3, <2>3
  <2> QED BY <1>2, <2>1, <2>2, <2>4 DEF Unfolds
<1> QED BY <1>2, <1>3, <1>6, <1>7 DEF Unfolds

\* Texts that are joined are a text.
LEMMA JoinAllTexts ==
    ASSUME NEW texts \in Seq(Texts), texts # <<>>
    PROVE  JoinAll(texts) \in Texts
<1>1. PICK f \in [0 .. Len(texts) -> Texts \cup {<<>>}] :
         /\ \A k \in 1 .. Len(texts) :
               f[k - 1] \in Texts \cup {<<>>} /\ f[k] = Join(f[k - 1], texts[k])
         /\ JoinAll(texts) = f[Len(texts)]
  BY JoinSteps
<1>2. Len(texts) \in 1 .. Len(texts)
  OBVIOUS
<1>3. texts[Len(texts)] \in Texts
  BY <1>2
<1> QED BY <1>1, <1>2, <1>3, JoinTexts

\* A space between each two, and no more, comes to what they add up to.
LEMMA JoinAllFits ==
    ASSUME NEW texts \in Seq(Texts), texts # <<>>
    PROVE  /\ Len(Flat(texts)) \in Nat /\ Len(JoinAll(texts)) \in Nat
           /\ Len(JoinAll(texts)) + 1 <= 2 * Len(Flat(texts))
<1> DEFINE n == Len(texts)
<1>1. texts \in Seq(Seq(Char)) /\ n \in Nat \ {0}
  BY DEF Texts
<1>2. PICK f \in [0 .. n -> Seq(Char)] :
         /\ f[0] = <<>>
         /\ \A k \in 1 .. n : f[k - 1] \in Seq(Char) /\ f[k] = f[k - 1] \o texts[k]
         /\ Flat(texts) = f[n]
  <2> HIDE DEF n
  <2> QED BY <1>1, FlatSteps DEF n
<1>3. PICK g \in [0 .. n -> Texts \cup {<<>>}] :
         /\ g[0] = <<>>
         /\ \A k \in 1 .. n :
               g[k - 1] \in Texts \cup {<<>>} /\ g[k] = Join(g[k - 1], texts[k])
         /\ JoinAll(texts) = g[n]
  BY JoinSteps
<1> DEFINE fits == {k \in 0 .. n :
              /\ Len(g[k]) \in Nat /\ Len(f[k]) \in Nat
              /\ k = 0 => g[k] = <<>>
              /\ k > 0 => Len(g[k]) + 1 <= 2 * Len(f[k])}
<1>4. 0 \in fits
  BY <1>1, <1>2, <1>3
<1>5. ASSUME NEW k \in 1 .. n, k - 1 \in fits
      PROVE  k \in fits
  <2> DEFINE t == texts[k]  p == Len(g[k - 1])  q == Len(f[k - 1])
  <2>1. t \in Texts /\ Len(t) \in Nat \ {0}
    BY DEF Texts
  <2>2. g[k] = Join(g[k - 1], t) /\ g[k - 1] \in Texts \cup {<<>>}
    BY <1>3
  <2>3. f[k] = f[k - 1] \o t /\ f[k - 1] \in Seq(Char) /\ t \in Seq(Char)
    BY <1>2, <2>1 DEF Texts
  <2> HIDE DEF t
  <2>4. Len(f[k]) = q + Len(t)
    BY <2>3
  <2>5. /\ g[k] \in Texts /\ Len(g[k]) <= p + Len(t) + 1
        /\ g[k - 1] = <<>> => g[k] = t
    BY <2>1, <2>2, JoinTexts
  <2>6. Len(g[k]) \in Nat
    BY <2>5 DEF Texts
  <2>7. /\ p \in Nat /\ q \in Nat
        /\ k - 1 = 0 => g[k - 1] = <<>>
        /\ k - 1 > 0 => p + 1 <= 2 * q
    BY <1>5
  <2>8. Len(g[k]) + 1 <= 2 * Len(f[k])
    <3>1. CASE k - 1 = 0
      BY <2>1, <2>4, <2>5, <2>7, <3>1
    <3>2. CASE k - 1 > 0
      BY <2>1, <2>4, <2>5, <2>6, <2>7, <3>2
    <3> QED BY <3>1, <3>2
  <2>9. k \in 0 .. n /\ k # 0
    BY <1>1
  <2> HIDE DEF n
  <2> QED BY <2>1, <2>4, <2>6, <2>7, <2>8, <2>9
<1> HIDE DEF fits
<1>6. \A k \in 0 .. n : k \in fits
  BY <1>1, <1>4, <1>5, BoundedInduction
<1> QED BY <1>1, <1>2, <1>3, <1>6 DEF fits

\* No two spaces side by side.
Loose(text) == \A k \in 1 .. Len(text) - 1 : text[k] # Space \/ text[k + 1] # Space

\* A stretch of a text is loose.
LEMMA StretchIsLoose ==
    ASSUME NEW text \in Texts, NEW a \in 1 .. Len(text), NEW b \in a .. Len(text)
    PROVE  /\ SubSeq(text, a, b) \in Seq(Char) /\ Loose(SubSeq(text, a, b))
           /\ Len(SubSeq(text, a, b)) = b - a + 1
           /\ \A k \in 1 .. b - a + 1 : SubSeq(text, a, b)[k] = text[a + k - 1]
<1> DEFINE r == SubSeq(text, a, b)
<1>1. text \in Seq(Char) /\ Tidy(text) /\ Len(text) \in Nat /\ a \in Nat /\ b \in Nat
  BY DEF Texts
<1>2. r \in Seq(Char) /\ Len(r) = b - a + 1 /\ \A k \in 1 .. b - a + 1 : r[k] = text[a + k - 1]
  BY <1>1
<1> HIDE DEF r
<1>3. ASSUME NEW k \in 1 .. Len(r) - 1
      PROVE  r[k] # Space \/ r[k + 1] # Space
  <2>1. PICK h \in 1 .. Len(text) : h = a + k - 1 /\ h + 1 = a + (k + 1) - 1
    BY <1>1, <1>2
  <2>2. k \in 1 .. b - a + 1 /\ k + 1 \in 1 .. b - a + 1
    BY <1>1, <1>2
  <2>3. r[k] = text[h] /\ r[k + 1] = text[h + 1]
    BY <1>2, <2>1, <2>2
  <2>4. text[h] = Space => text[h + 1] # Space
    BY <1>1 DEF Tidy
  <2> QED BY <2>3, <2>4
<1> QED BY <1>2, <1>3 DEF r, Loose

\* What strip leaves of a loose text that is not blank.
LEMMA StripTexts ==
    ASSUME NEW text \in Seq(Char), Loose(text),
           NEW some \in 1 .. Len(text), text[some] # Space
    PROVE  Strip(text) \in Texts /\ Len(Strip(text)) <= Len(text)
<1> DEFINE inside == {i \in 1 .. Len(text) : text[i] # Space}
           a == CHOOSE i \in inside : \A j \in inside : i <= j
           b == CHOOSE i \in inside : \A j \in inside : j <= i
<1>1. Len(text) \in Nat /\ inside # {}
  OBVIOUS
<1>2. a \in inside /\ \A j \in inside : a <= j
  <2>1. \E i \in inside : \A j \in inside : i <= j
    <3>1. inside \in SUBSET Nat
      OBVIOUS
    <3> HIDE DEF inside
    <3> QED BY <1>1, <3>1, Least
  <2> HIDE DEF inside
  <2> QED BY <2>1
<1>3. b \in inside /\ \A j \in inside : j <= b
  <2>1. \E i \in inside : \A j \in inside : j <= i
    <3>1. inside \in SUBSET (0 .. Len(text))
      OBVIOUS
    <3> HIDE DEF inside
    <3> QED BY <1>1, <3>1, Greatest
  <2> HIDE DEF inside
  <2> QED BY <2>1
<1>4. Strip(text) = SubSeq(text, a, b)
  BY <1>1 DEF Strip
<1> HIDE DEF a, b
<1>5. a \in 1 .. Len(text) /\ b \in a .. Len(text) /\ text[a] # Space /\ text[b] # Space
  BY <1>2, <1>3
<1> HIDE DEF inside
<1> DEFINE r == SubSeq(text, a, b)
<1>6. /\ r \in Seq(Char) /\ Len(r) = b - a + 1
      /\ \A k \in 1 .. b - a + 1 : r[k] = text[a + k - 1]
  BY <1>5
<1> HIDE DEF r
<1>7. r # <<>> /\ Len(r) <= Len(text)
  BY <1>1, <1>5, <1>6
<1>8. ASSUME NEW k \in 1 .. Len(r), r[k] = Space
      PROVE  /\ k > 1 /\ r[k - 1] # Space
             /\ k < Len(r) /\ r[k + 1] # Space
  <2>1. PICK h \in 1 .. Len(text) : h = a + k - 1
    BY <1>1, <1>5, <1>6
  <2>2. text[h] = Space
    BY <1>6, <1>8, <2>1
  <2>3. h # a /\ h # b
    BY <1>5, <2>2
  <2>4. k > 1 /\ k < Len(r)
    BY <1>5, <1>6, <2>1, <2>3
  <2>5. PICK before \in 1 .. b - a + 1, after \in 1 .. b - a + 1 :
           before = k - 1 /\ after = k + 1
    BY <1>5, <1>6, <2>4
  <2>6. a + before - 1 = h - 1 /\ a + after - 1 = h + 1
    BY <1>5, <2>1, <2>5
  <2>7. r[before] = text[h - 1] /\ r[after] = text[h + 1]
    BY <1>6, <2>6
  <2>8. text[h + 1] # Space
    <3>1. h \in 1 .. Len(text) - 1
      BY <1>1, <1>5, <2>1, <2>3, <1>6
    <3> QED BY <2>2, <3>1 DEF Loose
  <2>9. text[h - 1] # Space
    <3>1. PICK g \in 1 .. Len(text) - 1 : g = h - 1 /\ g + 1 = h
      BY <1>1, <1>5, <2>1, <2>4
    <3> QED BY <2>2, <3>1 DEF Loose
  <2> QED BY <2>4, <2>5, <2>7, <2>8, <2>9
<1>9. r \in Texts
  BY <1>6, <1>7, <1>8 DEF Texts, Tidy
<1> QED BY <1>4, <1>7, <1>9 DEF r

\* A slice: no longer than the target, not blank, and with single spaces.
Slicings == {slice \in Seq(Char) :
    /\ Loose(slice)
    /\ Len(slice) <= Target
    /\ \E k \in 1 .. Len(slice) : slice[k] # Space}

\* Every Target characters.
LEMMA SlicesType ==
    ASSUME NEW text \in Texts
    PROVE  Slices(text) \in Seq(Slicings)
<1> DEFINE n == Len(text)  q == (n + Target - 1) \div Target
<1>1. n \in Nat \ {0} /\ Target \in Nat \ {0, 1} /\ text \in Seq(Char) /\ Tidy(text)
  BY ChunkingAssumption DEF Texts
<1>2. q \in Nat /\ q * Target <= n + Target - 1
  BY <1>1
<1>3. ASSUME NEW i \in 1 .. q
      PROVE  /\ (i - 1) * Target + 1 \in 1 .. n
             /\ i * Target = (i - 1) * Target + Target
  <2>1. i * Target = (i - 1) * Target + Target
    BY <1>1
  <2>2. i * Target <= q * Target
    <3>1. q - i \in Nat
      BY <1>2
    <3>2. (q - i) * Target >= 0
      BY <1>1, <3>1
    <3>3. (q - i) * Target = q * Target - i * Target
      BY <1>1, <1>2
    <3> QED BY <1>1, <1>2, <3>2, <3>3
  <2>3. (i - 1) * Target >= 0
    BY <1>1
  <2> HIDE DEF n, q
  <2>4. (i - 1) * Target \in Int
    BY <1>1, <1>2
  <2> QED BY <1>1, <1>2, <2>1, <2>2, <2>3, <2>4
<1>4. ASSUME NEW i \in 1 .. q
      PROVE  SubSeq(text, (i - 1) * Target + 1,
                    IF i * Target < n THEN i * Target ELSE n) \in Slicings
  <2>1. PICK a \in 1 .. n : a = (i - 1) * Target + 1 /\ i * Target = a - 1 + Target
    <3>1. (i - 1) * Target \in Int
      BY <1>1, <1>2
    <3> QED BY <1>3, <3>1
  <2>2. PICK b \in a .. n : /\ b = IF i * Target < n THEN i * Target ELSE n
                            /\ b - a + 1 <= Target /\ (b = n \/ b - a + 1 >= 2)
    <3> HIDE DEF n, q
    <3>1. CASE a - 1 + Target < n
      <4>1. a - 1 + Target \in a .. n /\ (a - 1 + Target) - a + 1 = Target
        BY <1>1, <3>1
      <4> QED BY <1>1, <2>1, <3>1, <4>1
    <3>2. CASE ~(a - 1 + Target < n)
      BY <1>1, <2>1, <3>2
    <3> QED BY <3>1, <3>2
  <2> DEFINE r == SubSeq(text, a, b)
  <2>3. /\ r \in Seq(Char) /\ Loose(r) /\ Len(r) = b - a + 1
        /\ \A k \in 1 .. b - a + 1 : r[k] = text[a + k - 1]
    BY StretchIsLoose
  <2> HIDE DEF r
  <2>4. \E k \in 1 .. Len(r) : r[k] # Space
    <3>1. CASE b = n
      <4>1. b - a + 1 \in 1 .. Len(r) /\ a + (b - a + 1) - 1 = n
        BY <1>1, <2>3, <3>1
      <4>2. r[b - a + 1] = text[n]
        BY <2>3, <4>1
      <4>3. text[n] # Space
        BY <1>1 DEF Tidy
      <4> QED BY <4>1, <4>2, <4>3
    <3>2. CASE b - a + 1 >= 2
      <4>1. 1 \in 1 .. Len(r) - 1 /\ 1 \in 1 .. Len(r) /\ 2 \in 1 .. Len(r) /\ 1 + 1 = 2
        BY <1>1, <2>3, <3>2
      <4> QED BY <2>3, <4>1 DEF Loose
    <3> QED BY <2>2, <3>1, <3>2
  <2>5. Len(r) <= Target
    BY <2>2, <2>3
  <2>6. r \in Slicings
    BY <2>3, <2>4, <2>5 DEF Slicings
  <2> QED BY <2>1, <2>2, <2>6, Zenon DEF r
<1> HIDE DEF q
<1>5. Slices(text) = [i \in 1 .. q |->
          SubSeq(text, (i - 1) * Target + 1,
                 IF i * Target < n THEN i * Target ELSE n)]
  BY DEF Slices, q
<1> QED BY <1>2, <1>4, <1>5, IsASeq

\* Each slice, stripped, is a text that fits.
LEMMA HardSplitFits ==
    ASSUME NEW text \in Texts
    PROVE  HardSplit(text) \in Seq({t \in Texts : Len(t) <= Target})
<1>1. PICK slices \in Seq(Slicings) : slices = Slices(text)
  BY SlicesType
<1>2. ASSUME NEW n \in 1 .. Len(slices)
      PROVE  Strip(slices[n]) \in {t \in Texts : Len(t) <= Target}
  <2>1. PICK slice \in Slicings : slice = slices[n]
    OBVIOUS
  <2>2. Strip(slice) \in Texts /\ Len(Strip(slice)) <= Len(slice)
    BY StripTexts DEF Slicings
  <2>3. Len(Strip(slice)) \in Nat /\ Len(slice) \in Nat
    BY <2>2 DEF Texts, Slicings
  <2>4. Len(Strip(slice)) <= Target
    BY <2>2, <2>3, ChunkingAssumption DEF Slicings
  <2> QED BY <2>1, <2>2, <2>4
<1>3. Len(slices) \in Nat
  OBVIOUS
<1> QED BY <1>1, <1>2, <1>3, IsASeq DEF HardSplit

\* The parts of a sequence, of which none is empty.
Parts(S) == Seq(Seq(S) \ {<<>>})

\* One more element.
LEMMA AddToParts ==
    ASSUME NEW S, NEW parts \in Parts(S), NEW element \in S, NEW apart
    PROVE  /\ AddTo(parts, element, apart) \in Parts(S) \ {<<>>}
           /\ parts = <<>> \/ apart => AddTo(parts, element, apart) = Append(parts, <<element>>)
           /\ ~(parts = <<>> \/ apart) =>
                 AddTo(parts, element, apart) =
                     [parts EXCEPT ![Len(parts)] = Append(parts[Len(parts)], element)]
<1>1. CASE parts = <<>> \/ apart
  <2>1. AddTo(parts, element, apart) = Append(parts, <<element>>)
    BY <1>1 DEF AddTo
  <2>2. <<element>> \in Seq(S) \ {<<>>}
    OBVIOUS
  <2>3. Append(parts, <<element>>) \in Parts(S) \ {<<>>}
    BY <2>2 DEF Parts
  <2> QED BY <1>1, <2>1, <2>3
<1>2. CASE ~(parts = <<>> \/ apart)
  <2>1. AddTo(parts, element, apart) =
          [parts EXCEPT ![Len(parts)] = Append(parts[Len(parts)], element)]
    BY <1>2 DEF AddTo
  <2>2. parts \in Seq(Seq(S) \ {<<>>}) /\ Len(parts) \in 1 .. Len(parts)
    BY <1>2 DEF Parts
  <2>3. parts[Len(parts)] \in Seq(S)
    BY <2>2
  <2>4. Append(parts[Len(parts)], element) \in Seq(S) \ {<<>>}
    BY <2>3, AppendProperties
  <2>5. [parts EXCEPT ![Len(parts)] = Append(parts[Len(parts)], element)]
            \in Seq(Seq(S) \ {<<>>}) \ {<<>>}
    BY <2>2, <2>4
  <2> QED BY <1>2, <2>1, <2>5 DEF Parts
<1> QED BY <1>1, <1>2

\* The elements that Cut goes through, and what parts there are after each.
LEMMA CutSteps ==
    ASSUME NEW S,
           NEW s \in Seq(S),
           NEW positions
    PROVE  \E f \in [0 .. Len(s) -> Parts(S)] :
              /\ f[0] = <<>>
              /\ \A k \in 1 .. Len(s) : f[k - 1] \in Parts(S) /\ f[k] = AddTo(f[k - 1], s[k], k \in positions)
              /\ Cut(s, positions) = f[Len(s)]
<1> DEFINE n == Len(s)
           body(f) == [k \in 0 .. n |-> IF k = 0 THEN <<>> ELSE AddTo(f[k - 1], s[k], k \in positions)]
           step == [k \in 1 .. n |-> [v \in Parts(S) |-> AddTo(v, s[k], k \in positions)]]
<1>1. n \in Nat /\ <<>> \in Parts(S) /\ step \in [1 .. n -> [Parts(S) -> Parts(S)]]
  <2>1. \A k \in 1 .. n, v \in Parts(S) : AddTo(v, s[k], k \in positions) \in Parts(S)
    BY AddToParts
  <2>2. <<>> \in Parts(S)
    BY DEF Parts
  <2> QED BY <2>1, <2>2
<1>2. PICK f \in [0 .. n -> Parts(S)] : Unfolds(f, Parts(S), <<>>, n, step)
  <2> HIDE DEF n, step
  <2> QED BY <1>1, Unfolding
<1>3. \A k \in 1 .. n, v \in Parts(S) : step[k][v] = AddTo(v, s[k], k \in positions)
  OBVIOUS
<1>4. f = body(f)
  <2>1. ASSUME NEW k \in 0 .. n
        PROVE  f[k] = IF k = 0 THEN <<>> ELSE AddTo(f[k - 1], s[k], k \in positions)
    <3>1. k = 0 \/ k \in 1 .. n
      BY <1>1
    <3> HIDE DEF n, step
    <3> QED BY <1>2, <1>3, <3>1 DEF Unfolds
  <2>2. f = [k \in 0 .. n |-> f[k]]
    OBVIOUS
  <2> QED BY <2>1, <2>2, Zenon
<1> DEFINE g == CHOOSE h : h = body(h)
<1>5. g = body(g)
  BY <1>4
<1>6. Cut(s, positions) = g[n]
  BY DEF Cut
<1> HIDE DEF g, step
<1>7. g[n] = f[n]
  <2>1. 0 \in 0 .. n /\ n \in 0 .. n /\ \A k \in 1 .. n : k \in 0 .. n /\ k # 0
    BY <1>1
  <2> HIDE DEF n
  <2>2. g[0] = <<>>
    BY <1>5, <2>1
  <2>3. ASSUME NEW k \in 1 .. n
        PROVE  g[k] = AddTo(g[k - 1], s[k], k \in positions)
    BY <1>5, <2>1
  <2>4. \A k \in 1 .. n : g[k - 1] \in Parts(S) => g[k] = step[k][g[k - 1]]
    BY <1>3, <2>3
  <2> QED BY <1>2, <2>1, <2>2, <2>4 DEF Unfolds
<1> QED BY <1>2, <1>3, <1>6, <1>7 DEF Unfolds

\* A part is a stretch that begins at one of the positions, or at the first one.
IsStretch(part, s, positions, last) ==
    \E a \in 1 .. last : \E b \in a .. last :
        part = SubSeq(s, a, b) /\ (a = 1 \/ a \in positions)

\* Cut cuts, and leaves out nothing at the end.
LEMMA CutParts ==
    ASSUME NEW S, NEW s \in Seq(S), NEW positions, s # <<>>
    PROVE  /\ Cut(s, positions) \in Parts(S) \ {<<>>}
           /\ \A n \in 1 .. Len(Cut(s, positions)) :
                 IsStretch(Cut(s, positions)[n], s, positions, Len(s))
<1> DEFINE N == Len(s)
<1>1. N \in Nat \ {0}
  OBVIOUS
<1>2. PICK f \in [0 .. N -> Parts(S)] :
         /\ f[0] = <<>>
         /\ \A k \in 1 .. N :
               f[k - 1] \in Parts(S) /\ f[k] = AddTo(f[k - 1], s[k], k \in positions)
         /\ Cut(s, positions) = f[N]
  BY CutSteps
<1> DEFINE Ending(k, part) ==
              \E a \in 1 .. k : part = SubSeq(s, a, k) /\ (a = 1 \/ a \in positions)
           cut == {k \in 0 .. N :
              /\ k > 0 => f[k] # <<>> /\ Ending(k, f[k][Len(f[k])])
              /\ \A n \in 1 .. Len(f[k]) : IsStretch(f[k][n], s, positions, k)}
<1>3. 0 \in cut
  BY <1>1, <1>2
<1>4. ASSUME NEW k \in 1 .. N, k - 1 \in cut
      PROVE  k \in cut
  <2> DEFINE old == f[k - 1]  new == f[k]  m == Len(old)
  <2>1. /\ old \in Parts(S) /\ s[k] \in S /\ m \in Nat
        /\ new = AddTo(old, s[k], k \in positions)
    BY <1>2 DEF Parts
  <2>2. /\ k - 1 > 0 => old # <<>> /\ Ending(k - 1, old[m])
        /\ \A n \in 1 .. m : IsStretch(old[n], s, positions, k - 1)
    BY <1>4
  <2> HIDE DEF old, new
  <2>3. ASSUME NEW n \in 1 .. m
        PROVE  IsStretch(old[n], s, positions, k)
    <3>1. PICK a \in 1 .. k - 1 : \E b \in a .. k - 1 :
             old[n] = SubSeq(s, a, b) /\ (a = 1 \/ a \in positions)
      BY <2>2 DEF IsStretch
    <3>2. PICK b \in a .. k - 1 :
             old[n] = SubSeq(s, a, b) /\ (a = 1 \/ a \in positions)
      BY <3>1
    <3>3. a \in 1 .. k /\ b \in a .. k
      BY <1>1
    <3> QED BY <3>2, <3>3 DEF IsStretch
  <2>4. CASE old = <<>> \/ k \in positions
    <3>1. new = Append(old, <<s[k]>>)
      BY <2>1, <2>4 DEF AddTo
    <3>2. /\ Len(new) = m + 1 /\ new[m + 1] = <<s[k]>> /\ new # <<>>
          /\ \A n \in 1 .. m : new[n] = old[n]
      <4>1. <<s[k]>> \in Seq(S) \ {<<>>} /\ old \in Seq(Seq(S) \ {<<>>})
        BY <2>1 DEF Parts
      <4> QED BY <3>1, <4>1, AppendProperties
    <3>3. k = 1 \/ k \in positions
      BY <2>2, <2>4
    <3>4. SubSeq(s, k, k) = <<s[k]>>
      BY <1>1
    <3>5. Ending(k, new[m + 1])
      BY <1>1, <3>2, <3>3, <3>4
    <3>6. IsStretch(new[m + 1], s, positions, k)
      BY <1>1, <3>2, <3>3, <3>4 DEF IsStretch
    <3>7. \A n \in 1 .. Len(new) : IsStretch(new[n], s, positions, k)
      BY <2>1, <2>3, <3>2, <3>6
    <3> HIDE DEF N, Ending
    <3>8. k \in 0 .. N
      BY <1>1
    <3> QED BY <3>2, <3>5, <3>7, <3>8 DEF new
  <2>5. CASE ~(old = <<>> \/ k \in positions)
    <3>1. new = [old EXCEPT ![m] = Append(old[m], s[k])]
      BY <2>1, <2>5 DEF AddTo
    <3>2. m \in 1 .. m /\ old \in Seq(Seq(S) \ {<<>>})
      BY <2>1, <2>5 DEF Parts
    <3>3. /\ Len(new) = m /\ new[m] = Append(old[m], s[k]) /\ new # <<>>
          /\ \A n \in 1 .. m : n # m => new[n] = old[n]
      BY <3>1, <3>2
    <3>4. k - 1 > 0
      <4>1. CASE k - 1 = 0
        BY <1>2, <2>5, <4>1 DEF old
      <4> QED BY <4>1
    <3>5. PICK a \in 1 .. k - 1 : old[m] = SubSeq(s, a, k - 1) /\ (a = 1 \/ a \in positions)
      BY <2>2, <3>4
    <3>6. Append(SubSeq(s, a, k - 1), s[k]) = SubSeq(s, a, k)
      BY <1>1
    <3>7. Ending(k, new[m])
      <4>1. a \in 1 .. k
        BY <1>1
      <4> QED BY <3>3, <3>5, <3>6, <4>1
    <3>8. IsStretch(new[m], s, positions, k)
      <4>1. a \in 1 .. k /\ k \in a .. k
        BY <1>1
      <4> QED BY <3>3, <3>5, <3>6, <4>1 DEF IsStretch
    <3>9. \A n \in 1 .. Len(new) : IsStretch(new[n], s, positions, k)
      BY <2>3, <3>3, <3>8
    <3> HIDE DEF N, Ending
    <3>10. k \in 0 .. N
      BY <1>1
    <3> QED BY <3>3, <3>7, <3>9, <3>10 DEF new
  <2> QED BY <2>4, <2>5
<1> HIDE DEF cut
<1>5. \A k \in 0 .. N : k \in cut
  BY <1>1, <1>3, <1>4, BoundedInduction
<1>6. N \in 0 .. N /\ N > 0 /\ N \in cut
  BY <1>1, <1>5
<1>7. f[N] \in Parts(S) \ {<<>>}
  BY <1>2, <1>6 DEF cut
<1> QED BY <1>2, <1>6, <1>7 DEF cut

\* A text that is split, not before a space, makes texts.
LEMMA SplitIsTexts ==
    ASSUME NEW text \in Texts, NEW positions,
           \A k \in positions : k \in 1 .. Len(text) /\ text[k] # Space
    PROVE  Split(text, positions) \in Seq(Texts) \ {<<>>}
<1> DEFINE parts == Cut(text, positions)
<1>1. text \in Seq(Char) /\ text # <<>> /\ Tidy(text) /\ Len(text) \in Nat \ {0}
  BY DEF Texts
<1>2. /\ parts \in Parts(Char) \ {<<>>}
      /\ \A n \in 1 .. Len(parts) : IsStretch(parts[n], text, positions, Len(text))
  BY <1>1, CutParts
<1> HIDE DEF parts
<1>3. ASSUME NEW n \in 1 .. Len(parts)
      PROVE  Strip(parts[n]) \in Texts
  <2>1. PICK a \in 1 .. Len(text) : \E b \in a .. Len(text) :
           parts[n] = SubSeq(text, a, b) /\ (a = 1 \/ a \in positions)
    BY <1>2 DEF IsStretch
  <2>2. PICK b \in a .. Len(text) :
           parts[n] = SubSeq(text, a, b) /\ (a = 1 \/ a \in positions)
    BY <2>1
  <2>3. text[a] # Space
    <3>1. CASE a = 1
      BY <1>1, <3>1 DEF Tidy
    <3> QED BY <2>2, <3>1
  <2>4. /\ parts[n] \in Seq(Char) /\ Loose(parts[n]) /\ Len(parts[n]) = b - a + 1
        /\ \A k \in 1 .. b - a + 1 : parts[n][k] = text[a + k - 1]
    BY <2>2, StretchIsLoose
  <2>5. 1 \in 1 .. Len(parts[n]) /\ 1 \in 1 .. b - a + 1 /\ a + 1 - 1 = a
    BY <1>1, <2>4
  <2>6. parts[n][1] # Space
    BY <2>3, <2>4, <2>5
  <2> QED BY <2>4, <2>5, <2>6, StripTexts
<1>4. Split(text, positions) = [n \in 1 .. Len(parts) |-> Strip(parts[n])]
  BY DEF Split, parts
<1>5. Len(parts) \in Nat \ {0}
  BY <1>2 DEF Parts
<1> QED BY <1>3, <1>4, <1>5

\* The sentences of a text are texts.
LEMMA SentencesAreTexts ==
    ASSUME NEW text \in Texts
    PROVE  Sentences(text) \in Seq(Texts) \ {<<>>}
<1> DEFINE begins == {k \in 3 .. Len(text) : text[k - 1] = Space /\ text[k - 2][3]}
<1>1. text \in Seq(Char) /\ Tidy(text) /\ Len(text) \in Nat
  BY DEF Texts
<1>2. ASSUME NEW k \in begins
      PROVE  k \in 1 .. Len(text) /\ text[k] # Space
  <2>1. PICK h \in 1 .. Len(text) : h = k - 1 /\ k = h + 1
    BY <1>1
  <2> QED BY <1>1, <2>1 DEF Tidy
<1>3. Sentences(text) = Split(text, begins)
  BY DEF Sentences
<1> HIDE DEF begins
<1> QED BY <1>2, <1>3, SplitIsTexts

\* Where the list items of a text begin.
ItemsBegin(text, bullets) ==
    {k \in 1 .. Len(text) - 1 : text[k] \in bullets /\ text[k + 1] = Space}

LEMMA ListItemsAreTexts ==
    ASSUME NEW text \in Texts, NEW bullets, Space \notin bullets
    PROVE  Split(text, ItemsBegin(text, bullets)) \in Seq(Texts)
<1>1. ASSUME NEW k \in ItemsBegin(text, bullets)
      PROVE  k \in 1 .. Len(text) /\ text[k] # Space
  <2>1. Len(text) \in Nat
    BY DEF Texts
  <2> QED BY <2>1 DEF ItemsBegin
<1> QED BY <1>1, SplitIsTexts

\* What becomes of each of them.
Divided(bullets) ==
    [part \in Texts |-> IF part[1] \in bullets THEN <<part>> ELSE Sentences(part)]

LEMMA DividedIsTexts ==
    ASSUME NEW bullets, NEW part \in Texts
    PROVE  Divided(bullets)[part] \in Seq(Texts)
<1>1. Sentences(part) \in Seq(Texts) /\ <<part>> \in Seq(Texts)
  BY SentencesAreTexts
<1> QED BY <1>1 DEF Divided

\* The list items and the sentences of a text are texts.
LEMMA UnitsAreTexts ==
    ASSUME NEW text \in Texts, NEW bullets, Space \notin bullets
    PROVE  ListItemsAndSentences(text, bullets) \in Seq(Texts)
<1>1. PICK parts \in Seq(Texts) : parts = Split(text, ItemsBegin(text, bullets))
  BY ListItemsAreTexts
<1> DEFINE units == [n \in 1 .. Len(parts) |->
              IF parts[n][1] \in bullets THEN <<parts[n]>> ELSE Sentences(parts[n])]
<1>2. ASSUME NEW n \in 1 .. Len(parts)
      PROVE  (IF parts[n][1] \in bullets THEN <<parts[n]>> ELSE Sentences(parts[n]))
                \in Seq(Texts)
  <2>1. PICK part \in Texts : part = parts[n]
    BY ElementOfSeq
  <2>2. Divided(bullets)[part] \in Seq(Texts)
    BY DividedIsTexts
  <2> QED BY <2>1, <2>2 DEF Divided
<1>3. units \in Seq(Seq(Texts))
  <2>1. Len(parts) \in Nat
    OBVIOUS
  <2> QED BY <1>2, <2>1, IsASeq
<1>4. ListItemsAndSentences(text, bullets) = Flat(units)
  BY <1>1 DEF ListItemsAndSentences, ItemsBegin
<1> HIDE DEF units
<1> QED BY <1>3, <1>4, FlatType

\* A bullet is no space.
LEMMA BulletsAreNoSpace ==
    ASSUME NEW items
    PROVE  Space \notin Bullets(items)
<1>1. ASSUME NEW i \in 1 .. Len(items), NEW place
      PROVE  <<i, place, FALSE>> # Space
  <2>1. i # 0
    OBVIOUS
  <2> QED BY <2>1 DEF Space
<1> QED BY <1>1 DEF Bullets

\* What ChunksFit says of one text.
Fits(text, most) == (\E k \in DOMAIN text : text[k] # Space) /\ Len(text) <= most

\* A text is not blank.
LEMMA TextFits ==
    ASSUME NEW text \in Texts, NEW most, Len(text) <= most
    PROVE  Fits(text, most)
<1>1. text \in Seq(Char) /\ text # <<>> /\ Tidy(text)
  BY DEF Texts
<1>2. 1 \in DOMAIN text /\ 1 \in 1 .. Len(text)
  BY <1>1
<1>3. text[1] # Space
  BY <1>2, <1>1 DEF Tidy
<1> QED BY <1>2, <1>3 DEF Fits

(***************************************************************************)
(* PDF files.                                                              *)
(***************************************************************************)

\* Texts that make a chunk, and what a packer has in hand.
Fitting == {text \in Texts : Len(text) <= Target}
Packings == [chunks : Seq(Fitting), open : Fitting \cup {<<>>}]

\* What is open is added to the chunks, if it is anything.
LEMMA DoneFits ==
    ASSUME NEW packed \in Packings
    PROVE  Done(packed) \in Seq(Fitting)
<1>1. packed.chunks \in Seq(Fitting) /\ packed.open \in Fitting \cup {<<>>}
  BY DEF Packings
<1> QED BY <1>1 DEF Done

\* One text more, that fits or has parts that do.
LEMMA AddTextFits ==
    ASSUME NEW packed \in Packings, NEW text \in Texts, NEW parts \in Seq(Fitting)
    PROVE  AddText(packed, text, parts) \in Packings
<1>1. packed.chunks \in Seq(Fitting) /\ packed.open \in Fitting \cup {<<>>}
  BY DEF Packings
<1>2. Done(packed) \in Seq(Fitting)
  BY DoneFits
<1>3. Len(text) \in Nat /\ Target \in Nat
  BY ChunkingAssumption DEF Texts
<1>4. CASE Len(text) > Target
  <2>1. AddText(packed, text, parts) = [chunks |-> Done(packed) \o parts, open |-> <<>>]
    BY <1>3, <1>4 DEF AddText
  <2>2. Done(packed) \o parts \in Seq(Fitting)
    BY <1>2
  <2> QED BY <2>1, <2>2 DEF Packings
<1>5. CASE Len(text) <= Target /\ packed.open # <<>> /\ ~Room(packed.open, text)
  <2>1. AddText(packed, text, parts) = [chunks |-> Done(packed), open |-> text]
    BY <1>3, <1>5 DEF AddText
  <2>2. text \in Fitting
    BY <1>5 DEF Fitting
  <2> QED BY <1>2, <2>1, <2>2 DEF Packings
<1>6. CASE Len(text) <= Target /\ (packed.open = <<>> \/ Room(packed.open, text))
  <2>1. AddText(packed, text, parts) = [packed EXCEPT !.open = Join(packed.open, text)]
    BY <1>3, <1>6 DEF AddText
  <2>2. packed.open \in Texts \cup {<<>>}
    BY <1>1 DEF Fitting
  <2>3. /\ Join(packed.open, text) \in Texts
        /\ Len(Join(packed.open, text)) <= Len(packed.open) + Len(text) + 1
        /\ packed.open = <<>> => Join(packed.open, text) = text
    BY <2>2, JoinTexts
  <2>4. Len(Join(packed.open, text)) <= Target
    <3>1. CASE packed.open = <<>>
      BY <1>6, <2>3, <3>1
    <3>2. CASE packed.open # <<>>
      <4>1. Len(packed.open) \in Nat /\ Len(Join(packed.open, text)) \in Nat
        BY <2>2, <2>3, <3>2 DEF Texts
      <4>2. Len(packed.open) + Len(text) + 1 <= Target
        BY <1>6, <3>2 DEF Room
      <4> QED BY <1>3, <2>3, <4>1, <4>2
    <3> QED BY <3>1, <3>2
  <2>5. Join(packed.open, text) \in Fitting
    BY <2>3, <2>4 DEF Fitting
  <2> QED BY <2>1, <2>5 DEF Packings
<1> QED BY <1>3, <1>4, <1>5, <1>6

\* The texts that Pack goes through, and what it has in hand after each.
LEMMA PackSteps ==
    ASSUME NEW texts \in Seq(Texts),
           NEW parts,
           \A k \in 1 .. Len(texts) : parts[k] \in Seq(Fitting)
    PROVE  \E f \in [0 .. Len(texts) -> Packings] :
              /\ f[0] = NothingPacked
              /\ \A k \in 1 .. Len(texts) : f[k - 1] \in Packings /\ f[k] = AddText(f[k - 1], texts[k], parts[k])
              /\ Pack(texts, parts) = Done(f[Len(texts)])
<1> DEFINE n == Len(texts)
           body(f) == [k \in 0 .. n |-> IF k = 0 THEN NothingPacked ELSE AddText(f[k - 1], texts[k], parts[k])]
           step == [k \in 1 .. n |-> [v \in Packings |-> AddText(v, texts[k], parts[k])]]
<1>1. n \in Nat /\ NothingPacked \in Packings /\ step \in [1 .. n -> [Packings -> Packings]]
  <2>1. \A k \in 1 .. n, v \in Packings : AddText(v, texts[k], parts[k]) \in Packings
    BY AddTextFits
  <2>2. NothingPacked \in Packings
    <3>1. <<>> \in Seq(Fitting)
      OBVIOUS
    <3> QED BY <3>1 DEF NothingPacked, Packings
  <2> QED BY <2>1, <2>2
<1>2. PICK f \in [0 .. n -> Packings] : Unfolds(f, Packings, NothingPacked, n, step)
  <2> HIDE DEF n, step
  <2> QED BY <1>1, Unfolding
<1>3. \A k \in 1 .. n, v \in Packings : step[k][v] = AddText(v, texts[k], parts[k])
  OBVIOUS
<1>4. f = body(f)
  <2>1. ASSUME NEW k \in 0 .. n
        PROVE  f[k] = IF k = 0 THEN NothingPacked ELSE AddText(f[k - 1], texts[k], parts[k])
    <3>1. k = 0 \/ k \in 1 .. n
      BY <1>1
    <3> HIDE DEF n, step
    <3> QED BY <1>2, <1>3, <3>1 DEF Unfolds
  <2>2. f = [k \in 0 .. n |-> f[k]]
    OBVIOUS
  <2> QED BY <2>1, <2>2, Zenon
<1> DEFINE g == CHOOSE h : h = body(h)
<1>5. g = body(g)
  BY <1>4
<1>6. Pack(texts, parts) = Done(g[n])
  BY DEF Pack
<1> HIDE DEF g, step
<1>7. g[n] = f[n]
  <2>1. 0 \in 0 .. n /\ n \in 0 .. n /\ \A k \in 1 .. n : k \in 0 .. n /\ k # 0
    BY <1>1
  <2> HIDE DEF n
  <2>2. g[0] = NothingPacked
    BY <1>5, <2>1
  <2>3. ASSUME NEW k \in 1 .. n
        PROVE  g[k] = AddText(g[k - 1], texts[k], parts[k])
    BY <1>5, <2>1
  <2>4. \A k \in 1 .. n : g[k - 1] \in Packings => g[k] = step[k][g[k - 1]]
    BY <1>3, <2>3
  <2> QED BY <1>2, <2>1, <2>2, <2>4 DEF Unfolds
<1> QED BY <1>2, <1>3, <1>6, <1>7 DEF Unfolds

\* What is packed fits.
LEMMA PackFits ==
    ASSUME NEW texts \in Seq(Texts), NEW parts,
           \A k \in 1 .. Len(texts) : parts[k] \in Seq(Fitting)
    PROVE  Pack(texts, parts) \in Seq(Fitting)
<1>1. PICK f \in [0 .. Len(texts) -> Packings] : Pack(texts, parts) = Done(f[Len(texts)])
  BY PackSteps
<1>2. f[Len(texts)] \in Packings
  <2>1. Len(texts) \in 0 .. Len(texts)
    OBVIOUS
  <2> QED BY <2>1
<1> QED BY <1>1, <1>2, DoneFits

\* Units that are packed fit.
LEMMA PackUnitsFits ==
    ASSUME NEW units \in Seq(Texts)
    PROVE  PackUnits(units) \in Seq(Fitting)
<1> DEFINE parts == [n \in 1 .. Len(units) |-> HardSplit(units[n])]
<1>1. \A k \in 1 .. Len(units) : parts[k] \in Seq(Fitting)
  BY HardSplitFits, ElementOfSeq DEF Fitting
<1>2. Pack(units, parts) \in Seq(Fitting)
  <2> HIDE DEF parts
  <2> QED BY <1>1, PackFits
<1> QED BY <1>2 DEF PackUnits

\* What is packed by sentences fits, and so does a section.
LEMMA PackSentencesFits ==
    ASSUME NEW text \in Texts
    PROVE  PackSentences(text) \in Seq(Fitting)
<1>1. PICK sentences \in Seq(Texts) : sentences = Sentences(text)
  BY SentencesAreTexts
<1> QED BY <1>1, PackUnitsFits DEF PackSentences

LEMMA PackSectionFits ==
    ASSUME NEW text \in Texts, NEW bullets, Space \notin bullets
    PROVE  PackSection(text, bullets) \in Seq(Fitting)
<1>1. PICK units \in Seq(Texts) : units = ListItemsAndSentences(text, bullets)
  BY UnitsAreTexts
<1> QED BY <1>1, PackUnitsFits DEF PackSection

\* The items of a document, whichever chunker it is for.
AnyItem == [kind : UNION {ItemKinds[chunker] : chunker \in DOMAIN ItemKinds},
            size : Nat \ {0}]

\* Cut makes parts, also of nothing.
LEMMA CutType ==
    ASSUME NEW S, NEW s \in Seq(S), NEW positions
    PROVE  Cut(s, positions) \in Parts(S)
<1>1. PICK f \in [0 .. Len(s) -> Parts(S)] : Cut(s, positions) = f[Len(s)]
  BY CutSteps
<1>2. Len(s) \in 0 .. Len(s)
  OBVIOUS
<1> QED BY <1>1, <1>2

\* The text of some items.
LEMMA PassageIsText ==
    ASSUME NEW items \in Seq(AnyItem), NEW part \in Seq(1 .. Len(items)), part # <<>>
    PROVE  Passage(items, part) \in Texts
<1> DEFINE texts == [n \in 1 .. Len(part) |->
              Characters(part[n], items[part[n]].size, EndsSentence(items[part[n]]))]
<1>1. ASSUME NEW n \in 1 .. Len(part)
      PROVE  Characters(part[n], items[part[n]].size, EndsSentence(items[part[n]]))
                \in Texts
  <2>1. PICK i \in 1 .. Len(items) : i = part[n]
    OBVIOUS
  <2>2. items[i] \in AnyItem /\ i \in Nat \ {0}
    OBVIOUS
  <2>3. PICK ends \in BOOLEAN : ends = EndsSentence(items[i])
    BY DEF EndsSentence
  <2>4. PICK size \in Nat \ {0} : size = items[i].size
    BY <2>2 DEF AnyItem
  <2>5. /\ Characters(i, size, ends) \in Seq(Letter)
        /\ Len(Characters(i, size, ends)) = size
    BY <2>2, CharactersAreLetters
  <2>6. Characters(i, size, ends) # <<>>
    BY <2>5
  <2>7. Characters(i, size, ends) \in Texts
    BY <2>5, <2>6, LettersAreTidy
  <2> QED BY <2>1, <2>3, <2>4, <2>7, Zenon
<1>2. texts \in Seq(Texts)
  <2>1. Len(part) \in Nat
    OBVIOUS
  <2> QED BY <1>1, <2>1, IsASeq
<1>3. Len(texts) = Len(part) /\ Len(part) # 0
  OBVIOUS
<1> HIDE DEF texts
<1>4. JoinAll(texts) \in Texts
  BY <1>2, <1>3, JoinAllTexts
<1> QED BY <1>4 DEF Passage, texts

\* The texts of the parts of a document.
LEMMA PassagesAreTexts ==
    ASSUME NEW items \in Seq(AnyItem), NEW parts \in Parts(1 .. Len(items))
    PROVE  Passages(items, parts) \in Seq(Texts)
<1>1. Len(parts) \in Nat /\ \A n \in 1 .. Len(parts) : parts[n] \in Seq(1 .. Len(items)) \ {<<>>}
  BY DEF Parts
<1>2. \A n \in 1 .. Len(parts) : Passage(items, parts[n]) \in Texts
  BY <1>1, PassageIsText
<1> QED BY <1>1, <1>2, IsASeq DEF Passages

\* The items have their indices.
LEMMA IndicesType ==
    ASSUME NEW items \in Seq(AnyItem)
    PROVE  Indices(items) \in Seq(1 .. Len(items))
<1>1. Len(items) \in Nat
  OBVIOUS
<1> QED BY <1>1, IsASeq DEF Indices

\* The chunks of a file by paragraph.
LEMMA ParagraphsFit ==
    ASSUME NEW items \in Seq(AnyItem)
    PROVE  ChunkParagraphs(items) \in Seq(Fitting)
<1> DEFINE lines == Indices(items)
           cut == Cut(lines, PositionsOf(items, lines, "paragraph"))
<1>1. cut \in Parts(1 .. Len(items))
  BY IndicesType, CutType
<1> HIDE DEF cut
<1>2. PICK texts \in Seq(Texts) : texts = Passages(items, cut)
  BY <1>1, PassagesAreTexts
<1> DEFINE parts == [n \in 1 .. Len(texts) |-> PackSentences(texts[n])]
<1>3. \A k \in 1 .. Len(texts) : parts[k] \in Seq(Fitting)
  BY PackSentencesFits
<1>4. Pack(texts, parts) \in Seq(Fitting)
  <2> HIDE DEF parts
  <2> QED BY <1>3, PackFits
<1> QED BY <1>2, <1>4 DEF ChunkParagraphs, cut

\* One section more.
LEMMA FoldInTexts ==
    ASSUME NEW merged \in Seq(Texts), NEW body \in Texts
    PROVE  FoldIn(merged, body) \in Seq(Texts)
<1> DEFINE m == Len(merged)
<1>1. CASE merged # <<>> /\ Len(merged[m]) < MinSection
  <2>1. FoldIn(merged, body) = [merged EXCEPT ![m] = Join(merged[m], body)]
    BY <1>1 DEF FoldIn
  <2>2. m \in 1 .. m /\ merged[m] \in Texts
    BY <1>1
  <2>3. Join(merged[m], body) \in Texts
    BY <2>2, JoinTexts
  <2> QED BY <2>1, <2>2, <2>3
<1>2. CASE ~(merged # <<>> /\ Len(merged[m]) < MinSection)
  <2>1. FoldIn(merged, body) = Append(merged, body)
    BY <1>2 DEF FoldIn
  <2> QED BY <2>1
<1> QED BY <1>1, <1>2

\* The sections that Fold goes through, and what is merged of them after each.
LEMMA FoldSteps ==
    ASSUME NEW sections \in Seq(Texts)
    PROVE  \E f \in [0 .. Len(sections) -> Seq(Texts)] :
              /\ f[0] = <<>>
              /\ \A k \in 1 .. Len(sections) : f[k - 1] \in Seq(Texts) /\ f[k] = FoldIn(f[k - 1], sections[k])
              /\ Fold(sections) = f[Len(sections)]
<1> DEFINE n == Len(sections)
           body(f) == [k \in 0 .. n |-> IF k = 0 THEN <<>> ELSE FoldIn(f[k - 1], sections[k])]
           step == [k \in 1 .. n |-> [v \in Seq(Texts) |-> FoldIn(v, sections[k])]]
<1>1. n \in Nat /\ <<>> \in Seq(Texts) /\ step \in [1 .. n -> [Seq(Texts) -> Seq(Texts)]]
  <2>1. \A k \in 1 .. n, v \in Seq(Texts) : FoldIn(v, sections[k]) \in Seq(Texts)
    BY FoldInTexts
  <2> QED BY <2>1
<1>2. PICK f \in [0 .. n -> Seq(Texts)] : Unfolds(f, Seq(Texts), <<>>, n, step)
  <2> HIDE DEF n, step
  <2> QED BY <1>1, Unfolding
<1>3. \A k \in 1 .. n, v \in Seq(Texts) : step[k][v] = FoldIn(v, sections[k])
  OBVIOUS
<1>4. f = body(f)
  <2>1. ASSUME NEW k \in 0 .. n
        PROVE  f[k] = IF k = 0 THEN <<>> ELSE FoldIn(f[k - 1], sections[k])
    <3>1. k = 0 \/ k \in 1 .. n
      BY <1>1
    <3> HIDE DEF n, step
    <3> QED BY <1>2, <1>3, <3>1 DEF Unfolds
  <2>2. f = [k \in 0 .. n |-> f[k]]
    OBVIOUS
  <2> QED BY <2>1, <2>2, Zenon
<1> DEFINE g == CHOOSE h : h = body(h)
<1>5. g = body(g)
  BY <1>4
<1>6. Fold(sections) = g[n]
  BY DEF Fold
<1> HIDE DEF g, step
<1>7. g[n] = f[n]
  <2>1. 0 \in 0 .. n /\ n \in 0 .. n /\ \A k \in 1 .. n : k \in 0 .. n /\ k # 0
    BY <1>1
  <2> HIDE DEF n
  <2>2. g[0] = <<>>
    BY <1>5, <2>1
  <2>3. ASSUME NEW k \in 1 .. n
        PROVE  g[k] = FoldIn(g[k - 1], sections[k])
    BY <1>5, <2>1
  <2>4. \A k \in 1 .. n : g[k - 1] \in Seq(Texts) => g[k] = step[k][g[k - 1]]
    BY <1>3, <2>3
  <2> QED BY <1>2, <2>1, <2>2, <2>4 DEF Unfolds
<1> QED BY <1>2, <1>3, <1>6, <1>7 DEF Unfolds

\* The chunks of a file by section.
LEMMA SectionsFit ==
    ASSUME NEW items \in Seq(AnyItem)
    PROVE  ChunkSections(items) \in Seq(Fitting)
<1> DEFINE noise == {i \in 1 .. Len(items) : items[i].kind = "noise"}
           lines == Without(Indices(items), noise)
           cut == Cut(lines, PositionsOf(items, lines, "heading"))
           bodies == Fold(Passages(items, cut))
           chunked == [n \in 1 .. Len(bodies) |->
               IF Len(bodies[n]) <= Target THEN <<bodies[n]>>
               ELSE PackSection(bodies[n], Bullets(items))]
<1>1. lines \in Seq(1 .. Len(items))
  <2>1. Without(Indices(items), noise) \in Seq((1 .. Len(items)) \ noise)
    BY IndicesType, WithoutType
  <2>2. (1 .. Len(items)) \ noise \subseteq 1 .. Len(items)
    OBVIOUS
  <2> HIDE DEF noise
  <2> QED BY <2>1, <2>2, SeqMonotonic
<1> HIDE DEF lines
<1>2. cut \in Parts(1 .. Len(items))
  BY <1>1, CutType
<1> HIDE DEF cut
<1>3. Passages(items, cut) \in Seq(Texts)
  BY <1>2, PassagesAreTexts
<1>4. bodies \in Seq(Texts)
  <2>1. PICK sections \in Seq(Texts) : sections = Passages(items, cut)
    BY <1>3
  <2>2. PICK f \in [0 .. Len(sections) -> Seq(Texts)] : Fold(sections) = f[Len(sections)]
    BY FoldSteps
  <2>3. Len(sections) \in 0 .. Len(sections)
    OBVIOUS
  <2> QED BY <2>1, <2>2, <2>3
<1> HIDE DEF bodies
<1>5. ASSUME NEW n \in 1 .. Len(bodies)
      PROVE  (IF Len(bodies[n]) <= Target THEN <<bodies[n]>>
              ELSE PackSection(bodies[n], Bullets(items))) \in Seq(Fitting)
  <2>1. PICK body \in Texts : body = bodies[n]
    BY <1>4
  <2>2. PackSection(body, Bullets(items)) \in Seq(Fitting)
    BY PackSectionFits, BulletsAreNoSpace
  <2>3. Len(body) <= Target => <<body>> \in Seq(Fitting)
    BY DEF Fitting
  <2> QED BY <2>1, <2>2, <2>3
<1>6. chunked \in Seq(Seq(Fitting))
  <2>1. Len(bodies) \in Nat
    BY <1>4
  <2> QED BY <1>5, <2>1, IsASeq
<1>7. Flat(chunked) \in Seq(Fitting)
  <2> HIDE DEF chunked
  <2> QED BY <1>6, FlatType
<1> QED BY <1>7 DEF ChunkSections, bodies, cut, lines

(***************************************************************************)
(* HTML.                                                                   *)
(***************************************************************************)

\* What the parser reports, what it has in hand, and what becomes of it.
HtmlItem == [kind : {"data", "heading", "/heading", "/block", "skip", "/skip"},
             size : Nat \ {0}]
Words == Seq(Letter) \ {<<>>}
AnySegment == [kind : {"text", "heading"}, text : Words]
Parsings == [buffer : Seq(Letter), inHeading : BOOLEAN, depth : Nat,
             segments : Seq(AnySegment)]

\* The buffer is flushed into a segment, or dropped.
LEMMA FlushType ==
    ASSUME NEW parser \in Parsings
    PROVE  Flush(parser) \in Parsings
<1>1. parser.buffer \in Seq(Letter) /\ parser.segments \in Seq(AnySegment)
  BY DEF Parsings
<1>2. <<>> \in Seq(Letter)
  OBVIOUS
<1>3. CASE parser.buffer # <<>> /\ ~parser.inHeading
  <2> DEFINE more == Append(parser.segments, [kind |-> "text", text |-> parser.buffer])
  <2>1. [kind |-> "text", text |-> parser.buffer] \in AnySegment
    BY <1>1, <1>3 DEF AnySegment, Words
  <2>2. more \in Seq(AnySegment)
    BY <1>1, <2>1
  <2>3. Flush(parser) = [parser EXCEPT !.buffer = <<>>, !.segments = more]
    BY <1>3 DEF Flush
  <2> HIDE DEF more
  <2> QED BY <1>2, <2>2, <2>3 DEF Parsings
<1>4. CASE ~(parser.buffer # <<>> /\ ~parser.inHeading)
  <2>1. Flush(parser) = [parser EXCEPT !.buffer = <<>>, !.segments = parser.segments]
    BY <1>4 DEF Flush
  <2> QED BY <1>1, <1>2, <2>1 DEF Parsings
<1> QED BY <1>3, <1>4

\* One event of the parser.
LEMMA HandleType ==
    ASSUME NEW parser \in Parsings, NEW i \in Nat \ {0}, NEW item \in HtmlItem
    PROVE  Handle(parser, i, item) \in Parsings
<1>1. /\ parser.buffer \in Seq(Letter) /\ parser.segments \in Seq(AnySegment)
      /\ parser.depth \in Nat /\ <<>> \in Seq(Letter)
  BY DEF Parsings
<1>2. CASE item.kind = "skip"
  <2>1. Handle(parser, i, item) = [parser EXCEPT !.depth = parser.depth + 1]
    BY <1>2 DEF Handle
  <2> QED BY <1>1, <2>1 DEF Parsings
<1>3. CASE item.kind = "/skip"
  <2>1. PICK d \in Nat : d = IF parser.depth = 0 THEN 0 ELSE parser.depth - 1
    BY <1>1
  <2>2. Handle(parser, i, item) = [parser EXCEPT !.depth = d]
    BY <1>3, <2>1 DEF Handle
  <2> QED BY <2>2 DEF Parsings
<1>4. CASE item.kind = "heading"
  <2>1. Handle(parser, i, item) = [Flush(parser) EXCEPT !.inHeading = TRUE]
    BY <1>4 DEF Handle
  <2> QED BY <2>1, FlushType DEF Parsings
<1>5. CASE item.kind = "/heading"
  <2> DEFINE more == IF parser.buffer # <<>>
                     THEN Append(parser.segments, [kind |-> "heading", text |-> parser.buffer])
                     ELSE parser.segments
  <2>1. more \in Seq(AnySegment)
    <3>1. CASE parser.buffer # <<>>
      <4>1. [kind |-> "heading", text |-> parser.buffer] \in AnySegment
        BY <1>1, <3>1 DEF AnySegment, Words
      <4> QED BY <1>1, <3>1, <4>1
    <3> QED BY <1>1, <3>1
  <2>2. Handle(parser, i, item) =
          [parser EXCEPT !.buffer = <<>>, !.inHeading = FALSE, !.segments = more]
    BY <1>5 DEF Handle
  <2> HIDE DEF more
  <2> QED BY <1>1, <2>1, <2>2 DEF Parsings
<1>6. CASE item.kind = "/block"
  <2>1. Handle(parser, i, item) = Flush(parser)
    BY <1>6 DEF Handle
  <2> QED BY <2>1, FlushType
<1>7. CASE item.kind = "data" /\ parser.depth > 0
  BY <1>7 DEF Handle
<1>8. CASE item.kind = "data" /\ ~(parser.depth > 0)
  <2>1. Handle(parser, i, item) =
          [parser EXCEPT !.buffer = parser.buffer \o Characters(i, item.size, FALSE)]
    BY <1>8 DEF Handle
  <2>2. Characters(i, item.size, FALSE) \in Seq(Letter)
    <3>1. item.size \in Nat \ {0}
      BY DEF HtmlItem
    <3> QED BY <3>1, CharactersAreLetters
  <2>3. parser.buffer \o Characters(i, item.size, FALSE) \in Seq(Letter)
    BY <1>1, <2>2, ConcatProperties
  <2> QED BY <2>1, <2>3 DEF Parsings
<1> QED BY <1>2, <1>3, <1>4, <1>5, <1>6, <1>7, <1>8 DEF HtmlItem

\* The events that the parser handles, and what it has in hand after each.
LEMMA ParserSteps ==
    ASSUME NEW items \in Seq(HtmlItem)
    PROVE  \E f \in [0 .. Len(items) -> Parsings] :
              /\ f[0] = NothingParsed
              /\ \A k \in 1 .. Len(items) : f[k - 1] \in Parsings /\ f[k] = Handle(f[k - 1], k, items[k])
              /\ Segments(items) = Flush(f[Len(items)]).segments
<1> DEFINE n == Len(items)
           body(f) == [k \in 0 .. n |-> IF k = 0 THEN NothingParsed ELSE Handle(f[k - 1], k, items[k])]
           step == [k \in 1 .. n |-> [v \in Parsings |-> Handle(v, k, items[k])]]
<1>1. n \in Nat /\ NothingParsed \in Parsings /\ step \in [1 .. n -> [Parsings -> Parsings]]
  <2>1. \A k \in 1 .. n, v \in Parsings : Handle(v, k, items[k]) \in Parsings
    BY HandleType
  <2>2. NothingParsed \in Parsings
    <3>1. <<>> \in Seq(Letter) /\ <<>> \in Seq(AnySegment)
      OBVIOUS
    <3> QED BY <3>1 DEF NothingParsed, Parsings
  <2> QED BY <2>1, <2>2
<1>2. PICK f \in [0 .. n -> Parsings] : Unfolds(f, Parsings, NothingParsed, n, step)
  <2> HIDE DEF n, step
  <2> QED BY <1>1, Unfolding
<1>3. \A k \in 1 .. n, v \in Parsings : step[k][v] = Handle(v, k, items[k])
  OBVIOUS
<1>4. f = body(f)
  <2>1. ASSUME NEW k \in 0 .. n
        PROVE  f[k] = IF k = 0 THEN NothingParsed ELSE Handle(f[k - 1], k, items[k])
    <3>1. k = 0 \/ k \in 1 .. n
      BY <1>1
    <3> HIDE DEF n, step
    <3> QED BY <1>2, <1>3, <3>1 DEF Unfolds
  <2>2. f = [k \in 0 .. n |-> f[k]]
    OBVIOUS
  <2> QED BY <2>1, <2>2, Zenon
<1> DEFINE g == CHOOSE h : h = body(h)
<1>5. g = body(g)
  BY <1>4
<1>6. Segments(items) = Flush(g[n]).segments
  BY DEF Segments
<1> HIDE DEF g, step
<1>7. g[n] = f[n]
  <2>1. 0 \in 0 .. n /\ n \in 0 .. n /\ \A k \in 1 .. n : k \in 0 .. n /\ k # 0
    BY <1>1
  <2> HIDE DEF n
  <2>2. g[0] = NothingParsed
    BY <1>5, <2>1
  <2>3. ASSUME NEW k \in 1 .. n
        PROVE  g[k] = Handle(g[k - 1], k, items[k])
    BY <1>5, <2>1
  <2>4. \A k \in 1 .. n : g[k - 1] \in Parsings => g[k] = step[k][g[k - 1]]
    BY <1>3, <2>3
  <2> QED BY <1>2, <2>1, <2>2, <2>4 DEF Unfolds
<1> QED BY <1>2, <1>3, <1>6, <1>7 DEF Unfolds

\* The segments of a document.
LEMMA SegmentsType ==
    ASSUME NEW items \in Seq(HtmlItem)
    PROVE  Segments(items) \in Seq(AnySegment)
<1>1. PICK f \in [0 .. Len(items) -> Parsings] : Segments(items) = Flush(f[Len(items)]).segments
  BY ParserSteps
<1>2. Len(items) \in 0 .. Len(items)
  OBVIOUS
<1>3. PICK parser \in Parsings : parser = f[Len(items)]
  BY <1>2
<1>4. Flush(parser).segments \in Seq(AnySegment)
  BY FlushType DEF Parsings
<1> QED BY <1>1, <1>3, <1>4

\* One more is added up.
LEMMA FlatAppend ==
    ASSUME NEW S, NEW seqs \in Seq(Seq(S)), NEW s \in Seq(S)
    PROVE  Flat(Append(seqs, s)) = Flat(seqs) \o s
<1> DEFINE n == Len(seqs)  more == Append(seqs, s)
<1>1. /\ n \in Nat /\ more \in Seq(Seq(S)) /\ Len(more) = n + 1 /\ more[n + 1] = s
      /\ \A k \in 1 .. n : more[k] = seqs[k]
  BY AppendProperties
<1>2. PICK f \in [0 .. n -> Seq(S)] :
         /\ f[0] = <<>>
         /\ \A k \in 1 .. n : f[k - 1] \in Seq(S) /\ f[k] = f[k - 1] \o seqs[k]
         /\ Flat(seqs) = f[n]
  BY FlatSteps
<1> HIDE DEF more
<1>3. PICK g \in [0 .. Len(more) -> Seq(S)] :
         /\ g[0] = <<>>
         /\ \A k \in 1 .. Len(more) : g[k - 1] \in Seq(S) /\ g[k] = g[k - 1] \o more[k]
         /\ Flat(more) = g[Len(more)]
  BY <1>1, FlatSteps
<1> DEFINE same == {k \in 0 .. n : g[k] = f[k]}
<1>4. 0 \in same
  BY <1>1, <1>2, <1>3
<1>5. ASSUME NEW k \in 1 .. n, k - 1 \in same
      PROVE  k \in same
  <2>1. k \in 1 .. Len(more) /\ k \in 0 .. n
    BY <1>1
  <2>2. g[k] = g[k - 1] \o seqs[k]
    BY <1>1, <1>3, <2>1
  <2>3. g[k - 1] = f[k - 1]
    BY <1>5
  <2> QED BY <1>2, <2>1, <2>2, <2>3
<1> HIDE DEF same
<1>6. \A k \in 0 .. n : k \in same
  BY <1>1, <1>4, <1>5, BoundedInduction
<1>7. g[n] = f[n]
  BY <1>1, <1>6 DEF same
<1>8. g[n + 1] = g[n] \o s
  <2>1. PICK k \in 1 .. Len(more) : k = n + 1 /\ k - 1 = n
    BY <1>1
  <2> QED BY <1>1, <1>3, <2>1
<1> QED BY <1>1, <1>2, <1>3, <1>7, <1>8 DEF more

\* Of nothing there is nothing.
LEMMA FlatEmpty == Flat(<<>>) = <<>>
<1>1. <<>> \in Seq(Seq(Letter)) /\ Len(<<>>) = 0
  OBVIOUS
<1>2. PICK f \in [0 .. Len(<<>>) -> Seq(Letter)] : f[0] = <<>> /\ Flat(<<>>) = f[Len(<<>>)]
  BY <1>1, FlatSteps
<1> QED BY <1>1, <1>2

\* Chunks of HTML, and what chunk_html has in hand: pieces that are together no
\* longer than the target.
HtmlChunk == [text : {t \in Seq(Char) : Fits(t, 2 * Target - 1)}, heading : Seq(Letter)]
Pending == {pieces \in Seq(Words) : Width(pieces) <= Target}
Chunkings == [chunks : Seq(HtmlChunk), open : Pending, heading : Seq(Letter)]

LEMMA WordsAreTexts == Words \subseteq Texts
BY LettersAreTidy DEF Words

\* One piece more.
LEMMA WidthOfOneMore ==
    ASSUME NEW pieces \in Seq(Words), NEW text \in Words
    PROVE  /\ Width(pieces) \in Nat /\ Len(text) \in Nat
           /\ Append(pieces, text) \in Seq(Words)
           /\ Width(Append(pieces, text)) = Width(pieces) + Len(text)
<1>1. pieces \in Seq(Seq(Letter)) /\ text \in Seq(Letter)
  BY DEF Words
<1>2. Flat(pieces) \in Seq(Letter) /\ Flat(Append(pieces, text)) = Flat(pieces) \o text
  BY <1>1, FlatType, FlatAppend
<1>3. Len(Flat(pieces) \o text) = Len(Flat(pieces)) + Len(text)
  BY <1>1, <1>2
<1> QED BY <1>1, <1>2, <1>3 DEF Width

\* No piece at all.
LEMMA NothingPending == <<>> \in Pending
<1>1. <<>> \in Seq(Seq(Letter)) /\ Len(<<>>) = 0 /\ <<>> \in Seq(Words)
  OBVIOUS
<1>2. Flat(<<>>) = <<>>
  BY FlatEmpty
<1>3. Width(<<>>) = 0
  BY <1>1, <1>2 DEF Width
<1> QED BY <1>1, <1>3, ChunkingAssumption DEF Pending

\* What is pending makes one chunk, if it is anything.
LEMMA CloseType ==
    ASSUME NEW state \in Chunkings
    PROVE  Close(state) \in Seq(HtmlChunk)
<1>1. /\ state.chunks \in Seq(HtmlChunk) /\ state.open \in Pending
      /\ state.heading \in Seq(Letter)
  BY DEF Chunkings
<1>2. CASE state.open = <<>>
  BY <1>1, <1>2 DEF Close
<1>3. CASE state.open # <<>>
  <2>1. PICK pieces \in Seq(Words) :
           pieces = state.open /\ pieces # <<>> /\ Width(pieces) <= Target
    BY <1>1, <1>3 DEF Pending
  <2>2. pieces \in Seq(Texts)
    BY WordsAreTexts, SeqMonotonic
  <2>3. JoinAll(pieces) \in Texts
    BY <2>1, <2>2, JoinAllTexts
  <2>4. /\ Width(pieces) \in Nat /\ Len(JoinAll(pieces)) \in Nat
        /\ Len(JoinAll(pieces)) + 1 <= 2 * Width(pieces)
    BY <2>1, <2>2, JoinAllFits DEF Width
  <2>5. Len(JoinAll(pieces)) <= 2 * Target - 1
    BY <2>1, <2>4, ChunkingAssumption
  <2>6. [text |-> JoinAll(pieces), heading |-> state.heading] \in HtmlChunk
    <3>1. JoinAll(pieces) \in Seq(Char)
      BY <2>3 DEF Texts
    <3> QED BY <1>1, <2>3, <2>5, <3>1, TextFits DEF HtmlChunk
  <2>7. Close(state) = Append(state.chunks, [text |-> JoinAll(pieces), heading |-> state.heading])
    BY <1>3, <2>1 DEF Close
  <2> QED BY <1>1, <2>6, <2>7
<1> QED BY <1>2, <1>3

\* A piece that is too long makes chunks of its own.
LEMMA PiecesType ==
    ASSUME NEW text \in Words, NEW heading \in Seq(Letter)
    PROVE  Pieces(text, heading) \in Seq(HtmlChunk)
<1>1. PICK slices \in Seq(Slicings) : slices = Slices(text)
  BY WordsAreTexts, SlicesType
<1>2. ASSUME NEW n \in 1 .. Len(slices)
      PROVE  [text |-> slices[n], heading |-> heading] \in HtmlChunk
  <2>1. PICK slice \in Slicings : slice = slices[n]
    OBVIOUS
  <2>2. /\ slice \in Seq(Char) /\ Len(slice) <= Target
        /\ \E k \in 1 .. Len(slice) : slice[k] # Space
    BY DEF Slicings
  <2>3. Len(slice) <= 2 * Target - 1 /\ DOMAIN slice = 1 .. Len(slice)
    BY <2>2, ChunkingAssumption
  <2> QED BY <2>1, <2>2, <2>3 DEF HtmlChunk, Fits
<1>3. Len(slices) \in Nat
  OBVIOUS
<1> QED BY <1>1, <1>2, <1>3, IsASeq DEF Pieces

\* One segment more.
LEMMA AddSegmentType ==
    ASSUME NEW state \in Chunkings, NEW segment \in AnySegment
    PROVE  AddSegment(state, segment) \in Chunkings
<1>1. /\ state.chunks \in Seq(HtmlChunk) /\ state.open \in Pending
      /\ state.heading \in Seq(Letter)
  BY DEF Chunkings
<1>2. PICK text \in Words : text = segment.text
  BY DEF AnySegment
<1>3. Close(state) \in Seq(HtmlChunk)
  BY CloseType
<1>4. /\ state.open \in Seq(Words) /\ Width(state.open) \in Nat /\ Len(text) \in Nat
      /\ Append(state.open, text) \in Seq(Words)
      /\ Width(Append(state.open, text)) = Width(state.open) + Len(text)
  BY <1>1, WidthOfOneMore DEF Pending
<1>5. Target \in Nat
  BY ChunkingAssumption
<1>6. CASE segment.kind = "heading"
  <2>1. AddSegment(state, segment) = [chunks |-> Close(state), open |-> <<>>, heading |-> text]
    BY <1>2, <1>6 DEF AddSegment, AddHeading
  <2>2. text \in Seq(Letter)
    BY DEF Words
  <2> QED BY <1>3, <2>1, <2>2, NothingPending DEF Chunkings
<1>7. CASE segment.kind # "heading" /\ Len(text) > Target
  <2>1. AddSegment(state, segment) =
          [state EXCEPT !.open = <<>>, !.chunks = Close(state) \o Pieces(text, state.heading)]
    BY <1>2, <1>4, <1>5, <1>7 DEF AddSegment, AddPiece
  <2>2. Close(state) \o Pieces(text, state.heading) \in Seq(HtmlChunk)
    BY <1>1, <1>3, PiecesType
  <2> QED BY <2>1, <2>2, NothingPending DEF Chunkings
<1>8. CASE /\ segment.kind # "heading" /\ Len(text) <= Target
           /\ Width(state.open) + Len(text) > Target
  <2>1. AddSegment(state, segment) = [state EXCEPT !.chunks = Close(state), !.open = <<text>>]
    BY <1>2, <1>4, <1>5, <1>8 DEF AddSegment, AddPiece
  <2>2. <<text>> \in Pending
    <3>1. <<>> \in Seq(Words) /\ Append(<<>>, text) = <<text>>
      OBVIOUS
    <3>2. <<text>> \in Seq(Words) /\ Width(<<text>>) = Width(<<>>) + Len(text)
      BY <3>1, WidthOfOneMore
    <3>3. Width(<<>>) = 0
      BY FlatEmpty DEF Width
    <3> QED BY <1>4, <1>8, <3>2, <3>3 DEF Pending
  <2> QED BY <1>3, <2>1, <2>2 DEF Chunkings
<1>9. CASE /\ segment.kind # "heading" /\ Len(text) <= Target
           /\ ~(Width(state.open) + Len(text) > Target)
  <2>1. AddSegment(state, segment) = [state EXCEPT !.open = Append(state.open, text)]
    BY <1>2, <1>4, <1>5, <1>9 DEF AddSegment, AddPiece
  <2>2. Append(state.open, text) \in Pending
    BY <1>4, <1>5, <1>9 DEF Pending
  <2> QED BY <2>1, <2>2 DEF Chunkings
<1> QED BY <1>4, <1>5, <1>6, <1>7, <1>8, <1>9

\* The segments that chunk_html goes through, and what it has in hand after each.
LEMMA HtmlSteps ==
    ASSUME NEW items \in Seq(HtmlItem)
    PROVE  \E f \in [0 .. Len(Segments(items)) -> Chunkings] :
              /\ f[0] = NothingChunked
              /\ \A k \in 1 .. Len(Segments(items)) : f[k - 1] \in Chunkings /\ f[k] = AddSegment(f[k - 1], Segments(items)[k])
              /\ ChunkHtml(items) = Close(f[Len(Segments(items))])
<1> DEFINE n == Len(Segments(items))
           body(f) == [k \in 0 .. n |-> IF k = 0 THEN NothingChunked ELSE AddSegment(f[k - 1], Segments(items)[k])]
           step == [k \in 1 .. n |-> [v \in Chunkings |-> AddSegment(v, Segments(items)[k])]]
<1>1. n \in Nat /\ NothingChunked \in Chunkings /\ step \in [1 .. n -> [Chunkings -> Chunkings]]
  <2>1. Segments(items) \in Seq(AnySegment)
    BY SegmentsType
  <2>2. \A k \in 1 .. n, v \in Chunkings : AddSegment(v, Segments(items)[k]) \in Chunkings
    BY <2>1, AddSegmentType
  <2>3. NothingChunked \in Chunkings
    <3>1. <<>> \in Seq(Letter) /\ <<>> \in Seq(HtmlChunk)
      OBVIOUS
    <3> QED BY <3>1, NothingPending DEF NothingChunked, Chunkings
  <2> QED BY <2>1, <2>2, <2>3
<1>2. PICK f \in [0 .. n -> Chunkings] : Unfolds(f, Chunkings, NothingChunked, n, step)
  <2> HIDE DEF n, step
  <2> QED BY <1>1, Unfolding
<1>3. \A k \in 1 .. n, v \in Chunkings : step[k][v] = AddSegment(v, Segments(items)[k])
  OBVIOUS
<1>4. f = body(f)
  <2>1. ASSUME NEW k \in 0 .. n
        PROVE  f[k] = IF k = 0 THEN NothingChunked ELSE AddSegment(f[k - 1], Segments(items)[k])
    <3>1. k = 0 \/ k \in 1 .. n
      BY <1>1
    <3> HIDE DEF n, step
    <3> QED BY <1>2, <1>3, <3>1 DEF Unfolds
  <2>2. f = [k \in 0 .. n |-> f[k]]
    OBVIOUS
  <2> QED BY <2>1, <2>2, Zenon
<1> DEFINE g == CHOOSE h : h = body(h)
<1>5. g = body(g)
  BY <1>4
<1>6. ChunkHtml(items) = Close(g[n])
  BY DEF ChunkHtml
<1> HIDE DEF g, step
<1>7. g[n] = f[n]
  <2>1. 0 \in 0 .. n /\ n \in 0 .. n /\ \A k \in 1 .. n : k \in 0 .. n /\ k # 0
    BY <1>1
  <2> HIDE DEF n
  <2>2. g[0] = NothingChunked
    BY <1>5, <2>1
  <2>3. ASSUME NEW k \in 1 .. n
        PROVE  g[k] = AddSegment(g[k - 1], Segments(items)[k])
    BY <1>5, <2>1
  <2>4. \A k \in 1 .. n : g[k - 1] \in Chunkings => g[k] = step[k][g[k - 1]]
    BY <1>3, <2>3
  <2> QED BY <1>2, <2>1, <2>2, <2>4 DEF Unfolds
<1> QED BY <1>2, <1>3, <1>6, <1>7 DEF Unfolds

\* The chunks of an article.
LEMMA HtmlFits ==
    ASSUME NEW items \in Seq(HtmlItem)
    PROVE  ChunkHtml(items) \in Seq(HtmlChunk)
<1> DEFINE n == Len(Segments(items))
<1>1. PICK f \in [0 .. n -> Chunkings] : ChunkHtml(items) = Close(f[n])
  BY HtmlSteps
<1>2. n \in Nat
  <2>1. Segments(items) \in Seq(AnySegment)
    BY SegmentsType
  <2> QED BY <2>1
<1>3. PICK state \in Chunkings : state = f[n]
  <2>1. n \in 0 .. n
    BY <1>2
  <2> HIDE DEF n
  <2> QED BY <2>1
<1> QED BY <1>1, <1>3, CloseType

(***************************************************************************)
(* One document is chunked.                                                *)
(***************************************************************************)

\* The items of a document.
LEMMA ItemsType ==
    /\ DOMAIN ItemKinds = {"html", "paragraphs", "sections"}
    /\ \A chunker \in DOMAIN ItemKinds : Items(chunker) \subseteq AnyItem
    /\ Items("html") \subseteq HtmlItem
<1>1. Sizes \cup {1} \subseteq Nat \ {0}
  BY ChunkingAssumption
<1>2. DOMAIN ItemKinds = {"html", "paragraphs", "sections"}
  BY DEF ItemKinds
<1>3. /\ ItemKinds["html"] = {"data", "heading", "/heading", "/block", "skip", "/skip"}
      /\ ItemKinds["paragraphs"] = {"sentence", "paragraph"}
      /\ ItemKinds["sections"] = {"line", "heading", "noise", "bullet", "bulleted"}
  BY DEF ItemKinds, BulletKinds
<1>4. \A chunker \in DOMAIN ItemKinds :
         ItemKinds[chunker] \subseteq UNION {ItemKinds[c] : c \in DOMAIN ItemKinds}
  OBVIOUS
<1>5. ASSUME NEW chunker \in DOMAIN ItemKinds, NEW item \in Items(chunker)
      PROVE  item \in [kind : ItemKinds[chunker], size : Sizes \cup {1}]
  BY DEF Items
<1>6. \A chunker \in DOMAIN ItemKinds : Items(chunker) \subseteq AnyItem
  BY <1>1, <1>4, <1>5 DEF AnyItem
<1>7. Items("html") \subseteq HtmlItem
  BY <1>1, <1>2, <1>3, <1>5 DEF HtmlItem
<1> QED BY <1>2, <1>6, <1>7

\* The texts without headings.
LEMMA PlainFits ==
    ASSUME NEW texts \in Seq(Fitting), NEW n \in DOMAIN Plain(texts)
    PROVE  Fits(Plain(texts)[n].text, Target)
<1>1. n \in 1 .. Len(texts) /\ Plain(texts)[n].text = texts[n]
  BY DEF Plain
<1>2. texts[n] \in Texts /\ Len(texts[n]) <= Target
  BY <1>1 DEF Fitting
<1> QED BY <1>1, <1>2, TextFits

\* Whichever the document, and whichever the chunker.
LEMMA DocumentFits ==
    ASSUME NEW chunker \in DOMAIN ItemKinds, NEW items \in Seq(Items(chunker)),
           NEW n \in DOMAIN ChunksOf(chunker, items)
    PROVE  Fits(ChunksOf(chunker, items)[n].text,
                IF chunker = "html" THEN 2 * Target - 1 ELSE Target)
<1>1. items \in Seq(AnyItem)
  BY ItemsType, SeqMonotonic
<1>2. CASE chunker = "html"
  <2>1. items \in Seq(HtmlItem)
    BY <1>2, ItemsType, SeqMonotonic
  <2>2. PICK s \in Seq(HtmlChunk) : s = ChunksOf(chunker, items)
    BY <1>2, <2>1, HtmlFits DEF ChunksOf
  <2>3. s[n] \in HtmlChunk
    BY <2>2
  <2> QED BY <1>2, <2>2, <2>3 DEF HtmlChunk
<1>3. CASE chunker = "paragraphs"
  <2>1. PICK texts \in Seq(Fitting) : ChunksOf(chunker, items) = Plain(texts)
    BY <1>1, <1>3, ParagraphsFit DEF ChunksOf
  <2> QED BY <1>3, <2>1, PlainFits
<1>4. CASE chunker = "sections"
  <2>1. PICK texts \in Seq(Fitting) : ChunksOf(chunker, items) = Plain(texts)
    BY <1>1, <1>4, SectionsFit DEF ChunksOf
  <2> QED BY <1>4, <2>1, PlainFits
<1> QED BY <1>2, <1>3, <1>4, ItemsType

\* What is there of a document is what its chunker makes of it.
ChunkInv ==
    \/ document = NoDocument /\ chunks = <<>>
    \/ /\ document.chunker \in DOMAIN ItemKinds
       /\ document.items \in Seq(Items(document.chunker))
       /\ chunks = ChunksOf(document.chunker, document.items)

THEOREM ChunkInvariant == ChunkSpec => []ChunkInv
<1>1. ChunkInit => ChunkInv
  BY DEF ChunkInit, ChunkInv
<1>2. ASSUME ChunkInv, [ChunkDocument]_chunkVars
      PROVE  ChunkInv'
  <2>1. CASE UNCHANGED chunkVars
    BY <1>2, <2>1 DEF ChunkInv, chunkVars
  <2>2. CASE ChunkDocument
    <3>1. PICK chunker \in DOMAIN ItemKinds, n \in 1 .. MaxItems :
             \E items \in [1 .. n -> Items(chunker)] :
                /\ document' = [chunker |-> chunker, items |-> items]
                /\ chunks' = ChunksOf(chunker, items)
      BY <2>2 DEF ChunkDocument
    <3>2. PICK items \in [1 .. n -> Items(chunker)] :
             /\ document' = [chunker |-> chunker, items |-> items]
             /\ chunks' = ChunksOf(chunker, items)
      BY <3>1
    <3>3. items \in Seq(Items(chunker))
      <4>1. n \in Nat
        OBVIOUS
      <4> QED BY <4>1
    <3>4. document'.chunker = chunker /\ document'.items = items
      BY <3>2
    <3> QED BY <3>2, <3>3, <3>4 DEF ChunkInv
  <2> QED BY <1>2, <2>1, <2>2
<1> QED BY <1>1, <1>2, PTL DEF ChunkSpec

\* No chunk is blank, and none is longer than the target: than twice the target
\* less one, if it is of HTML.
THEOREM EveryChunkFits == ChunkSpec => []ChunksFit
<1>1. ASSUME ChunkInv PROVE ChunksFit
  <2>1. CASE chunks = <<>>
    BY <2>1 DEF ChunksFit
  <2>2. CASE /\ document.chunker \in DOMAIN ItemKinds
             /\ document.items \in Seq(Items(document.chunker))
             /\ chunks = ChunksOf(document.chunker, document.items)
    BY <2>2, DocumentFits DEF ChunksFit, IsFor, Fits
  <2> QED BY <1>1, <2>1, <2>2 DEF ChunkInv
<1> QED BY <1>1, ChunkInvariant, PTL

(***************************************************************************)
(* Sequences that are spread out: what each element becomes, one after the *)
(* other.                                                                  *)
(***************************************************************************)

\* A set that has the empty sequence, and with each one every longer one.
LEMMA SequenceInduction ==
    ASSUME NEW S, NEW Q, <<>> \in Q,
           \A s \in Seq(S), x \in S : s \in Q => Append(s, x) \in Q
    PROVE  \A s \in Seq(S) : s \in Q
<1> DEFINE R == {n \in Nat : \A s \in Seq(S) : Len(s) = n => s \in Q}
<1>1. 0 \in R
  <2>1. \A s \in Seq(S) : Len(s) = 0 => s = <<>>
    OBVIOUS
  <2> QED BY <2>1
<1>2. ASSUME NEW n \in Nat, n \in R
      PROVE  n + 1 \in R
  <2>1. ASSUME NEW s \in Seq(S), Len(s) = n + 1
        PROVE  s \in Q
    <3>1. s # <<>>
      BY <2>1
    <3>2. PICK t \in Seq(S), x \in S : s = Append(t, x)
      BY <3>1, SequenceEmptyOrAppend
    <3>3. Len(s) = Len(t) + 1
      BY <3>2, AppendProperties
    <3>4. Len(t) = n
      BY <2>1, <3>3
    <3> QED BY <1>2, <3>2, <3>4
  <2> QED BY <2>1
<1> HIDE DEF R
<1>3. \A n \in Nat : n \in R
  BY <1>1, <1>2, Induction
<1>4. ASSUME NEW s \in Seq(S)
      PROVE  s \in Q
  <2>1. Len(s) \in R
    BY <1>3
  <2> QED BY <2>1 DEF R
<1> QED BY <1>4

\* One element more, after two sequences.
LEMMA ConcatThenAppend ==
    ASSUME NEW S, NEW s \in Seq(S), NEW t \in Seq(S), NEW x \in S
    PROVE  /\ s \o t \in Seq(S) /\ Append(t, x) \in Seq(S)
           /\ s \o Append(t, x) = Append(s \o t, x)
OBVIOUS

\* What f makes of each element of s, one after the other.
Spread(f, s) == Flat([k \in 1 .. Len(s) |-> f[s[k]]])

\* f makes sequences of T of the elements of S.
Spreads(f, S, T) == f \in [S -> Seq(T)]

LEMMA SpreadSeqs ==
    ASSUME NEW S, NEW T, NEW f, Spreads(f, S, T), NEW s \in Seq(S)
    PROVE  [k \in 1 .. Len(s) |-> f[s[k]]] \in Seq(Seq(T))
<1>1. \A k \in 1 .. Len(s) : f[s[k]] \in Seq(T)
  BY ElementOfSeq DEF Spreads
<1>2. Len(s) \in Nat
  OBVIOUS
<1> QED BY <1>1, <1>2, IsASeq

LEMMA SpreadType ==
    ASSUME NEW S, NEW T, NEW f, Spreads(f, S, T), NEW s \in Seq(S)
    PROVE  Spread(f, s) \in Seq(T)
BY SpreadSeqs, FlatType DEF Spread

LEMMA SpreadEmpty == \A f : Spread(f, <<>>) = <<>>
<1>1. ASSUME NEW f
      PROVE  Spread(f, <<>>) = <<>>
  <2>1. [k \in 1 .. Len(<<>>) |-> f[<<>>[k]]] = <<>>
    OBVIOUS
  <2> QED BY <2>1, FlatEmpty DEF Spread
<1> QED BY <1>1

LEMMA SpreadAppend ==
    ASSUME NEW S, NEW T, NEW f, Spreads(f, S, T), NEW s \in Seq(S), NEW x \in S
    PROVE  Spread(f, Append(s, x)) = Spread(f, s) \o f[x]
<1> DEFINE more == [k \in 1 .. Len(Append(s, x)) |-> f[Append(s, x)[k]]]
           few == [k \in 1 .. Len(s) |-> f[s[k]]]
<1>1. /\ Append(s, x) \in Seq(S) /\ Len(Append(s, x)) = Len(s) + 1 /\ Len(s) \in Nat
      /\ \A k \in 1 .. Len(s) : Append(s, x)[k] = s[k]
      /\ Append(s, x)[Len(s) + 1] = x
  BY AppendProperties
<1>2. few \in Seq(Seq(T)) /\ more \in Seq(Seq(T)) /\ f[x] \in Seq(T)
  <2>1. f[x] \in Seq(T)
    BY DEF Spreads
  <2> QED BY SpreadSeqs, <1>1, <2>1
<1>3. Append(few, f[x]) \in Seq(Seq(T)) /\ Len(Append(few, f[x])) = Len(s) + 1
  BY <1>1, <1>2, AppendProperties
<1>4. \A k \in 1 .. Len(s) + 1 : more[k] = Append(few, f[x])[k]
  <2>1. ASSUME NEW k \in 1 .. Len(s)
        PROVE  more[k] = f[s[k]] /\ Append(few, f[x])[k] = f[s[k]]
    <3>1. few[k] = f[s[k]] /\ Len(few) = Len(s)
      BY <1>1
    <3> HIDE DEF few
    <3>2. PICK last \in Seq(T) : last = f[x]
      BY <1>2
    <3>3. k \in 1 .. Len(s) + 1
      BY <1>1
    <3>4. Append(few, last)[k] = few[k]
      BY <1>2, <3>1, AppendProperties
    <3>5. more[k] = f[Append(s, x)[k]]
      BY <1>1, <3>3
    <3> QED BY <1>1, <3>1, <3>2, <3>4, <3>5
  <2>2. more[Len(s) + 1] = f[x]
    BY <1>1
  <2>3. Append(few, f[x])[Len(s) + 1] = f[x]
    <3>1. Len(few) = Len(s)
      BY <1>1
    <3>2. PICK last \in Seq(T) : last = f[x]
      BY <1>2
    <3> HIDE DEF few
    <3> QED BY <1>2, <3>1, <3>2, AppendProperties
  <2>4. ASSUME NEW k \in 1 .. Len(s) + 1
        PROVE  k \in 1 .. Len(s) \/ k = Len(s) + 1
    BY <1>1
  <2> HIDE DEF more, few
  <2> QED BY <2>1, <2>2, <2>3, <2>4, Zenon
<1>5. Len(more) = Len(s) + 1
  BY <1>1
<1> HIDE DEF more, few
<1>6. more = Append(few, f[x])
  BY <1>2, <1>3, <1>4, <1>5, SeqEqual
<1>7. Flat(more) = Flat(few) \o f[x]
  BY <1>2, <1>6, FlatAppend
<1> QED BY <1>7 DEF Spread, more, few

\* Of one element.
LEMMA SpreadOne ==
    ASSUME NEW S, NEW T, NEW f, Spreads(f, S, T), NEW x \in S
    PROVE  Spread(f, <<x>>) = f[x]
<1>1. <<>> \in Seq(S) /\ Append(<<>>, x) = <<x>> /\ f[x] \in Seq(T)
  BY DEF Spreads
<1>2. Spread(f, Append(<<>>, x)) = Spread(f, <<>>) \o f[x]
  BY <1>1, SpreadAppend
<1> QED BY <1>1, <1>2, SpreadEmpty

\* Of two sequences, one after the other.
LEMMA SpreadConcat ==
    ASSUME NEW S, NEW T, NEW f, Spreads(f, S, T),
           NEW s \in Seq(S), NEW u \in Seq(S)
    PROVE  Spread(f, s \o u) = Spread(f, s) \o Spread(f, u)
<1> DEFINE Q == {t \in Seq(S) : Spread(f, s \o t) = Spread(f, s) \o Spread(f, t)}
<1>1. \A r \in Seq(S) : Spread(f, r) \in Seq(T)
  BY SpreadType
<1>2. <<>> \in Q
  <2>1. s \o <<>> = s /\ Spread(f, s) \o <<>> = Spread(f, s)
    BY <1>1
  <2>2. Spread(f, <<>>) = <<>> /\ <<>> \in Seq(S)
    BY SpreadEmpty
  <2> QED BY <2>1, <2>2
<1>3. ASSUME NEW t \in Seq(S), NEW x \in S, t \in Q
      PROVE  Append(t, x) \in Q
  <2>1. s \o Append(t, x) = Append(s \o t, x) /\ s \o t \in Seq(S) /\ Append(t, x) \in Seq(S)
    BY ConcatThenAppend
  <2>2. Spread(f, Append(s \o t, x)) = Spread(f, s \o t) \o f[x]
    <3>1. PICK w \in Seq(S) : w = s \o t
      BY <2>1
    <3>2. Spread(f, Append(w, x)) = Spread(f, w) \o f[x]
      BY SpreadAppend
    <3> QED BY <3>1, <3>2
  <2>3. Spread(f, Append(t, x)) = Spread(f, t) \o f[x]
    BY SpreadAppend
  <2>4. PICK a \in Seq(T), b \in Seq(T), c \in Seq(T) :
           a = Spread(f, s) /\ b = Spread(f, t) /\ c = f[x]
    BY <1>1 DEF Spreads
  <2>5. (a \o b) \o c = a \o (b \o c)
    BY ConcatAssociative
  <2> QED BY <1>3, <2>1, <2>2, <2>3, <2>4, <2>5
<1> HIDE DEF Q
<1>4. \A t \in Seq(S) : t \in Q
  BY <1>2, <1>3, SequenceInduction
<1> QED BY <1>4 DEF Q

\* Of what was spread out itself.
LEMMA SpreadTwice ==
    ASSUME NEW S, NEW T, NEW U, NEW f, Spreads(f, S, T), NEW g, Spreads(g, T, U),
           NEW h, Spreads(h, S, U), \A x \in S : h[x] = Spread(g, f[x]),
           NEW u \in Seq(S)
    PROVE  Spread(g, Spread(f, u)) = Spread(h, u)
<1> DEFINE Q == {s \in Seq(S) : Spread(g, Spread(f, s)) = Spread(h, s)}
<1>1. <<>> \in Q
  <2>1. Spread(f, <<>>) = <<>> /\ Spread(h, <<>>) = <<>> /\ Spread(g, <<>>) = <<>>
    BY SpreadEmpty
  <2> QED BY <2>1
<1>2. ASSUME NEW s \in Seq(S), NEW x \in S, s \in Q
      PROVE  Append(s, x) \in Q
  <2>1. Spread(f, Append(s, x)) = Spread(f, s) \o f[x]
    BY SpreadAppend
  <2>2. Spread(f, s) \in Seq(T) /\ f[x] \in Seq(T)
    BY SpreadType DEF Spreads
  <2>3. Spread(g, Spread(f, s) \o f[x]) = Spread(g, Spread(f, s)) \o Spread(g, f[x])
    BY <2>2, SpreadConcat
  <2>4. Spread(h, Append(s, x)) = Spread(h, s) \o h[x]
    BY SpreadAppend
  <2>5. Append(s, x) \in Seq(S)
    OBVIOUS
  <2> QED BY <1>2, <2>1, <2>3, <2>4, <2>5
<1> HIDE DEF Q
<1>3. \A s \in Seq(S) : s \in Q
  BY <1>1, <1>2, SequenceInduction
<1> QED BY <1>3 DEF Q

\* Sequences that are put one after the other.
Same(S) == [s \in Seq(S) |-> s]

LEMMA FlatIsSpread ==
    ASSUME NEW S, NEW seqs \in Seq(Seq(S))
    PROVE  Spreads(Same(S), Seq(S), S) /\ Flat(seqs) = Spread(Same(S), seqs)
<1>1. seqs = [k \in 1 .. Len(seqs) |-> Same(S)[seqs[k]]]
  <2>1. \A k \in 1 .. Len(seqs) : seqs[k] \in Seq(S)
    BY ElementOfSeq
  <2>2. seqs = [k \in 1 .. Len(seqs) |-> seqs[k]]
    OBVIOUS
  <2> QED BY <2>1, <2>2 DEF Same
<1> QED BY <1>1 DEF Spread, Spreads, Same

LEMMA FlatConcat ==
    ASSUME NEW S, NEW a \in Seq(Seq(S)), NEW b \in Seq(Seq(S))
    PROVE  Flat(a \o b) = Flat(a) \o Flat(b)
<1> DEFINE Q == {t \in Seq(Seq(S)) : Flat(a \o t) = Flat(a) \o Flat(t)}
<1>1. <<>> \in Q
  <2>1. a \o <<>> = a /\ <<>> \in Seq(Seq(S))
    OBVIOUS
  <2>2. Flat(a) \in Seq(S)
    BY FlatType
  <2> QED BY <2>1, <2>2, FlatEmpty
<1>2. ASSUME NEW t \in Seq(Seq(S)), NEW x \in Seq(S), t \in Q
      PROVE  Append(t, x) \in Q
  <2>1. PICK w \in Seq(Seq(S)) : w = a \o t
    <3>1. a \o t \in Seq(Seq(S))
      BY ConcatProperties
    <3> QED BY <3>1
  <2>2. a \o Append(t, x) = Append(w, x) /\ Append(t, x) \in Seq(Seq(S))
    BY <2>1, ConcatThenAppend
  <2>3. Flat(Append(w, x)) = Flat(w) \o x
    BY FlatAppend
  <2>4. Flat(Append(t, x)) = Flat(t) \o x
    BY FlatAppend
  <2>5. PICK c \in Seq(S), d \in Seq(S) : c = Flat(a) /\ d = Flat(t)
    BY FlatType
  <2>6. (c \o d) \o x = c \o (d \o x)
    BY ConcatAssociative
  <2> QED BY <1>2, <2>1, <2>2, <2>3, <2>4, <2>5, <2>6
<1> HIDE DEF Q
<1>3. \A t \in Seq(Seq(S)) : t \in Q
  BY <1>1, <1>2, SequenceInduction
<1> QED BY <1>3 DEF Q

\* What is put one after the other, spread out.
LEMMA SpreadFlat ==
    ASSUME NEW S, NEW T, NEW f, Spreads(f, S, T), NEW seqs \in Seq(Seq(S)),
           NEW g, Spreads(g, Seq(S), T), \A s \in Seq(S) : g[s] = Spread(f, s)
    PROVE  Spread(f, Flat(seqs)) = Spread(g, seqs)
<1>1. \A s \in Seq(S) : g[s] = Spread(f, Same(S)[s])
  BY DEF Same
<1> QED BY <1>1, FlatIsSpread, SpreadTwice

(***************************************************************************)
(* What a text spells: its letters, without the spaces.                    *)
(***************************************************************************)

Spell == [c \in Char |-> IF c \in {Space} THEN <<>> ELSE <<c>>]

LEMMA SpellSpreads == Spreads(Spell, Char, Letter)
<1>1. ASSUME NEW c \in Char
      PROVE  (IF c \in {Space} THEN <<>> ELSE <<c>>) \in Seq(Letter)
  <2>1. c \notin {Space} => c \in Letter
    BY DEF Char
  <2>2. <<>> \in Seq(Letter) /\ (c \in Letter => <<c>> \in Seq(Letter))
    OBVIOUS
  <2> QED BY <2>1, <2>2
<1> QED BY <1>1 DEF Spell, Spreads

LEMMA LettersAreSpelled ==
    ASSUME NEW text \in Seq(Char)
    PROVE  Letters(text) = Spread(Spell, text)
<1>1. \A k \in 1 .. Len(text) : text[k] \in Char
  BY ElementOfSeq
<1>2. [k \in 1 .. Len(text) |-> IF text[k] \in {Space} THEN <<>> ELSE <<text[k]>>]
        = [k \in 1 .. Len(text) |-> Spell[text[k]]]
  BY <1>1, Zenon DEF Spell
<1> QED BY <1>2 DEF Letters, Without, Spread

LEMMA LettersType ==
    ASSUME NEW text \in Seq(Char)
    PROVE  Letters(text) \in Seq(Letter)
BY SpellSpreads, LettersAreSpelled, SpreadType

LEMMA LettersConcat ==
    ASSUME NEW text \in Seq(Char), NEW more \in Seq(Char)
    PROVE  Letters(text \o more) = Letters(text) \o Letters(more)
<1>1. text \o more \in Seq(Char)
  OBVIOUS
<1>2. Spread(Spell, text \o more) = Spread(Spell, text) \o Spread(Spell, more)
  BY SpellSpreads, SpreadConcat
<1> QED BY <1>1, <1>2, LettersAreSpelled

\* No text at all, one without spaces, and one of spaces only.
LEMMA LettersOfNothing == <<>> \in Seq(Char) /\ Letters(<<>>) = <<>>
<1>1. <<>> \in Seq(Char)
  OBVIOUS
<1> QED BY <1>1, LettersAreSpelled, SpreadEmpty

LEMMA LettersOfLetters ==
    ASSUME NEW word \in Seq(Letter)
    PROVE  word \in Seq(Char) /\ Letters(word) = word
<1> DEFINE Q == {s \in Seq(Letter) : s \in Seq(Char) /\ Letters(s) = s}
<1>1. <<>> \in Q
  BY LettersOfNothing
<1>2. ASSUME NEW s \in Seq(Letter), NEW c \in Letter, s \in Q
      PROVE  Append(s, c) \in Q
  <2>1. Append(s, c) \in Seq(Letter) /\ c \in Char /\ s \in Seq(Char)
    BY <1>2 DEF Char
  <2>2. Append(s, c) \in Seq(Char)
    BY <2>1
  <2>3. Spread(Spell, Append(s, c)) = Spread(Spell, s) \o Spell[c]
    BY <2>1, SpellSpreads, SpreadAppend
  <2>4. Spell[c] = <<c>>
    BY <2>1, SpaceIsNoLetter DEF Spell
  <2>5. Spread(Spell, s) = s
    BY <1>2, <2>1, LettersAreSpelled
  <2>6. s \o <<c>> = Append(s, c)
    BY AppendIsConcat
  <2>7. Letters(Append(s, c)) = Append(s, c)
    BY <2>2, <2>3, <2>4, <2>5, <2>6, LettersAreSpelled
  <2> QED BY <2>1, <2>2, <2>7
<1> HIDE DEF Q
<1>3. \A s \in Seq(Letter) : s \in Q
  BY <1>1, <1>2, SequenceInduction
<1> QED BY <1>3 DEF Q

LEMMA LettersOfSpaces ==
    ASSUME NEW blank \in Seq({Space})
    PROVE  blank \in Seq(Char) /\ Letters(blank) = <<>>
<1> DEFINE Q == {s \in Seq({Space}) : s \in Seq(Char) /\ Letters(s) = <<>>}
<1>1. <<>> \in Q
  BY LettersOfNothing
<1>2. ASSUME NEW s \in Seq({Space}), NEW c \in {Space}, s \in Q
      PROVE  Append(s, c) \in Q
  <2>1. Append(s, c) \in Seq({Space}) /\ c \in Char /\ s \in Seq(Char)
    BY <1>2 DEF Char
  <2>2. Append(s, c) \in Seq(Char)
    BY <2>1
  <2>3. Spread(Spell, Append(s, c)) = Spread(Spell, s) \o Spell[c]
    BY <2>1, SpellSpreads, SpreadAppend
  <2>4. Spell[c] = <<>>
    BY <2>1 DEF Spell
  <2>5. Spread(Spell, s) = <<>>
    BY <1>2, <2>1, LettersAreSpelled
  <2>6. Letters(Append(s, c)) = <<>> \o <<>>
    BY <2>2, <2>3, <2>4, <2>5, LettersAreSpelled
  <2> QED BY <2>1, <2>2, <2>6
<1> HIDE DEF Q
<1>3. \A s \in Seq({Space}) : s \in Q
  BY <1>1, <1>2, SequenceInduction
<1> QED BY <1>3 DEF Q

\* Joining adds no letter.
LEMMA LettersOfJoin ==
    ASSUME NEW text \in Seq(Char), NEW more \in Seq(Char)
    PROVE  /\ Join(text, more) \in Seq(Char)
           /\ Letters(Join(text, more)) = Letters(text) \o Letters(more)
<1>1. CASE text = <<>> \/ more = <<>>
  <2>1. Join(text, more) = text \o more /\ text \o more \in Seq(Char)
    BY <1>1 DEF Join
  <2> QED BY <2>1, LettersConcat
<1>2. CASE text # <<>> /\ more # <<>>
  <2>1. <<Space>> \in Seq({Space}) /\ <<Space>> \in Seq(Char)
    BY SpaceIsNoLetter
  <2>2. Join(text, more) = (text \o <<Space>>) \o more
    BY <1>2 DEF Join
  <2>3. PICK left \in Seq(Char) : left = text \o <<Space>>
    BY <2>1, ConcatProperties
  <2>4. Letters(left) = Letters(text) \o Letters(<<Space>>)
    BY <2>1, <2>3, LettersConcat
  <2>5. Letters(<<Space>>) = <<>>
    BY <2>1, LettersOfSpaces
  <2>6. Letters(text) \in Seq(Letter)
    BY LettersType
  <2>7. Letters(left) = Letters(text)
    BY <2>4, <2>5, <2>6
  <2>8. Letters(left \o more) = Letters(left) \o Letters(more)
    BY LettersConcat
  <2>9. left \o more \in Seq(Char)
    OBVIOUS
  <2> QED BY <2>2, <2>3, <2>7, <2>8, <2>9
<1> QED BY <1>1, <1>2

\* Stripping takes none away.
LEMMA LettersOfStrip ==
    ASSUME NEW text \in Seq(Char)
    PROVE  /\ Strip(text) \in Seq(Char)
           /\ Letters(Strip(text)) = Letters(text)
<1> DEFINE n == Len(text)
           inside == {i \in 1 .. Len(text) : text[i] # Space}
           a == CHOOSE i \in inside : \A j \in inside : i <= j
           b == CHOOSE i \in inside : \A j \in inside : j <= i
<1>1. n \in Nat
  OBVIOUS
<1>2. CASE inside = {}
  <2>1. \A k \in 1 .. n : text[k] \in {Space}
    BY <1>2
  <2>2. text \in Seq({Space})
    <3>1. text = [k \in 1 .. n |-> text[k]]
      OBVIOUS
    <3> HIDE DEF n
    <3> QED BY <1>1, <2>1, <3>1, IsASeq
  <2>3. Strip(text) = <<>>
    BY <1>2 DEF Strip
  <2> QED BY <2>2, <2>3, LettersOfSpaces, LettersOfNothing
<1>3. CASE inside # {}
  <2>1. a \in inside /\ \A j \in inside : a <= j
    <3>1. \E i \in inside : \A j \in inside : i <= j
      <4>1. inside \in SUBSET Nat
        OBVIOUS
      <4> HIDE DEF inside
      <4> QED BY <1>3, <4>1, Least
    <3> HIDE DEF inside
    <3> QED BY <3>1
  <2>2. b \in inside /\ \A j \in inside : j <= b
    <3>1. \E i \in inside : \A j \in inside : j <= i
      <4>1. inside \in SUBSET (0 .. n)
        OBVIOUS
      <4> HIDE DEF inside, n
      <4> QED BY <1>1, <1>3, <4>1, Greatest
    <3> HIDE DEF inside
    <3> QED BY <3>1
  <2>3. Strip(text) = SubSeq(text, a, b)
    BY <1>3 DEF Strip
  <2> HIDE DEF a, b
  <2>4. a \in 1 .. n /\ b \in a .. n
    BY <2>1, <2>2
  <2>5. \A k \in 1 .. a - 1 : text[k] \in {Space}
    BY <1>1, <2>1, <2>4
  <2>6. \A k \in b + 1 .. n : text[k] \in {Space}
    BY <1>1, <2>2, <2>4
  <2> HIDE DEF inside
  <2> DEFINE left == SubSeq(text, 1, a - 1)
             right == SubSeq(text, b + 1, n)
             middle == SubSeq(text, a, b)
  <2>7. left \in Seq({Space}) /\ right \in Seq({Space})
    <3>1. 1 \in Int /\ a - 1 \in Int /\ b + 1 \in Int /\ n \in Int
      BY <1>1, <2>4
    <3> HIDE DEF n
    <3> QED BY <2>5, <2>6, <3>1, SubSeqProperties
  <2>8. middle \in Seq(Char)
    BY <1>1, <2>4
  <2>9. left \o SubSeq(text, a, n) = text
    <3>1. left \o SubSeq(text, (a - 1) + 1, n) = SubSeq(text, 1, n)
      BY <1>1, <2>4, ConcatAdjacentSubSeq
    <3>2. (a - 1) + 1 = a
      BY <2>4
    <3> QED BY <3>1, <3>2, SubSeqFull
  <2>10. middle \o right = SubSeq(text, a, n)
    <3>1. a \in 1 .. n + 1 /\ b \in a - 1 .. n /\ n \in b .. n
      BY <1>1, <2>4
    <3> QED BY <3>1, ConcatAdjacentSubSeq
  <2> HIDE DEF left, right, middle
  <2>11. Letters(middle \o right) = Letters(middle) \o Letters(right)
    BY <2>7, <2>8, LettersConcat, LettersOfSpaces
  <2>12. middle \o right \in Seq(Char) /\ left \in Seq(Char)
    BY <2>7, <2>8, LettersOfSpaces
  <2>13. Letters(left \o (middle \o right)) = Letters(left) \o Letters(middle \o right)
    BY <2>12, LettersConcat
  <2>14. /\ Letters(left) = <<>> /\ Letters(right) = <<>>
         /\ Letters(middle) \in Seq(Letter)
    BY <2>7, <2>8, LettersOfSpaces, LettersType
  <2>15. Letters(text) = Letters(middle)
    BY <2>9, <2>10, <2>11, <2>13, <2>14
  <2> QED BY <2>3, <2>8, <2>15 DEF middle
<1> QED BY <1>2, <1>3

\* What some texts spell, one after the other.
Spelled(texts) == Letters(Flat(texts))

LEMMA SpelledEmpty == Spelled(<<>>) = <<>>
BY FlatEmpty, LettersOfNothing DEF Spelled

LEMMA SpelledType ==
    ASSUME NEW texts \in Seq(Seq(Char))
    PROVE  Spelled(texts) \in Seq(Letter)
BY FlatType, LettersType DEF Spelled

LEMMA SpelledAppend ==
    ASSUME NEW texts \in Seq(Seq(Char)), NEW text \in Seq(Char)
    PROVE  Spelled(Append(texts, text)) = Spelled(texts) \o Letters(text)
<1>1. Flat(Append(texts, text)) = Flat(texts) \o text
  BY FlatAppend
<1>2. PICK flat \in Seq(Char) : flat = Flat(texts)
  BY FlatType
<1>3. Letters(flat \o text) = Letters(flat) \o Letters(text)
  BY LettersConcat
<1> QED BY <1>1, <1>2, <1>3 DEF Spelled

LEMMA SpelledConcat ==
    ASSUME NEW texts \in Seq(Seq(Char)), NEW more \in Seq(Seq(Char))
    PROVE  Spelled(texts \o more) = Spelled(texts) \o Spelled(more)
<1>1. Flat(texts \o more) = Flat(texts) \o Flat(more)
  BY FlatConcat
<1>2. PICK a \in Seq(Char), b \in Seq(Char) : a = Flat(texts) /\ b = Flat(more)
  BY FlatType
<1>3. Letters(a \o b) = Letters(a) \o Letters(b)
  BY LettersConcat
<1> QED BY <1>1, <1>2, <1>3 DEF Spelled

LEMMA SpelledOne ==
    ASSUME NEW text \in Seq(Char)
    PROVE  Spelled(<<text>>) = Letters(text)
<1>1. <<>> \in Seq(Seq(Char)) /\ Append(<<>>, text) = <<text>>
  OBVIOUS
<1>2. Spelled(Append(<<>>, text)) = Spelled(<<>>) \o Letters(text)
  BY <1>1, SpelledAppend
<1>3. Letters(text) \in Seq(Letter)
  BY LettersType
<1> QED BY <1>1, <1>2, <1>3, SpelledEmpty

\* Text by text.
Reading == [text \in Seq(Char) |-> Letters(text)]

LEMMA SpelledOneByOne ==
    ASSUME NEW texts \in Seq(Seq(Char))
    PROVE  /\ Spreads(Reading, Seq(Char), Letter)
           /\ Spelled(texts) = Spread(Reading, texts)
<1>1. Spreads(Reading, Seq(Char), Letter)
  BY LettersType DEF Spreads, Reading
<1>2. \A text \in Seq(Char) : Reading[text] = Spread(Spell, text)
  BY LettersAreSpelled DEF Reading
<1>3. Spread(Spell, Flat(texts)) = Spread(Reading, texts)
  BY <1>1, <1>2, SpellSpreads, SpreadFlat
<1>4. Letters(Flat(texts)) = Spread(Spell, Flat(texts))
  BY FlatType, LettersAreSpelled
<1> QED BY <1>1, <1>3, <1>4 DEF Spelled

\* Texts that spell the same one by one do so together.
LEMMA SpelledAlike ==
    ASSUME NEW texts \in Seq(Seq(Char)), NEW others \in Seq(Seq(Char)),
           Len(texts) = Len(others),
           \A n \in 1 .. Len(texts) : Letters(texts[n]) = Letters(others[n])
    PROVE  Spelled(texts) = Spelled(others)
<1>1. [k \in 1 .. Len(texts) |-> Reading[texts[k]]]
        = [k \in 1 .. Len(others) |-> Reading[others[k]]]
  <2>1. ASSUME NEW k \in 1 .. Len(texts)
        PROVE  Reading[texts[k]] = Reading[others[k]]
    <3>1. texts[k] \in Seq(Char) /\ others[k] \in Seq(Char)
      BY ElementOfSeq
    <3> QED BY <3>1 DEF Reading
  <2> QED BY <2>1
<1>2. Spread(Reading, texts) = Spread(Reading, others)
  BY <1>1 DEF Spread
<1> QED BY <1>2, SpelledOneByOne

\* Texts are sequences of characters, and so are what they are stripped of.
LEMMA TextsAreSeqs ==
    /\ Texts \subseteq Seq(Char) /\ Fitting \subseteq Seq(Char)
    /\ Seq(Texts) \subseteq Seq(Seq(Char)) /\ Seq(Fitting) \subseteq Seq(Seq(Char))
<1>1. Texts \subseteq Seq(Char) /\ Fitting \subseteq Seq(Char)
  BY DEF Texts, Fitting
<1> QED BY <1>1, SeqMonotonic

\* Joined, they spell what they spelled.
LEMMA LettersOfJoinAll ==
    ASSUME NEW texts \in Seq(Texts)
    PROVE  /\ JoinAll(texts) \in Seq(Char)
           /\ Letters(JoinAll(texts)) = Spelled(texts)
<1> DEFINE n == Len(texts)
<1>1. texts \in Seq(Seq(Char)) /\ n \in Nat
  BY TextsAreSeqs
<1>2. PICK f \in [0 .. n -> Seq(Char)] :
         /\ f[0] = <<>>
         /\ \A k \in 1 .. n : f[k - 1] \in Seq(Char) /\ f[k] = f[k - 1] \o texts[k]
         /\ Flat(texts) = f[n]
  <2> HIDE DEF n
  <2> QED BY <1>1, FlatSteps DEF n
<1>3. PICK g \in [0 .. n -> Texts \cup {<<>>}] :
         /\ g[0] = <<>>
         /\ \A k \in 1 .. n :
               g[k - 1] \in Texts \cup {<<>>} /\ g[k] = Join(g[k - 1], texts[k])
         /\ JoinAll(texts) = g[n]
  BY JoinSteps
<1> DEFINE alike == {k \in 0 .. n : g[k] \in Seq(Char) /\ Letters(g[k]) = Letters(f[k])}
<1>4. 0 \in alike
  BY <1>1, <1>2, <1>3, LettersOfNothing
<1>5. ASSUME NEW k \in 1 .. n, k - 1 \in alike
      PROVE  k \in alike
  <2>1. PICK a \in Seq(Char), b \in Seq(Char), t \in Seq(Char) :
           a = f[k - 1] /\ b = g[k - 1] /\ t = texts[k] /\ Letters(b) = Letters(a)
    BY <1>1, <1>2, <1>5, ElementOfSeq
  <2>2. f[k] = a \o t /\ g[k] = Join(b, t)
    BY <1>2, <1>3, <2>1
  <2>3. Letters(a \o t) = Letters(a) \o Letters(t)
    BY LettersConcat
  <2>4. Join(b, t) \in Seq(Char) /\ Letters(Join(b, t)) = Letters(b) \o Letters(t)
    BY LettersOfJoin
  <2>5. k \in 0 .. n
    BY <1>1
  <2> HIDE DEF n
  <2> QED BY <2>1, <2>2, <2>3, <2>4, <2>5
<1> HIDE DEF alike
<1>6. \A k \in 0 .. n : k \in alike
  BY <1>1, <1>4, <1>5, BoundedInduction
<1>7. n \in alike
  BY <1>1, <1>6
<1> QED BY <1>2, <1>3, <1>7 DEF alike, Spelled

(***************************************************************************)
(* What is cut.                                                            *)
(***************************************************************************)

\* The last element is replaced.
LEMMA LastReplaced ==
    ASSUME NEW S, NEW front \in Seq(S), NEW last \in S, NEW other \in S
    PROVE  [Append(front, last) EXCEPT ![Len(Append(front, last))] = other]
             = Append(front, other)
<1> DEFINE m == Len(front) + 1
<1>1. PICK s \in Seq(S) : s = Append(front, last)
  BY AppendProperties
<1>2. /\ Len(front) \in Nat /\ Len(s) = m
      /\ \A k \in 1 .. Len(front) : s[k] = front[k]
  BY <1>1, AppendProperties
<1> DEFINE p == [s EXCEPT ![m] = other]  q == Append(front, other)
<1>3. /\ p \in Seq(S) /\ Len(p) = m
      /\ \A j \in 1 .. m : p[j] = IF j = m THEN other ELSE s[j]
  <2>1. m \in 1 .. Len(s)
    BY <1>2
  <2> QED BY <1>2, <2>1, ExceptSeq
<1>4. /\ q \in Seq(S) /\ Len(q) = m /\ q[m] = other
      /\ \A k \in 1 .. Len(front) : q[k] = front[k]
  BY AppendProperties
<1> HIDE DEF p, q
<1>5. ASSUME NEW j \in 1 .. m
      PROVE  p[j] = q[j]
  <2>1. j = m \/ (j \in 1 .. Len(front) /\ j # m)
    BY <1>2
  <2> QED BY <1>2, <1>3, <1>4, <2>1
<1>6. p = q
  BY <1>3, <1>4, <1>5, SeqEqual
<1> QED BY <1>1, <1>2, <1>6 DEF p, q

\* One more element, whichever part it is in.
LEMMA FlatAddTo ==
    ASSUME NEW S, NEW parts \in Parts(S), NEW element \in S, NEW apart
    PROVE  Flat(AddTo(parts, element, apart)) = Append(Flat(parts), element)
<1>1. parts \in Seq(Seq(S)) /\ Flat(parts) \in Seq(S)
  <2>1. Seq(S) \ {<<>>} \subseteq Seq(S)
    OBVIOUS
  <2>2. parts \in Seq(Seq(S))
    BY <2>1, SeqMonotonic DEF Parts
  <2> QED BY <2>2, FlatType
<1>2. CASE parts = <<>> \/ apart
  <2>1. AddTo(parts, element, apart) = Append(parts, <<element>>)
    BY <1>2 DEF AddTo
  <2>2. <<element>> \in Seq(S)
    OBVIOUS
  <2>3. Flat(Append(parts, <<element>>)) = Flat(parts) \o <<element>>
    BY <1>1, <2>2, FlatAppend
  <2>4. PICK flat \in Seq(S) : flat = Flat(parts)
    BY <1>1
  <2>5. flat \o <<element>> = Append(flat, element)
    BY AppendIsConcat
  <2> QED BY <2>1, <2>3, <2>4, <2>5
<1>3. CASE ~(parts = <<>> \/ apart)
  <2>1. PICK front \in Seq(Seq(S)), last \in Seq(S) : parts = Append(front, last)
    BY <1>1, <1>3, SequenceEmptyOrAppend
  <2> DEFINE m == Len(front) + 1
  <2>2. /\ Len(front) \in Nat /\ Len(parts) = m /\ parts[m] = last
        /\ \A k \in 1 .. Len(front) : parts[k] = front[k]
    BY <2>1, AppendProperties
  <2>3. AddTo(parts, element, apart) = [parts EXCEPT ![m] = Append(last, element)]
    BY <1>3, <2>2 DEF AddTo
  <2>4. PICK longer \in Seq(S) : longer = Append(last, element)
    BY AppendProperties
  <2>5. [parts EXCEPT ![m] = longer] = Append(front, longer)
    BY <2>1, <2>2, LastReplaced
  <2>6. Flat(Append(front, longer)) = Flat(front) \o longer
    BY FlatAppend
  <2>7. Flat(parts) = Flat(front) \o last
    BY <2>1, FlatAppend
  <2>8. PICK flat \in Seq(S) : flat = Flat(front)
    BY FlatType
  <2>9. flat \o Append(last, element) = Append(flat \o last, element)
    BY ConcatThenAppend
  <2> QED BY <2>3, <2>4, <2>5, <2>6, <2>7, <2>8, <2>9
<1> QED BY <1>2, <1>3

\* Cut leaves nothing out.
LEMMA FlatCut ==
    ASSUME NEW S, NEW s \in Seq(S), NEW positions
    PROVE  Flat(Cut(s, positions)) = s
<1> DEFINE n == Len(s)
<1>1. n \in Nat
  OBVIOUS
<1>2. PICK f \in [0 .. n -> Parts(S)] :
         /\ f[0] = <<>>
         /\ \A k \in 1 .. n :
               f[k - 1] \in Parts(S) /\ f[k] = AddTo(f[k - 1], s[k], k \in positions)
         /\ Cut(s, positions) = f[n]
  BY CutSteps
<1> DEFINE whole == {k \in 0 .. n : Flat(f[k]) = SubSeq(s, 1, k)}
<1>3. 0 \in whole
  <2>1. SubSeq(s, 1, 0) = <<>>
    BY SubSeqEmpty
  <2>2. 0 \in 0 .. n /\ Flat(f[0]) = <<>>
    BY <1>1, <1>2, FlatEmpty
  <2> QED BY <2>1, <2>2
<1>4. ASSUME NEW k \in 1 .. n, k - 1 \in whole
      PROVE  k \in whole
  <2>1. PICK parts \in Parts(S), x \in S :
           /\ parts = f[k - 1] /\ x = s[k] /\ f[k] = AddTo(parts, x, k \in positions)
    BY <1>2, ElementOfSeq
  <2>2. Flat(f[k]) = Append(Flat(parts), x)
    BY <2>1, FlatAddTo
  <2>3. Flat(parts) = SubSeq(s, 1, k - 1)
    BY <1>4, <2>1
  <2>4. SubSeq(s, 1, k) = Append(SubSeq(s, 1, k - 1), s[k])
    <3>1. 1 \in 1 .. n /\ k \in 1 .. n
      BY <1>1
    <3>2. SubSeq(s, 1, k) = SubSeq(s, 1, k - 1) \o <<s[k]>>
      BY <3>1, SubSeqRecursiveSecond
    <3>3. SubSeq(s, 1, k - 1) \in Seq(S) /\ s[k] \in S
      BY <1>1, <3>1
    <3> QED BY <3>2, <3>3, AppendIsConcat
  <2>5. k \in 0 .. n
    BY <1>1
  <2> QED BY <2>1, <2>2, <2>3, <2>4, <2>5
<1> HIDE DEF whole
<1>5. \A k \in 0 .. n : k \in whole
  BY <1>1, <1>3, <1>4, BoundedInduction
<1>6. n \in whole
  BY <1>1, <1>5
<1> QED BY <1>2, <1>6, SubSeqFull DEF whole

\* Letters that are read one after the other.
LEMMA ThreeInARow ==
    \A a, b, c \in Seq(Letter) : a \o (b \o c) = (a \o b) \o c
<1>1. ASSUME NEW a \in Seq(Letter), NEW b \in Seq(Letter), NEW c \in Seq(Letter)
      PROVE  a \o (b \o c) = (a \o b) \o c
  BY ConcatAssociative
<1> QED BY <1>1

\* What a text is split into spells what it spells.
LEMMA SplitSpells ==
    ASSUME NEW text \in Seq(Char), NEW positions,
           Split(text, positions) \in Seq(Seq(Char))
    PROVE  Spelled(Split(text, positions)) = Letters(text)
<1>1. PICK parts : parts = Cut(text, positions)
  OBVIOUS
<1>2. parts \in Seq(Seq(Char)) /\ Flat(parts) = text
  <2>1. Cut(text, positions) \in Parts(Char) /\ Flat(Cut(text, positions)) = text
    BY CutType, FlatCut
  <2>2. Seq(Char) \ {<<>>} \subseteq Seq(Char)
    OBVIOUS
  <2> QED BY <1>1, <2>1, <2>2, SeqMonotonic DEF Parts
<1>3. PICK split \in Seq(Seq(Char)) : split = Split(text, positions)
  OBVIOUS
<1>4. \A n \in 1 .. Len(parts) : Letters(Strip(parts[n])) = Letters(parts[n])
  BY <1>2, ElementOfSeq, LettersOfStrip
<1>5. Len(split) = Len(parts) /\ \A n \in 1 .. Len(parts) : split[n] = Strip(parts[n])
  BY <1>1, <1>2, <1>3 DEF Split
<1>6. Spelled(split) = Spelled(parts)
  BY <1>2, <1>4, <1>5, SpelledAlike
<1> QED BY <1>2, <1>3, <1>6 DEF Spelled

\* So do its sentences.
LEMMA SentencesSpell ==
    ASSUME NEW text \in Texts
    PROVE  Spelled(Sentences(text)) = Letters(text)
<1>1. Sentences(text) \in Seq(Seq(Char)) /\ text \in Seq(Char)
  BY SentencesAreTexts, TextsAreSeqs
<1> QED BY <1>1, SplitSpells DEF Sentences

\* If each text becomes texts that spell what it does, together they do, too.
LEMMA SpelledSpread ==
    ASSUME NEW f, Spreads(f, Texts, Seq(Char)),
           \A text \in Texts : Spelled(f[text]) = Letters(text),
           NEW texts \in Seq(Texts)
    PROVE  /\ Spread(f, texts) \in Seq(Seq(Char))
           /\ Spelled(Spread(f, texts)) = Spelled(texts)
<1>1. Spread(f, texts) \in Seq(Seq(Char))
  BY SpreadType
<1> DEFINE h == [text \in Texts |-> Letters(text)]
<1>2. Spreads(h, Texts, Letter)
  BY TextsAreSeqs, LettersType DEF Spreads
<1>3. \A text \in Texts : h[text] = Spread(Reading, f[text])
  <2>1. ASSUME NEW text \in Texts
        PROVE  Letters(text) = Spread(Reading, f[text])
    <3>1. PICK parts \in Seq(Seq(Char)) : parts = f[text]
      BY DEF Spreads
    <3> QED BY <3>1, SpelledOneByOne
  <2> QED BY <2>1
<1>4. Spread(h, texts) = Spread(Reading, texts)
  <2>1. \A k \in 1 .. Len(texts) : h[texts[k]] = Reading[texts[k]]
    BY TextsAreSeqs, ElementOfSeq DEF Reading
  <2>2. [k \in 1 .. Len(texts) |-> h[texts[k]]] = [k \in 1 .. Len(texts) |-> Reading[texts[k]]]
    BY <2>1, Zenon
  <2> QED BY <2>2 DEF Spread
<1> HIDE DEF h
<1>5. Spread(Reading, Spread(f, texts)) = Spread(h, texts)
  <2>1. Spreads(Reading, Seq(Char), Letter)
    BY <1>1, SpelledOneByOne
  <2> QED BY <2>1, <1>2, <1>3, SpreadTwice
<1>6. Spelled(texts) = Spread(Reading, texts)
  BY TextsAreSeqs, SpelledOneByOne
<1>7. Spelled(Spread(f, texts)) = Spread(Reading, Spread(f, texts))
  BY <1>1, SpelledOneByOne
<1> QED BY <1>1, <1>4, <1>5, <1>6, <1>7

\* Its list items and its sentences.
LEMMA UnitsSpell ==
    ASSUME NEW text \in Texts, NEW bullets, Space \notin bullets
    PROVE  Spelled(ListItemsAndSentences(text, bullets)) = Letters(text)
<1>1. PICK parts \in Seq(Texts) : parts = Split(text, ItemsBegin(text, bullets))
  BY ListItemsAreTexts
<1>2. Spelled(parts) = Letters(text)
  <2>1. parts \in Seq(Seq(Char)) /\ text \in Seq(Char)
    BY TextsAreSeqs
  <2> QED BY <1>1, <2>1, SplitSpells
<1>3. Spreads(Divided(bullets), Texts, Seq(Char))
  <2>1. ASSUME NEW part \in Texts
        PROVE  (IF part[1] \in bullets THEN <<part>> ELSE Sentences(part)) \in Seq(Seq(Char))
    BY DividedIsTexts, TextsAreSeqs DEF Divided
  <2> QED BY <2>1 DEF Spreads, Divided
<1>4. ASSUME NEW part \in Texts
      PROVE  Spelled(Divided(bullets)[part]) = Letters(part)
  <2>1. part \in Seq(Char)
    BY TextsAreSeqs
  <2>2. Spelled(<<part>>) = Letters(part) /\ Spelled(Sentences(part)) = Letters(part)
    BY <2>1, SpelledOne, SentencesSpell
  <2> QED BY <2>2 DEF Divided
<1>5. ListItemsAndSentences(text, bullets) = Spread(Divided(bullets), parts)
  <2>1. \A n \in 1 .. Len(parts) :
           Divided(bullets)[parts[n]] =
             IF parts[n][1] \in bullets THEN <<parts[n]>> ELSE Sentences(parts[n])
    BY ElementOfSeq DEF Divided
  <2>2. [n \in 1 .. Len(parts) |-> Divided(bullets)[parts[n]]] =
          [n \in 1 .. Len(parts) |->
             IF parts[n][1] \in bullets THEN <<parts[n]>> ELSE Sentences(parts[n])]
    BY <2>1, Zenon
  <2>3. ListItemsAndSentences(text, bullets) =
          Flat([n \in 1 .. Len(parts) |->
             IF parts[n][1] \in bullets THEN <<parts[n]>> ELSE Sentences(parts[n])])
    BY <1>1 DEF ListItemsAndSentences, ItemsBegin
  <2> QED BY <2>2, <2>3 DEF Spread
<1>6. Spelled(Spread(Divided(bullets), parts)) = Spelled(parts)
  BY <1>3, <1>4, SpelledSpread
<1> QED BY <1>2, <1>5, <1>6

\* The slices of a text make up the text.
LEMMA FlatSlices ==
    ASSUME NEW text \in Texts
    PROVE  Flat(Slices(text)) = text
<1> DEFINE n == Len(text)  q == (n + Target - 1) \div Target
           end(i) == IF i * Target < n THEN i * Target ELSE n
<1>1. n \in Nat \ {0} /\ Target \in Nat \ {0, 1} /\ text \in Seq(Char)
  BY ChunkingAssumption DEF Texts
<1>2. q \in Nat /\ q * Target <= n + Target - 1 /\ n <= q * Target
  BY <1>1
<1>3. PICK slices \in Seq(Seq(Char)) : slices = Slices(text)
  <2>1. Slicings \subseteq Seq(Char)
    BY DEF Slicings
  <2> QED BY <2>1, SlicesType, SeqMonotonic
<1>4. slices = [i \in 1 .. q |-> SubSeq(text, (i - 1) * Target + 1, end(i))]
  BY <1>3 DEF Slices
<1>5. Len(slices) = q
  BY <1>2, <1>4
<1>6. PICK f \in [0 .. q -> Seq(Char)] :
         /\ f[0] = <<>>
         /\ \A k \in 1 .. q : f[k - 1] \in Seq(Char) /\ f[k] = f[k - 1] \o slices[k]
         /\ Flat(slices) = f[q]
  <2> HIDE DEF q
  <2> QED BY <1>5, FlatSteps
<1> DEFINE whole == {k \in 0 .. q : f[k] = SubSeq(text, 1, end(k))}
<1>7. 0 \in whole
  <2>1. end(0) = 0 /\ SubSeq(text, 1, 0) = <<>>
    BY <1>1, SubSeqEmpty
  <2> QED BY <1>2, <1>6, <2>1
<1>8. ASSUME NEW k \in 1 .. q, k - 1 \in whole
      PROVE  k \in whole
  <2>1. /\ k * Target = (k - 1) * Target + Target
        /\ (k - 1) * Target \in Nat
        /\ (k - 1) * Target < n
    <3>1. k * Target = (k - 1) * Target + Target /\ (k - 1) * Target \in Nat
      BY <1>1, <1>2
    <3>2. k * Target <= q * Target
      <4>1. PICK d \in Nat : q = k + d
        <5>1. q - k \in Nat /\ q = k + (q - k)
          BY <1>2
        <5> QED BY <5>1
      <4>2. k \in Nat /\ d * Target \in Nat /\ (k + d) * Target = k * Target + d * Target
        BY <1>1, <1>2
      <4>3. k * Target \in Nat
        BY <1>1, <4>2
      <4> HIDE DEF q, n
      <4>4. k * Target <= k * Target + d * Target
        BY <4>2, <4>3
      <4> QED BY <4>1, <4>2, <4>4
    <3>3. q * Target \in Int /\ k * Target \in Int /\ n \in Nat
      <4>1. q \in Int /\ k \in Int /\ Target \in Int /\ n \in Nat
        BY <1>1, <1>2
      <4> HIDE DEF q, n
      <4> QED BY <4>1
    <3> HIDE DEF q, n
    <3>4. PICK x \in Int, y \in Nat, z \in Int :
             x = k * Target /\ y = (k - 1) * Target /\ z = q * Target
      BY <3>1, <3>3
    <3>5. x = y + Target /\ x <= z /\ z <= n + Target - 1 /\ Target \in Nat
      BY <1>1, <1>2, <3>1, <3>2, <3>4
    <3>6. y < n
      BY <3>3, <3>4, <3>5
    <3> QED BY <3>1, <3>4, <3>6
  <2>2. PICK a \in 0 .. n - 1, b \in 0 .. n :
           /\ a = (k - 1) * Target /\ b = end(k)
           /\ end(k - 1) = a /\ a + 1 <= b
    <3> HIDE DEF q, n
    <3>1. k * Target \in Nat /\ (k - 1) * Target \in 0 .. n - 1
      BY <1>1, <2>1
    <3>2. CASE k * Target < n
      BY <1>1, <2>1, <3>1, <3>2
    <3>3. CASE ~(k * Target < n)
      BY <1>1, <2>1, <3>1, <3>3
    <3> QED BY <3>2, <3>3
  <2>3. f[k - 1] = SubSeq(text, 1, a)
    BY <1>8, <2>2
  <2>4. slices[k] = SubSeq(text, a + 1, b)
    BY <1>4, <2>2
  <2>5. SubSeq(text, 1, a) \o SubSeq(text, a + 1, b) = SubSeq(text, 1, b)
    <3>1. 1 \in 1 .. n + 1 /\ a \in 1 - 1 .. n /\ b \in a .. n
      BY <1>1, <2>2
    <3> QED BY <1>1, <3>1, ConcatAdjacentSubSeq
  <2>6. f[k] = SubSeq(text, 1, b)
    BY <1>6, <2>3, <2>4, <2>5
  <2>7. k \in 0 .. q
    BY <1>2
  <2> HIDE DEF q, n
  <2> QED BY <2>2, <2>6, <2>7
<1> HIDE DEF whole
<1>9. \A k \in 0 .. q : k \in whole
  <2> HIDE DEF q
  <2> QED BY <1>2, <1>7, <1>8, BoundedInduction
<1>10. f[q] = SubSeq(text, 1, end(q)) /\ end(q) = n
  <2>1. end(q) = n
    BY <1>1, <1>2
  <2>2. q \in 0 .. q
    BY <1>2
  <2> HIDE DEF q
  <2> QED BY <1>9, <2>1, <2>2 DEF whole
<1> HIDE DEF q
<1> QED BY <1>1, <1>3, <1>6, <1>10, SubSeqFull

\* So does what it is split into.
LEMMA HardSplitSpells ==
    ASSUME NEW text \in Texts
    PROVE  Spelled(HardSplit(text)) = Letters(text)
<1>1. PICK slices \in Seq(Seq(Char)) : slices = Slices(text)
  <2>1. Slicings \subseteq Seq(Char)
    BY DEF Slicings
  <2> QED BY <2>1, SlicesType, SeqMonotonic
<1>2. PICK split \in Seq(Seq(Char)) : split = HardSplit(text)
  <2>1. HardSplit(text) \in Seq(Fitting)
    BY HardSplitFits DEF Fitting
  <2> QED BY <2>1, TextsAreSeqs
<1>3. Len(split) = Len(slices) /\ \A n \in 1 .. Len(slices) : split[n] = Strip(slices[n])
  BY <1>1, <1>2 DEF HardSplit
<1>4. \A n \in 1 .. Len(slices) : Letters(Strip(slices[n])) = Letters(slices[n])
  BY ElementOfSeq, LettersOfStrip
<1>5. Spelled(split) = Spelled(slices)
  BY <1>3, <1>4, SpelledAlike
<1> QED BY <1>1, <1>2, <1>5, FlatSlices DEF Spelled

\* What is done, and what is in hand.
LEMMA DoneSpells ==
    ASSUME NEW packed \in Packings
    PROVE  Spelled(Done(packed)) = Spelled(packed.chunks) \o Letters(packed.open)
<1>1. packed.chunks \in Seq(Seq(Char)) /\ packed.open \in Seq(Char)
  <2>1. packed.chunks \in Seq(Fitting) /\ packed.open \in Fitting \cup {<<>>}
    BY DEF Packings
  <2> QED BY <2>1, TextsAreSeqs, LettersOfNothing
<1>2. CASE packed.open = <<>>
  <2>1. Spelled(packed.chunks) \in Seq(Letter)
    BY <1>1, SpelledType
  <2> QED BY <1>2, <2>1, LettersOfNothing DEF Done
<1>3. CASE packed.open # <<>>
  BY <1>1, <1>3, SpelledAppend DEF Done
<1> QED BY <1>2, <1>3

\* One text more.
LEMMA AddTextSpells ==
    ASSUME NEW packed \in Packings, NEW text \in Texts, NEW parts \in Seq(Fitting),
           Spelled(parts) = Letters(text)
    PROVE  Spelled(Done(AddText(packed, text, parts)))
             = Spelled(Done(packed)) \o Letters(text)
<1>1. packed.chunks \in Seq(Fitting) /\ packed.open \in Fitting \cup {<<>>}
  BY DEF Packings
<1>2. /\ packed.chunks \in Seq(Seq(Char)) /\ packed.open \in Seq(Char)
      /\ text \in Seq(Char) /\ parts \in Seq(Seq(Char))
  BY <1>1, TextsAreSeqs, LettersOfNothing
<1>3. PICK done \in Seq(Fitting) : done = Done(packed)
  BY DoneFits
<1>4. done \in Seq(Seq(Char))
  BY TextsAreSeqs
<1>5. PICK more \in Packings : more = AddText(packed, text, parts)
  BY AddTextFits
<1>6. Spelled(Done(more)) = Spelled(more.chunks) \o Letters(more.open)
  BY DoneSpells
<1>7. Len(text) \in Nat /\ Target \in Nat
  BY ChunkingAssumption DEF Texts
<1>8. CASE Len(text) > Target
  <2>1. more.chunks = done \o parts /\ more.open = <<>>
    BY <1>3, <1>5, <1>7, <1>8 DEF AddText
  <2>2. Spelled(done \o parts) = Spelled(done) \o Spelled(parts)
    BY <1>2, <1>4, SpelledConcat
  <2>3. PICK a \in Seq(Letter), b \in Seq(Letter) : a = Spelled(done) /\ b = Letters(text)
    BY <1>2, <1>4, SpelledType, LettersType
  <2>4. (a \o b) \o <<>> = a \o b
    OBVIOUS
  <2> QED BY <1>3, <1>5, <1>6, <2>1, <2>2, <2>3, <2>4, LettersOfNothing
<1>9. CASE Len(text) <= Target /\ packed.open # <<>> /\ ~Room(packed.open, text)
  <2>1. more.chunks = done /\ more.open = text
    BY <1>3, <1>5, <1>7, <1>9 DEF AddText
  <2> QED BY <1>3, <1>5, <1>6, <2>1
<1>10. CASE Len(text) <= Target /\ (packed.open = <<>> \/ Room(packed.open, text))
  <2>1. more.chunks = packed.chunks /\ more.open = Join(packed.open, text)
    BY <1>1, <1>5, <1>7, <1>10 DEF AddText, Packings
  <2>2. Letters(more.open) = Letters(packed.open) \o Letters(text)
    BY <1>2, <2>1, LettersOfJoin
  <2>3. Spelled(done) = Spelled(packed.chunks) \o Letters(packed.open)
    BY <1>3, DoneSpells
  <2>4. PICK a \in Seq(Letter), b \in Seq(Letter), c \in Seq(Letter) :
           a = Spelled(packed.chunks) /\ b = Letters(packed.open) /\ c = Letters(text)
    BY <1>2, SpelledType, LettersType
  <2>5. a \o (b \o c) = (a \o b) \o c
    BY ConcatAssociative
  <2> QED BY <1>3, <1>5, <1>6, <2>1, <2>2, <2>3, <2>4, <2>5
<1> QED BY <1>7, <1>8, <1>9, <1>10

\* Packing texts leaves no letter out.
LEMMA PackSpells ==
    ASSUME NEW texts \in Seq(Texts), NEW parts,
           \A k \in 1 .. Len(texts) :
              parts[k] \in Seq(Fitting) /\ Spelled(parts[k]) = Letters(texts[k])
    PROVE  Spelled(Pack(texts, parts)) = Spelled(texts)
<1> DEFINE n == Len(texts)
<1>1. n \in Nat /\ texts \in Seq(Seq(Char))
  BY TextsAreSeqs
<1>2. PICK f \in [0 .. n -> Packings] :
         /\ f[0] = NothingPacked
         /\ \A k \in 1 .. n :
               f[k - 1] \in Packings /\ f[k] = AddText(f[k - 1], texts[k], parts[k])
         /\ Pack(texts, parts) = Done(f[n])
  BY PackSteps
<1>3. PICK g \in [0 .. n -> Seq(Char)] :
         /\ g[0] = <<>>
         /\ \A k \in 1 .. n : g[k - 1] \in Seq(Char) /\ g[k] = g[k - 1] \o texts[k]
         /\ Flat(texts) = g[n]
  <2> HIDE DEF n
  <2> QED BY <1>1, FlatSteps DEF n
<1> DEFINE alike == {k \in 0 .. n : Spelled(Done(f[k])) = Letters(g[k])}
<1>4. 0 \in alike
  <2>1. Done(NothingPacked) = <<>>
    BY DEF Done, NothingPacked
  <2> QED BY <1>1, <1>2, <1>3, <2>1, SpelledEmpty, LettersOfNothing
<1>5. ASSUME NEW k \in 1 .. n, k - 1 \in alike
      PROVE  k \in alike
  <2>1. PICK text \in Texts, part \in Seq(Fitting), packed \in Packings, before \in Seq(Char) :
           /\ text = texts[k] /\ part = parts[k] /\ packed = f[k - 1] /\ before = g[k - 1]
           /\ Spelled(part) = Letters(text)
    BY <1>2, <1>3, ElementOfSeq
  <2>2. Spelled(Done(AddText(packed, text, part))) = Spelled(Done(packed)) \o Letters(text)
    BY <2>1, AddTextSpells
  <2>3. Letters(before \o text) = Letters(before) \o Letters(text)
    BY TextsAreSeqs, LettersConcat
  <2>4. f[k] = AddText(packed, text, part) /\ g[k] = before \o text
    BY <1>2, <1>3, <2>1
  <2>5. Spelled(Done(packed)) = Letters(before)
    BY <1>5, <2>1
  <2>6. k \in 0 .. n
    BY <1>1
  <2> HIDE DEF n
  <2> QED BY <2>2, <2>3, <2>4, <2>5, <2>6
<1> HIDE DEF alike
<1>6. \A k \in 0 .. n : k \in alike
  BY <1>1, <1>4, <1>5, BoundedInduction
<1>7. n \in alike
  BY <1>1, <1>6
<1> QED BY <1>2, <1>3, <1>7 DEF alike, Spelled

LEMMA PackUnitsSpells ==
    ASSUME NEW units \in Seq(Texts)
    PROVE  Spelled(PackUnits(units)) = Spelled(units)
<1> DEFINE parts == [n \in 1 .. Len(units) |-> HardSplit(units[n])]
<1>1. \A k \in 1 .. Len(units) :
         parts[k] \in Seq(Fitting) /\ Spelled(parts[k]) = Letters(units[k])
  BY HardSplitFits, HardSplitSpells DEF Fitting
<1>2. Spelled(Pack(units, parts)) = Spelled(units)
  <2> HIDE DEF parts
  <2> QED BY <1>1, PackSpells
<1> QED BY <1>2 DEF PackUnits

LEMMA PackSentencesSpells ==
    ASSUME NEW text \in Texts
    PROVE  Spelled(PackSentences(text)) = Letters(text)
<1>1. PICK sentences \in Seq(Texts) : sentences = Sentences(text)
  BY SentencesAreTexts
<1> QED BY <1>1, PackUnitsSpells, SentencesSpell DEF PackSentences

LEMMA PackSectionSpells ==
    ASSUME NEW text \in Texts, NEW bullets, Space \notin bullets
    PROVE  Spelled(PackSection(text, bullets)) = Letters(text)
<1>1. PICK units \in Seq(Texts) : units = ListItemsAndSentences(text, bullets)
  BY UnitsAreTexts
<1> QED BY <1>1, PackUnitsSpells, UnitsSpell DEF PackSection

\* Nor does folding sections.
LEMMA FoldSpells ==
    ASSUME NEW sections \in Seq(Texts)
    PROVE  Spelled(Fold(sections)) = Spelled(sections)
<1> DEFINE n == Len(sections)
<1>1. n \in Nat /\ sections \in Seq(Seq(Char))
  BY TextsAreSeqs
<1>2. PICK f \in [0 .. n -> Seq(Texts)] :
         /\ f[0] = <<>>
         /\ \A k \in 1 .. n : f[k - 1] \in Seq(Texts) /\ f[k] = FoldIn(f[k - 1], sections[k])
         /\ Fold(sections) = f[n]
  BY FoldSteps
<1>3. PICK g \in [0 .. n -> Seq(Char)] :
         /\ g[0] = <<>>
         /\ \A k \in 1 .. n : g[k - 1] \in Seq(Char) /\ g[k] = g[k - 1] \o sections[k]
         /\ Flat(sections) = g[n]
  <2> HIDE DEF n
  <2> QED BY <1>1, FlatSteps DEF n
<1> DEFINE alike == {k \in 0 .. n : Spelled(f[k]) = Letters(g[k])}
<1>4. 0 \in alike
  BY <1>1, <1>2, <1>3, SpelledEmpty, LettersOfNothing
<1>5. ASSUME NEW k \in 1 .. n, k - 1 \in alike
      PROVE  k \in alike
  <2>1. PICK merged \in Seq(Texts), body \in Texts, before \in Seq(Char) :
           /\ merged = f[k - 1] /\ body = sections[k] /\ before = g[k - 1]
           /\ Spelled(merged) = Letters(before)
    BY <1>2, <1>3, <1>5, ElementOfSeq
  <2>2. f[k] = FoldIn(merged, body) /\ g[k] = before \o body
    BY <1>2, <1>3, <2>1
  <2>3. merged \in Seq(Seq(Char)) /\ body \in Seq(Char)
    BY TextsAreSeqs
  <2>4. Spelled(FoldIn(merged, body)) = Spelled(merged) \o Letters(body)
    <3>1. CASE merged # <<>> /\ Len(merged[Len(merged)]) < MinSection
      <4>1. PICK front \in Seq(Seq(Char)), last \in Seq(Char) : merged = Append(front, last)
        BY <2>3, <3>1, SequenceEmptyOrAppend
      <4>2. PICK joined \in Seq(Char) :
               joined = Join(last, body) /\ Letters(joined) = Letters(last) \o Letters(body)
        BY <2>3, LettersOfJoin
      <4>3. FoldIn(merged, body) = Append(front, joined)
        <5>1. merged[Len(merged)] = last
          BY <4>1, AppendProperties
        <5>2. FoldIn(merged, body) = [merged EXCEPT ![Len(merged)] = joined]
          BY <3>1, <4>2, <5>1 DEF FoldIn
        <5> QED BY <4>1, <5>2, LastReplaced
      <4>4. Spelled(Append(front, joined)) = Spelled(front) \o Letters(joined)
        BY SpelledAppend
      <4>5. Spelled(merged) = Spelled(front) \o Letters(last)
        BY <4>1, SpelledAppend
      <4>6. PICK a \in Seq(Letter), b \in Seq(Letter), c \in Seq(Letter) :
               a = Spelled(front) /\ b = Letters(last) /\ c = Letters(body)
        BY <2>3, SpelledType, LettersType
      <4>7. a \o (b \o c) = (a \o b) \o c
        BY ThreeInARow
      <4> QED BY <4>2, <4>3, <4>4, <4>5, <4>6, <4>7
    <3>2. CASE ~(merged # <<>> /\ Len(merged[Len(merged)]) < MinSection)
      <4>1. FoldIn(merged, body) = Append(merged, body)
        BY <3>2 DEF FoldIn
      <4> QED BY <2>3, <4>1, SpelledAppend
    <3> QED BY <3>1, <3>2
  <2>5. Letters(before \o body) = Letters(before) \o Letters(body)
    BY <2>3, LettersConcat
  <2>6. k \in 0 .. n
    BY <1>1
  <2> HIDE DEF n
  <2> QED BY <2>1, <2>2, <2>4, <2>5, <2>6
<1> HIDE DEF alike
<1>6. \A k \in 0 .. n : k \in alike
  BY <1>1, <1>4, <1>5, BoundedInduction
<1>7. n \in alike
  BY <1>1, <1>6
<1> QED BY <1>2, <1>3, <1>7 DEF alike, Spelled

\* What each item of a PDF file spells.
Typed(items) ==
    [i \in 1 .. Len(items) |-> Characters(i, items[i].size, EndsSentence(items[i]))]

LEMMA TypedSpreads ==
    ASSUME NEW items \in Seq(AnyItem)
    PROVE  Spreads(Typed(items), 1 .. Len(items), Letter)
<1>1. ASSUME NEW i \in 1 .. Len(items)
      PROVE  Characters(i, items[i].size, EndsSentence(items[i])) \in Seq(Letter)
  <2>1. items[i] \in AnyItem /\ i \in Nat \ {0}
    OBVIOUS
  <2>2. PICK ends \in BOOLEAN : ends = EndsSentence(items[i])
    BY DEF EndsSentence
  <2>3. PICK size \in Nat \ {0} : size = items[i].size
    BY <2>1 DEF AnyItem
  <2>4. Characters(i, size, ends) \in Seq(Letter)
    BY <2>1, CharactersAreLetters
  <2> QED BY <2>2, <2>3, <2>4, Zenon
<1> QED BY <1>1 DEF Spreads, Typed

\* The text of some items spells what they spell.
LEMMA PassageSpells ==
    ASSUME NEW items \in Seq(AnyItem), NEW part \in Seq(1 .. Len(items)), part # <<>>
    PROVE  Letters(Passage(items, part)) = Spread(Typed(items), part)
<1> DEFINE texts == [k \in 1 .. Len(part) |-> Typed(items)[part[k]]]
<1>1. Spreads(Typed(items), 1 .. Len(items), Letter)
  BY TypedSpreads
<1>2. texts \in Seq(Seq(Letter))
  BY <1>1, SpreadSeqs
<1>3. Passage(items, part) = JoinAll(texts)
  <2>1. ASSUME NEW k \in 1 .. Len(part)
        PROVE  Typed(items)[part[k]] =
                 Characters(part[k], items[part[k]].size, EndsSentence(items[part[k]]))
    <3>1. part[k] \in 1 .. Len(items)
      OBVIOUS
    <3> QED BY <3>1 DEF Typed
  <2>2. texts = [k \in 1 .. Len(part) |->
             Characters(part[k], items[part[k]].size, EndsSentence(items[part[k]]))]
    BY <2>1, Zenon
  <2> HIDE DEF texts
  <2> QED BY <2>2 DEF Passage
<1>4. \A k \in 1 .. Len(part) : texts[k] \in Texts
  <2>1. ASSUME NEW k \in 1 .. Len(part)
        PROVE  Typed(items)[part[k]] \in Texts
    <3>1. PICK i \in 1 .. Len(items) : i = part[k]
      OBVIOUS
    <3>2. items[i] \in AnyItem /\ i \in Nat \ {0}
      OBVIOUS
    <3>3. PICK ends \in BOOLEAN : ends = EndsSentence(items[i])
      BY DEF EndsSentence
    <3>4. PICK size \in Nat \ {0} : size = items[i].size
      BY <3>2 DEF AnyItem
    <3>5. /\ Characters(i, size, ends) \in Seq(Letter)
          /\ Len(Characters(i, size, ends)) = size
      BY <3>2, CharactersAreLetters
    <3>6. Characters(i, size, ends) # <<>>
      BY <3>5
    <3>7. Characters(i, size, ends) \in Texts
      BY <3>5, <3>6, LettersAreTidy
    <3>8. Typed(items)[i] = Characters(i, size, ends)
      BY <3>3, <3>4 DEF Typed
    <3> QED BY <3>1, <3>7, <3>8
  <2> QED BY <2>1
<1>5. texts \in Seq(Texts)
  <2>1. Len(part) \in Nat
    OBVIOUS
  <2> QED BY <1>4, <2>1, IsASeq
<1> HIDE DEF texts
<1>6. Letters(JoinAll(texts)) = Letters(Flat(texts))
  BY <1>5, LettersOfJoinAll DEF Spelled
<1>7. Letters(Flat(texts)) = Flat(texts)
  BY <1>2, FlatType, LettersOfLetters
<1> QED BY <1>3, <1>6, <1>7 DEF Spread, texts

\* The texts of the parts of a document spell what its items do.
LEMMA PassagesSpell ==
    ASSUME NEW items \in Seq(AnyItem), NEW parts \in Parts(1 .. Len(items))
    PROVE  Spelled(Passages(items, parts)) = Spread(Typed(items), Flat(parts))
<1> DEFINE S == 1 .. Len(items)
           g == [part \in Seq(S) |-> Spread(Typed(items), part)]
<1>1. Spreads(Typed(items), S, Letter)
  BY TypedSpreads
<1>2. parts \in Seq(Seq(S)) /\ \A k \in 1 .. Len(parts) : parts[k] \in Seq(S) /\ parts[k] # <<>>
  <2>1. Seq(S) \ {<<>>} \subseteq Seq(S) /\ parts \in Seq(Seq(S) \ {<<>>})
    BY DEF Parts
  <2>2. parts \in Seq(Seq(S))
    <3> HIDE DEF S
    <3> QED BY <2>1, SeqMonotonic
  <2> QED BY <2>1, <2>2
<1>3. Spreads(g, Seq(S), Letter) /\ \A part \in Seq(S) : g[part] = Spread(Typed(items), part)
  <2> HIDE DEF S
  <2>1. \A part \in Seq(S) : Spread(Typed(items), part) \in Seq(Letter)
    BY <1>1, SpreadType
  <2> QED BY <2>1 DEF Spreads
<1>4. Spread(Typed(items), Flat(parts)) = Spread(g, parts)
  <2> HIDE DEF S, g
  <2> QED BY <1>1, <1>2, <1>3, SpreadFlat
<1>5. PICK texts \in Seq(Texts) : texts = Passages(items, parts)
  BY PassagesAreTexts
<1>6. Len(texts) = Len(parts) /\ \A k \in 1 .. Len(parts) : texts[k] = Passage(items, parts[k])
  BY <1>2, <1>5 DEF Passages
<1>7. texts \in Seq(Seq(Char))
  BY TextsAreSeqs
<1>8. ASSUME NEW k \in 1 .. Len(parts)
      PROVE  Reading[texts[k]] = g[parts[k]]
  <2>1. PICK part \in Seq(S) : part = parts[k] /\ part # <<>>
    BY <1>2
  <2>2. PICK text \in Seq(Char) : text = texts[k]
    BY <1>6, <1>7, ElementOfSeq
  <2>3. text = Passage(items, part)
    BY <1>6, <2>1, <2>2
  <2>4. Letters(text) = Spread(Typed(items), part)
    BY <2>1, <2>3, PassageSpells
  <2>5. Reading[text] = Letters(text)
    BY DEF Reading
  <2> QED BY <2>1, <2>2, <2>4, <2>5
<1> HIDE DEF g
<1>9. [k \in 1 .. Len(texts) |-> Reading[texts[k]]] = [k \in 1 .. Len(parts) |-> g[parts[k]]]
  BY <1>6, <1>8
<1>10. Spread(Reading, texts) = Spread(g, parts)
  BY <1>9 DEF Spread
<1> QED BY <1>4, <1>5, <1>7, <1>10, SpelledOneByOne

\* The chunks of a file by paragraph spell what the file does.
LEMMA ParagraphsSpell ==
    ASSUME NEW items \in Seq(AnyItem)
    PROVE  Spelled(ChunkParagraphs(items)) = Spread(Typed(items), Indices(items))
<1> DEFINE lines == Indices(items)
           cut == Cut(lines, PositionsOf(items, lines, "paragraph"))
<1>1. cut \in Parts(1 .. Len(items)) /\ Flat(cut) = Indices(items)
  BY IndicesType, CutType, FlatCut
<1> HIDE DEF cut
<1>2. PICK texts \in Seq(Texts) : texts = Passages(items, cut)
  BY <1>1, PassagesAreTexts
<1> DEFINE parts == [n \in 1 .. Len(texts) |-> PackSentences(texts[n])]
<1>3. \A k \in 1 .. Len(texts) :
         parts[k] \in Seq(Fitting) /\ Spelled(parts[k]) = Letters(texts[k])
  BY PackSentencesFits, PackSentencesSpells
<1>4. Spelled(Pack(texts, parts)) = Spelled(texts)
  <2> HIDE DEF parts
  <2> QED BY <1>3, PackSpells
<1>5. ChunkParagraphs(items) = Pack(texts, parts)
  BY <1>2 DEF ChunkParagraphs, cut
<1>6. Spelled(texts) = Spread(Typed(items), Flat(cut))
  BY <1>1, <1>2, PassagesSpell
<1> QED BY <1>1, <1>4, <1>5, <1>6

\* Leaving elements out is spreading, too.
Keeping(S, dropped) == [x \in S |-> IF x \in dropped THEN <<>> ELSE <<x>>]

LEMMA WithoutSpreads ==
    ASSUME NEW S, NEW s \in Seq(S), NEW dropped
    PROVE  /\ Spreads(Keeping(S, dropped), S, S)
           /\ Without(s, dropped) = Spread(Keeping(S, dropped), s)
<1>1. Spreads(Keeping(S, dropped), S, S)
  <2>1. ASSUME NEW x \in S
        PROVE  (IF x \in dropped THEN <<>> ELSE <<x>>) \in Seq(S)
    <3>1. <<>> \in Seq(S) /\ <<x>> \in Seq(S)
      OBVIOUS
    <3> QED BY <3>1
  <2> QED BY <2>1 DEF Spreads, Keeping
<1>2. \A k \in 1 .. Len(s) :
         Keeping(S, dropped)[s[k]] = IF s[k] \in dropped THEN <<>> ELSE <<s[k]>>
  BY ElementOfSeq DEF Keeping
<1>3. [k \in 1 .. Len(s) |-> Keeping(S, dropped)[s[k]]]
        = [k \in 1 .. Len(s) |-> IF s[k] \in dropped THEN <<>> ELSE <<s[k]>>]
  BY <1>2, Zenon
<1> QED BY <1>1, <1>3 DEF Without, Spread

\* What is left of the lines of a file.
LEMMA LinesType ==
    ASSUME NEW items \in Seq(AnyItem), NEW noise
    PROVE  Without(Indices(items), noise) \in Seq(1 .. Len(items))
<1>1. PICK indices \in Seq(1 .. Len(items)) : indices = Indices(items)
  BY IndicesType
<1> QED BY <1>1, WithoutSpreads, SpreadType

\* One section, in one chunk or in several.
Sectioned(bullets) ==
    [body \in Texts |-> IF Len(body) <= Target THEN <<body>> ELSE PackSection(body, bullets)]

LEMMA SectionedSpreads ==
    ASSUME NEW bullets, Space \notin bullets
    PROVE  /\ Spreads(Sectioned(bullets), Texts, Seq(Char))
           /\ \A body \in Texts : Spelled(Sectioned(bullets)[body]) = Letters(body)
<1>1. ASSUME NEW body \in Texts
      PROVE  /\ (IF Len(body) <= Target THEN <<body>> ELSE PackSection(body, bullets))
                   \in Seq(Seq(Char))
             /\ Spelled(IF Len(body) <= Target THEN <<body>> ELSE PackSection(body, bullets))
                   = Letters(body)
  <2>1. body \in Seq(Char) /\ <<body>> \in Seq(Seq(Char))
    BY DEF Texts
  <2>2. PackSection(body, bullets) \in Seq(Seq(Char))
    BY PackSectionFits, TextsAreSeqs
  <2>3. Spelled(<<body>>) = Letters(body) /\ Spelled(PackSection(body, bullets)) = Letters(body)
    BY <2>1, SpelledOne, PackSectionSpells
  <2> QED BY <2>1, <2>2, <2>3
<1> QED BY <1>1 DEF Spreads, Sectioned

LEMMA FoldType ==
    ASSUME NEW sections \in Seq(Texts)
    PROVE  Fold(sections) \in Seq(Texts)
<1>1. PICK f \in [0 .. Len(sections) -> Seq(Texts)] : Fold(sections) = f[Len(sections)]
  BY FoldSteps
<1>2. Len(sections) \in 0 .. Len(sections)
  OBVIOUS
<1> QED BY <1>1, <1>2

\* The chunks of a file by section spell what the file does, without its noise.
LEMMA SectionsSpell ==
    ASSUME NEW items \in Seq(AnyItem), NEW noise,
           noise = {i \in 1 .. Len(items) : items[i].kind = "noise"}
    PROVE  Spelled(ChunkSections(items)) =
             Spread(Typed(items), Without(Indices(items), noise))
<1> DEFINE lines == Without(Indices(items), noise)
           cut == Cut(lines, PositionsOf(items, lines, "heading"))
           sections == Passages(items, cut)
<1>1. lines \in Seq(1 .. Len(items))
  BY LinesType
<1> HIDE DEF lines
<1>2. cut \in Parts(1 .. Len(items)) /\ Flat(cut) = lines
  BY <1>1, CutType, FlatCut
<1> HIDE DEF cut
<1>3. sections \in Seq(Texts) /\ Spelled(sections) = Spread(Typed(items), lines)
  BY <1>2, PassagesAreTexts, PassagesSpell
<1> HIDE DEF sections
<1>4. PICK bodies \in Seq(Texts) : bodies = Fold(sections)
  BY <1>3, FoldType
<1>5. Spelled(bodies) = Spelled(sections)
  BY <1>3, <1>4, FoldSpells
<1>6. PICK bullets : bullets = Bullets(items) /\ Space \notin bullets
  BY BulletsAreNoSpace
<1>7. ChunkSections(items) = Spread(Sectioned(bullets), bodies)
  <2>1. \A n \in 1 .. Len(bodies) :
           Sectioned(bullets)[bodies[n]] =
             IF Len(bodies[n]) <= Target THEN <<bodies[n]>> ELSE PackSection(bodies[n], bullets)
    BY ElementOfSeq DEF Sectioned
  <2>2. [n \in 1 .. Len(bodies) |-> Sectioned(bullets)[bodies[n]]] =
          [n \in 1 .. Len(bodies) |->
             IF Len(bodies[n]) <= Target THEN <<bodies[n]>> ELSE PackSection(bodies[n], bullets)]
    BY <2>1, Zenon
  <2>3. ChunkSections(items) =
          Flat([n \in 1 .. Len(bodies) |->
             IF Len(bodies[n]) <= Target THEN <<bodies[n]>> ELSE PackSection(bodies[n], bullets)])
    BY <1>4, <1>6 DEF ChunkSections, sections, cut, lines
  <2> QED BY <2>2, <2>3 DEF Spread
<1>8. Spelled(Spread(Sectioned(bullets), bodies)) = Spelled(bodies)
  BY <1>6, SectionedSpreads, SpelledSpread
<1> QED BY <1>3, <1>5, <1>7, <1>8 DEF lines

(***************************************************************************)
(* Where letters are from, and what chunks of HTML tell.                   *)
(***************************************************************************)

\* Each element by itself.
Ones(S) == [x \in S |-> <<x>>]

LEMMA SpreadOfOnes ==
    ASSUME NEW S, NEW u \in Seq(S)
    PROVE  Spread(Ones(S), u) = u
<1> DEFINE Q == {s \in Seq(S) : Spread(Ones(S), s) = s}
<1>1. Spreads(Ones(S), S, S)
  BY DEF Spreads, Ones
<1>2. <<>> \in Q
  <2>1. <<>> \in Seq(S)
    OBVIOUS
  <2> QED BY <2>1, SpreadEmpty
<1>3. ASSUME NEW s \in Seq(S), NEW x \in S, s \in Q
      PROVE  Append(s, x) \in Q
  <2>1. Spread(Ones(S), Append(s, x)) = Spread(Ones(S), s) \o Ones(S)[x]
    BY <1>1, SpreadAppend
  <2>2. Ones(S)[x] = <<x>>
    BY DEF Ones
  <2>3. s \o <<x>> = Append(s, x) /\ Append(s, x) \in Seq(S)
    BY AppendIsConcat, AppendProperties
  <2> QED BY <1>3, <2>1, <2>2, <2>3
<1> HIDE DEF Q
<1>4. \A s \in Seq(S) : s \in Q
  BY <1>2, <1>3, SequenceInduction
<1> QED BY <1>4 DEF Q

\* Items and places of letters.
Places(letters) == [k \in 1 .. Len(letters) |-> <<letters[k][1], letters[k][2]>>]
Place == [letter \in Letter |-> <<<<letter[1], letter[2]>>>>]

LEMMA PlacesSpread ==
    ASSUME NEW letters \in Seq(Letter)
    PROVE  /\ Spreads(Place, Letter, Nat \X Nat)
           /\ Places(letters) = Spread(Place, letters)
<1>1. \A letter \in Letter : <<letter[1], letter[2]>> \in Nat \X Nat
  BY DEF Letter
<1>2. Spreads(Place, Letter, Nat \X Nat)
  BY <1>1 DEF Spreads, Place
<1>3. PICK places \in Seq(Nat \X Nat) : places = Places(letters)
  <2>1. Len(letters) \in Nat
    OBVIOUS
  <2>2. \A k \in 1 .. Len(letters) : <<letters[k][1], letters[k][2]>> \in Nat \X Nat
    BY <1>1, ElementOfSeq
  <2>3. Places(letters) \in Seq(Nat \X Nat)
    BY <2>1, <2>2, IsASeq DEF Places
  <2> QED BY <2>3
<1>4. Len(places) = Len(letters)
  BY <1>3 DEF Places
<1>5. ASSUME NEW k \in 1 .. Len(letters)
      PROVE  Place[letters[k]] = Ones(Nat \X Nat)[places[k]]
  <2>1. PICK letter \in Letter : letter = letters[k]
    BY ElementOfSeq
  <2>2. places[k] = <<letter[1], letter[2]>>
    BY <1>3, <2>1 DEF Places
  <2> QED BY <1>1, <2>1, <2>2 DEF Place, Ones
<1>6. [k \in 1 .. Len(letters) |-> Place[letters[k]]]
        = [k \in 1 .. Len(places) |-> Ones(Nat \X Nat)[places[k]]]
  BY <1>4, <1>5
<1>7. Spread(Place, letters) = Spread(Ones(Nat \X Nat), places)
  BY <1>6 DEF Spread
<1> QED BY <1>2, <1>3, <1>7, SpreadOfOnes

\* What some of the items spell, with an end of a sentence or without.
TellsBodies(told, items, bodies) ==
    \A i \in 1 .. Len(items) : \E ends \in BOOLEAN :
        told[i] = IF i \in bodies THEN Characters(i, items[i].size, ends) ELSE <<>>

BodyOf(items, bodies) ==
    Flat([i \in 1 .. Len(items) |->
        IF i \in bodies THEN [k \in 1 .. items[i].size |-> <<i, k>>] ELSE <<>>])

LEMMA PlacesOfBodies ==
    ASSUME NEW items \in Seq(AnyItem), NEW bodies, NEW told,
           Spreads(told, 1 .. Len(items), Letter), TellsBodies(told, items, bodies)
    PROVE  Places(Spread(told, Indices(items))) = BodyOf(items, bodies)
<1> DEFINE S == 1 .. Len(items)
           h == [i \in S |-> IF i \in bodies THEN [k \in 1 .. items[i].size |-> <<i, k>>] ELSE <<>>]
<1>1. PICK indices \in Seq(S) : indices = Indices(items)
  BY IndicesType
<1>2. PICK letters \in Seq(Letter) : letters = Spread(told, indices)
  BY SpreadType
<1>3. ASSUME NEW i \in S
      PROVE  h[i] \in Seq(Nat \X Nat) /\ h[i] = Spread(Place, told[i])
  <2>1. PICK ends \in BOOLEAN :
           told[i] = IF i \in bodies THEN Characters(i, items[i].size, ends) ELSE <<>>
    BY DEF TellsBodies
  <2>2. PICK size \in Nat \ {0} : size = items[i].size
    <3>1. items[i] \in AnyItem
      BY ElementOfSeq
    <3> QED BY <3>1 DEF AnyItem
  <2>3. CASE i \in bodies
    <3>1. PICK letters1 \in Seq(Letter) :
             /\ letters1 = Characters(i, size, ends)
             /\ Len(letters1) = size
      <4>1. i \in Nat \ {0}
        OBVIOUS
      <4> QED BY <4>1, CharactersAreLetters
    <3>2. \A k \in 1 .. size : letters1[k] = <<i, k, ends /\ k = size>>
      BY <3>1 DEF Characters
    <3>3. \A k \in 1 .. size : <<letters1[k][1], letters1[k][2]>> = <<i, k>>
      BY <3>2
    <3>4. Places(letters1) = [k \in 1 .. size |-> <<i, k>>]
      BY <3>1, <3>3, Zenon DEF Places
    <3>5. Places(letters1) = Spread(Place, letters1) /\ Spread(Place, letters1) \in Seq(Nat \X Nat)
      BY PlacesSpread, SpreadType
    <3>6. told[i] = letters1 /\ h[i] = [k \in 1 .. size |-> <<i, k>>]
      BY <2>1, <2>2, <2>3, <3>1
    <3> QED BY <3>4, <3>5, <3>6
  <2>4. CASE i \notin bodies
    <3>1. told[i] = <<>> /\ h[i] = <<>> /\ <<>> \in Seq(Nat \X Nat)
      BY <2>1, <2>4
    <3> QED BY <3>1, SpreadEmpty
  <2> QED BY <2>3, <2>4
<1>4. Spreads(h, S, Nat \X Nat)
  <2>1. h = [i \in S |-> h[i]]
    OBVIOUS
  <2> HIDE DEF h
  <2> QED BY <1>3, <2>1 DEF Spreads
<1>5. Spread(Place, Spread(told, indices)) = Spread(h, indices)
  <2>1. Spreads(Place, Letter, Nat \X Nat) /\ \A i \in S : h[i] = Spread(Place, told[i])
    BY <1>2, <1>3, PlacesSpread
  <2> HIDE DEF h, S
  <2> QED BY <1>4, <2>1, SpreadTwice DEF S
<1>6. [k \in 1 .. Len(indices) |-> h[indices[k]]] = h
  <2>1. Len(indices) = Len(items) /\ \A k \in S : indices[k] = k
    BY <1>1 DEF Indices
  <2>2. h = [i \in S |-> h[i]]
    OBVIOUS
  <2> HIDE DEF h
  <2> QED BY <2>1, <2>2
<1>7. Spread(h, indices) = BodyOf(items, bodies)
  BY <1>6 DEF Spread, BodyOf
<1> QED BY <1>1, <1>2, <1>5, <1>7, PlacesSpread

(***************************************************************************)
(* Chunks of HTML.                                                         *)
(***************************************************************************)

\* What a chunk tells, and what a segment says.
Recite == [chunk \in HtmlChunk |-> Letters(chunk.text)]
Said == [segment \in AnySegment |-> IF segment.kind = "heading" THEN <<>> ELSE segment.text]

LEMMA ReciteSpreads ==
    Spreads(Recite, HtmlChunk, Letter) /\ Spreads(Said, AnySegment, Letter)
<1>1. \A chunk \in HtmlChunk : Letters(chunk.text) \in Seq(Letter)
  BY LettersType DEF HtmlChunk
<1>2. ASSUME NEW segment \in AnySegment
      PROVE  (IF segment.kind = "heading" THEN <<>> ELSE segment.text) \in Seq(Letter)
  <2>1. segment.text \in Seq(Letter)
    BY DEF AnySegment, Words
  <2>2. <<>> \in Seq(Letter)
    OBVIOUS
  <2> QED BY <2>1, <2>2
<1> QED BY <1>1, <1>2 DEF Spreads, Recite, Said

\* What is pending is told last.
LEMMA CloseTells ==
    ASSUME NEW state \in Chunkings
    PROVE  Spread(Recite, Close(state)) = Spread(Recite, state.chunks) \o Flat(state.open)
<1>1. /\ state.chunks \in Seq(HtmlChunk) /\ state.open \in Seq(Words)
      /\ state.heading \in Seq(Letter)
  BY DEF Chunkings, Pending
<1>2. CASE state.open = <<>>
  <2>1. Spread(Recite, state.chunks) \in Seq(Letter)
    BY <1>1, ReciteSpreads, SpreadType
  <2> QED BY <1>2, <2>1, FlatEmpty DEF Close
<1>3. CASE state.open # <<>>
  <2> DEFINE chunk == [text |-> JoinAll(state.open), heading |-> state.heading]
  <2>1. Close(state) = Append(state.chunks, chunk)
    BY <1>3 DEF Close
  <2>2. chunk \in HtmlChunk
    <3>1. PICK closed \in Seq(HtmlChunk) : closed = Append(state.chunks, chunk)
      BY <2>1, CloseType
    <3>2. Len(state.chunks) + 1 \in 1 .. Len(closed) /\ closed[Len(state.chunks) + 1] = chunk
      BY <1>1, <3>1
    <3> HIDE DEF chunk
    <3> QED BY <3>2, ElementOfSeq
  <2>3. state.open \in Seq(Texts) /\ state.open \in Seq(Seq(Letter))
    <3>1. Words \subseteq Seq(Letter)
      BY DEF Words
    <3> QED BY <1>1, <3>1, WordsAreTexts, SeqMonotonic
  <2>4. Letters(JoinAll(state.open)) = Letters(Flat(state.open))
    BY <2>3, LettersOfJoinAll DEF Spelled
  <2>5. Letters(Flat(state.open)) = Flat(state.open)
    BY <2>3, FlatType, LettersOfLetters
  <2>6. Recite[chunk] = Letters(JoinAll(state.open))
    BY <2>2 DEF Recite
  <2>7. Spread(Recite, Append(state.chunks, chunk)) = Spread(Recite, state.chunks) \o Recite[chunk]
    <3> HIDE DEF chunk
    <3> QED BY <1>1, <2>2, ReciteSpreads, SpreadAppend
  <2> QED BY <2>1, <2>4, <2>5, <2>6, <2>7
<1> QED BY <1>2, <1>3

\* A long piece is told in slices.
LEMMA PiecesTell ==
    ASSUME NEW text \in Words, NEW heading \in Seq(Letter)
    PROVE  Spread(Recite, Pieces(text, heading)) = text
<1>1. text \in Texts /\ text \in Seq(Letter)
  BY WordsAreTexts DEF Words
<1>2. PICK slices \in Seq(Seq(Char)) : slices = Slices(text)
  <2>1. Slicings \subseteq Seq(Char)
    BY DEF Slicings
  <2> QED BY <1>1, <2>1, SlicesType, SeqMonotonic
<1>3. PICK pieces \in Seq(HtmlChunk) : pieces = Pieces(text, heading)
  BY PiecesType
<1>4. /\ Len(pieces) = Len(slices)
      /\ \A n \in 1 .. Len(slices) : pieces[n].text = slices[n]
  BY <1>2, <1>3 DEF Pieces
<1>5. ASSUME NEW n \in 1 .. Len(slices)
      PROVE  Recite[pieces[n]] = Reading[slices[n]]
  <2>1. pieces[n] \in HtmlChunk /\ slices[n] \in Seq(Char)
    BY <1>4, ElementOfSeq
  <2> QED BY <1>4, <2>1 DEF Recite, Reading
<1>6. [n \in 1 .. Len(pieces) |-> Recite[pieces[n]]] = [n \in 1 .. Len(slices) |-> Reading[slices[n]]]
  BY <1>4, <1>5
<1>7. Spread(Recite, pieces) = Spread(Reading, slices)
  BY <1>6 DEF Spread
<1>8. Spread(Reading, slices) = Letters(Flat(slices))
  BY SpelledOneByOne DEF Spelled
<1>9. Letters(text) = text
  BY <1>1, LettersOfLetters
<1> QED BY <1>1, <1>2, <1>3, <1>7, <1>8, <1>9, FlatSlices

\* One segment more.
LEMMA AddSegmentTells ==
    ASSUME NEW state \in Chunkings, NEW segment \in AnySegment
    PROVE  Spread(Recite, Close(AddSegment(state, segment)))
             = Spread(Recite, Close(state)) \o Said[segment]
<1>1. /\ state.chunks \in Seq(HtmlChunk) /\ state.open \in Seq(Words)
      /\ state.heading \in Seq(Letter)
  BY DEF Chunkings, Pending
<1>2. PICK text \in Words : text = segment.text
  BY DEF AnySegment
<1>3. PICK closed \in Seq(HtmlChunk) : closed = Close(state)
  BY CloseType
<1>4. PICK more \in Chunkings : more = AddSegment(state, segment)
  BY AddSegmentType
<1>5. Spread(Recite, Close(more)) = Spread(Recite, more.chunks) \o Flat(more.open)
  BY CloseTells
<1>6. PICK told \in Seq(Letter) : told = Spread(Recite, closed)
  BY ReciteSpreads, SpreadType
<1>7. text \in Seq(Letter) /\ Len(text) \in Nat /\ Target \in Nat /\ Width(state.open) \in Nat
  BY <1>1, WidthOfOneMore, ChunkingAssumption DEF Words
<1>8. CASE segment.kind = "heading"
  <2>1. more.chunks = closed /\ more.open = <<>>
    BY <1>2, <1>3, <1>4, <1>8 DEF AddSegment, AddHeading
  <2>2. Said[segment] = <<>>
    BY <1>8 DEF Said
  <2> QED BY <1>3, <1>4, <1>5, <2>1, <2>2, FlatEmpty
<1>9. CASE segment.kind # "heading"
  <2>1. Said[segment] = text
    BY <1>2, <1>9 DEF Said
  <2>2. CASE Len(text) > Target
    <3>1. more.chunks = closed \o Pieces(text, state.heading) /\ more.open = <<>>
      BY <1>2, <1>3, <1>4, <1>7, <1>9, <2>2 DEF AddSegment, AddPiece, Chunkings
    <3>2. PICK pieces \in Seq(HtmlChunk) : pieces = Pieces(text, state.heading)
      BY <1>1, PiecesType
    <3>3. Spread(Recite, closed \o pieces) = told \o text
      <4>1. Spread(Recite, closed \o pieces) = Spread(Recite, closed) \o Spread(Recite, pieces)
        BY ReciteSpreads, SpreadConcat
      <4> QED BY <1>1, <1>6, <3>2, <4>1, PiecesTell
    <3>4. (told \o text) \o <<>> = told \o text
      BY <1>7
    <3> QED BY <1>3, <1>4, <1>5, <1>6, <2>1, <3>1, <3>2, <3>3, <3>4, FlatEmpty
  <2>3. CASE Len(text) <= Target /\ Width(state.open) + Len(text) > Target
    <3>1. more.chunks = closed /\ more.open = <<text>>
      BY <1>2, <1>3, <1>4, <1>7, <1>9, <2>3 DEF AddSegment, AddPiece, Chunkings
    <3>2. Flat(<<text>>) = text
      <4>1. <<>> \in Seq(Seq(Letter)) /\ Append(<<>>, text) = <<text>> /\ <<>> \o text = text
        BY <1>7
      <4>2. Flat(Append(<<>>, text)) = Flat(<<>>) \o text
        BY <1>7, <4>1, FlatAppend
      <4> QED BY <4>1, <4>2, FlatEmpty
    <3> QED BY <1>3, <1>4, <1>5, <2>1, <3>1, <3>2
  <2>4. CASE Len(text) <= Target /\ ~(Width(state.open) + Len(text) > Target)
    <3>1. more.chunks = state.chunks /\ more.open = Append(state.open, text)
      BY <1>1, <1>2, <1>4, <1>7, <1>9, <2>4 DEF AddSegment, AddPiece, Chunkings
    <3>2. state.open \in Seq(Seq(Letter))
      <4>1. Words \subseteq Seq(Letter)
        BY DEF Words
      <4> QED BY <1>1, <4>1, SeqMonotonic
    <3>3. Flat(Append(state.open, text)) = Flat(state.open) \o text
      BY <1>7, <3>2, FlatAppend
    <3>4. PICK a \in Seq(Letter), b \in Seq(Letter) :
             a = Spread(Recite, state.chunks) /\ b = Flat(state.open)
      BY <1>1, <3>2, ReciteSpreads, SpreadType, FlatType
    <3>5. a \o (b \o text) = (a \o b) \o text
      BY <1>7, ThreeInARow
    <3>6. told = a \o b
      BY <1>3, <1>6, <3>4, CloseTells
    <3> QED BY <1>3, <1>4, <1>5, <1>6, <2>1, <3>1, <3>3, <3>4, <3>5, <3>6
  <2> QED BY <1>7, <2>2, <2>3, <2>4
<1> QED BY <1>8, <1>9

\* The chunks of an article tell what its segments say, its headings apart.
LEMMA HtmlTells ==
    ASSUME NEW items \in Seq(HtmlItem)
    PROVE  Spread(Recite, ChunkHtml(items)) = Spread(Said, Segments(items))
<1> DEFINE n == Len(Segments(items))
<1>1. PICK segments \in Seq(AnySegment) : segments = Segments(items)
  BY SegmentsType
<1>2. PICK f \in [0 .. n -> Chunkings] :
         /\ f[0] = NothingChunked
         /\ \A k \in 1 .. n : f[k - 1] \in Chunkings /\ f[k] = AddSegment(f[k - 1], segments[k])
         /\ ChunkHtml(items) = Close(f[n])
  BY <1>1, HtmlSteps
<1>3. n = Len(segments) /\ n \in Nat
  BY <1>1
<1> HIDE DEF n
<1> DEFINE seqs == [k \in 1 .. Len(segments) |-> Said[segments[k]]]
<1>4. seqs \in Seq(Seq(Letter)) /\ Len(seqs) = n
  BY <1>3, ReciteSpreads, SpreadSeqs
<1>5. PICK g \in [0 .. n -> Seq(Letter)] :
         /\ g[0] = <<>>
         /\ \A k \in 1 .. n : g[k - 1] \in Seq(Letter) /\ g[k] = g[k - 1] \o seqs[k]
         /\ Flat(seqs) = g[n]
  <2> HIDE DEF seqs
  <2> QED BY <1>4, FlatSteps
<1> DEFINE alike == {k \in 0 .. n : Spread(Recite, Close(f[k])) = g[k]}
<1>6. 0 \in alike
  <2>1. Close(NothingChunked) = <<>>
    BY DEF Close, NothingChunked
  <2> QED BY <1>2, <1>3, <1>5, <2>1, SpreadEmpty
<1>7. ASSUME NEW k \in 1 .. n, k - 1 \in alike
      PROVE  k \in alike
  <2>1. PICK state \in Chunkings, segment \in AnySegment :
           state = f[k - 1] /\ segment = segments[k]
    BY <1>2, <1>3, ElementOfSeq
  <2>2. Spread(Recite, Close(AddSegment(state, segment)))
          = Spread(Recite, Close(state)) \o Said[segment]
    BY AddSegmentTells
  <2>3. g[k] = g[k - 1] \o Said[segment]
    BY <1>3, <1>5, <2>1
  <2>4. k \in 0 .. n /\ f[k] = AddSegment(state, segment)
    BY <1>2, <1>3, <2>1
  <2> QED BY <1>7, <2>1, <2>2, <2>3, <2>4
<1> HIDE DEF alike
<1>8. \A k \in 0 .. n : k \in alike
  BY <1>3, <1>6, <1>7, BoundedInduction
<1>9. n \in alike
  BY <1>3, <1>8
<1> QED BY <1>1, <1>2, <1>5, <1>9 DEF alike, Spread

\* How many tags there were before an item.
Tags(i, kind) == Cardinality(Before(i, kind))

LEMMA Counted ==
    ASSUME NEW i \in Nat \ {0}, NEW kind
    PROVE  /\ Tags(1, kind) = 0
           /\ Tags(i, kind) \in Nat
           /\ Tags(i + 1, kind) = Tags(i, kind) + (IF Kind(i) = kind THEN 1 ELSE 0)
<1>1. \A j \in Nat \ {0} : IsFiniteSet(Before(j, kind)) /\ Cardinality(Before(j, kind)) \in Nat
  <2>1. ASSUME NEW j \in Nat \ {0}
        PROVE  IsFiniteSet(Before(j, kind))
    <3>1. Before(j, kind) \in SUBSET (1 .. j - 1) /\ IsFiniteSet(1 .. j - 1)
      BY FS_Interval DEF Before
    <3> QED BY <3>1, FS_Subset
  <2> QED BY <2>1, FS_CardinalityType
<1>2. Before(1, kind) = {}
  BY DEF Before
<1>3. CASE Kind(i) = kind
  <2>1. Before(i + 1, kind) = Before(i, kind) \cup {i} /\ i \notin Before(i, kind)
    BY <1>3 DEF Before
  <2> QED BY <1>1, <1>2, <1>3, <2>1, FS_AddElement, FS_EmptySet DEF Tags
<1>4. CASE Kind(i) # kind
  <2>1. Before(i + 1, kind) = Before(i, kind)
    BY <1>4 DEF Before
  <2> QED BY <1>1, <1>2, <1>4, <2>1, FS_EmptySet DEF Tags
<1> QED BY <1>3, <1>4

\* Before item i the parser is as deep, and as much in a heading, as the document
\* is, and what it has told is all the text before, but for that of headings.
Reached(parser, i, told) ==
    /\ Tags(i, "skip") = Tags(i, "/skip") + parser.depth
    /\ Tags(i, "heading") = Tags(i, "/heading") + (IF parser.inHeading THEN 1 ELSE 0)
    /\ Spread(Said, parser.segments) \o (IF parser.inHeading THEN <<>> ELSE parser.buffer)
         = told

LEMMA WhereParserIs ==
    ASSUME NEW parser \in Parsings, NEW i \in Nat \ {0}, NEW told, Reached(parser, i, told)
    PROVE  /\ Visible(i) <=> parser.depth = 0
           /\ InHeading(i) <=> parser.inHeading
<1>1. parser.depth \in Nat /\ parser.inHeading \in BOOLEAN
  BY DEF Parsings
<1>2. Tags(i, "/skip") \in Nat /\ Tags(i, "/heading") \in Nat
  BY Counted
<1>3. Visible(i) <=> ~(Tags(i, "skip") > Tags(i, "/skip"))
  BY DEF Visible, Inside, Tags
<1>4. InHeading(i) <=> Tags(i, "heading") > Tags(i, "/heading")
  BY DEF InHeading, Inside, Tags
<1>5. Visible(i) <=> parser.depth = 0
  BY <1>1, <1>2, <1>3 DEF Reached
<1>6. CASE parser.inHeading
  <2>1. Tags(i, "heading") = Tags(i, "/heading") + 1
    BY <1>6 DEF Reached
  <2>2. InHeading(i)
    BY <1>2, <1>4, <2>1
  <2> QED BY <1>5, <1>6, <2>2
<1>7. CASE ~parser.inHeading
  <2>1. Tags(i, "heading") = Tags(i, "/heading") + 0
    BY <1>7 DEF Reached
  <2>2. ~InHeading(i)
    BY <1>2, <1>4, <2>1
  <2> QED BY <1>5, <1>7, <2>2
<1> QED BY <1>6, <1>7

\* Outside headings what is flushed is said.
LEMMA FlushTells ==
    ASSUME NEW parser \in Parsings, ~parser.inHeading
    PROVE  /\ Spread(Said, Flush(parser).segments)
                = Spread(Said, parser.segments) \o parser.buffer
           /\ Flush(parser).depth = parser.depth
<1>1. parser.buffer \in Seq(Letter) /\ parser.segments \in Seq(AnySegment)
  BY DEF Parsings
<1>2. Flush(parser).depth = parser.depth
  BY DEF Flush, Parsings
<1>3. CASE parser.buffer # <<>>
  <2>1. PICK segment \in AnySegment : segment = [kind |-> "text", text |-> parser.buffer]
    BY <1>1, <1>3 DEF AnySegment, Words
  <2>2. Flush(parser).segments = Append(parser.segments, segment)
    BY <1>3, <2>1 DEF Flush, Parsings
  <2>3. Said[segment] = parser.buffer
    BY <2>1 DEF Said
  <2>4. Spread(Said, Append(parser.segments, segment)) = Spread(Said, parser.segments) \o Said[segment]
    BY <1>1, ReciteSpreads, SpreadAppend
  <2> QED BY <1>2, <2>2, <2>3, <2>4
<1>4. CASE parser.buffer = <<>>
  <2>1. Flush(parser).segments = parser.segments
    BY <1>4 DEF Flush, Parsings
  <2>2. Spread(Said, parser.segments) \in Seq(Letter)
    BY <1>1, ReciteSpreads, SpreadType
  <2>3. Spread(Said, parser.segments) \o <<>> = Spread(Said, parser.segments)
    BY <2>2
  <2> QED BY <1>2, <1>4, <2>1, <2>3
<1> QED BY <1>3, <1>4

\* Text that is to be read.
ToRead(i) == Kind(i) = "data" /\ Visible(i) /\ ~InHeading(i)
Heard(i) == IF ToRead(i) THEN Characters(i, document.items[i].size, FALSE) ELSE <<>>

\* One event of the parser in a document whose elements are closed.
LEMMA HandleTells ==
    ASSUME NEW parser \in Parsings, NEW i \in Nat \ {0}, NEW told \in Seq(Letter),
           Reached(parser, i, told), document.items[i] \in HtmlItem,
           Kind(i) = "/skip" => ~Visible(i),
           Kind(i) = "/heading" => InHeading(i),
           Kind(i) \in {"heading", "/block"} => ~InHeading(i)
    PROVE  Reached(Handle(parser, i, document.items[i]), i + 1, told \o Heard(i))
<1>1. /\ parser.buffer \in Seq(Letter) /\ parser.segments \in Seq(AnySegment)
      /\ parser.depth \in Nat /\ parser.inHeading \in BOOLEAN
  BY DEF Parsings
<1> DEFINE item == document.items[i]  next == Handle(parser, i, item)
<1>2. /\ \A kind : Tags(i, kind) \in Nat
      /\ \A kind : Tags(i + 1, kind) = Tags(i, kind) + (IF Kind(i) = kind THEN 1 ELSE 0)
  BY Counted
<1>3. (Visible(i) <=> parser.depth = 0) /\ (InHeading(i) <=> parser.inHeading)
  BY WhereParserIs
<1>4. PICK said \in Seq(Letter) : said = Spread(Said, parser.segments)
  BY <1>1, ReciteSpreads, SpreadType
<1>5. said \o (IF parser.inHeading THEN <<>> ELSE parser.buffer) = told
  BY <1>4 DEF Reached
<1>6. Kind(i) = item.kind
  BY DEF Kind
<1>7. ~ToRead(i) => told \o Heard(i) = told
  BY DEF Heard
<1>8. CASE item.kind = "skip"
  <2>1. next = [parser EXCEPT !.depth = parser.depth + 1]
    BY <1>8 DEF Handle
  <2>2. /\ next.depth = parser.depth + 1 /\ next.inHeading = parser.inHeading
        /\ next.segments = parser.segments /\ next.buffer = parser.buffer
    BY <2>1 DEF Parsings
  <2>3. Tags(i + 1, "skip") = Tags(i + 1, "/skip") + next.depth
    <3>1. Tags(i, "skip") = Tags(i, "/skip") + parser.depth
      BY DEF Reached
    <3>2. Tags(i + 1, "skip") = Tags(i, "skip") + 1 /\ Tags(i + 1, "/skip") = Tags(i, "/skip") + 0
      BY <1>2, <1>6, <1>8
    <3>3. Tags(i, "skip") \in Nat /\ Tags(i, "/skip") \in Nat
      BY <1>2
    <3> QED BY <1>1, <2>2, <3>1, <3>2, <3>3
  <2>4. Tags(i + 1, "heading") = Tags(i, "heading") /\ Tags(i + 1, "/heading") = Tags(i, "/heading")
    <3>1. Tags(i + 1, "heading") = Tags(i, "heading") + 0
      BY <1>2, <1>6, <1>8
    <3>2. Tags(i + 1, "/heading") = Tags(i, "/heading") + 0
      BY <1>2, <1>6, <1>8
    <3> QED BY <1>2, <3>1, <3>2
  <2>5. ~ToRead(i)
    BY <1>6, <1>8 DEF ToRead
  <2> HIDE DEF next, item
  <2> QED BY <1>7, <2>2, <2>3, <2>4, <2>5 DEF Reached, item, next
<1>9. CASE item.kind = "/skip"
  <2>1. parser.depth # 0
    BY <1>3, <1>6, <1>9
  <2>2. next = [parser EXCEPT !.depth = parser.depth - 1]
    BY <1>9, <2>1 DEF Handle
  <2>3. /\ next.depth = parser.depth - 1 /\ next.inHeading = parser.inHeading
        /\ next.segments = parser.segments /\ next.buffer = parser.buffer
    BY <2>2 DEF Parsings
  <2>4. Tags(i + 1, "skip") = Tags(i + 1, "/skip") + next.depth
    <3>1. Tags(i, "skip") = Tags(i, "/skip") + parser.depth
      BY DEF Reached
    <3>2. Tags(i + 1, "skip") = Tags(i, "skip") + 0 /\ Tags(i + 1, "/skip") = Tags(i, "/skip") + 1
      BY <1>2, <1>6, <1>9
    <3>3. Tags(i, "skip") \in Nat /\ Tags(i, "/skip") \in Nat
      BY <1>2
    <3>4. PICK a \in Nat, b \in Nat, d \in Nat :
             a = Tags(i, "skip") /\ b = Tags(i, "/skip") /\ d = parser.depth
      BY <1>1, <3>3
    <3>5. a = b + d /\ next.depth = d - 1
      BY <2>3, <3>1, <3>4
    <3>6. Tags(i + 1, "skip") = a /\ Tags(i + 1, "/skip") = b + 1
      BY <3>2, <3>4
    <3>7. a = (b + 1) + (d - 1)
      BY <3>5
    <3> HIDE DEF next, item
    <3> QED BY <3>5, <3>6, <3>7
  <2>5. Tags(i + 1, "heading") = Tags(i, "heading") /\ Tags(i + 1, "/heading") = Tags(i, "/heading")
    <3>1. Tags(i + 1, "heading") = Tags(i, "heading") + 0
      BY <1>2, <1>6, <1>9
    <3>2. Tags(i + 1, "/heading") = Tags(i, "/heading") + 0
      BY <1>2, <1>6, <1>9
    <3> QED BY <1>2, <3>1, <3>2
  <2>6. ~ToRead(i)
    BY <1>6, <1>9 DEF ToRead
  <2> HIDE DEF next, item
  <2> QED BY <1>7, <2>3, <2>4, <2>5, <2>6 DEF Reached, item, next
<1>10. ASSUME item.kind \notin {"skip", "/skip"}, next.depth = parser.depth
       PROVE  Tags(i + 1, "skip") = Tags(i + 1, "/skip") + next.depth
  <2>1. Tags(i, "skip") = Tags(i, "/skip") + parser.depth
    BY DEF Reached
  <2>2. Tags(i + 1, "skip") = Tags(i, "skip") + 0 /\ Tags(i + 1, "/skip") = Tags(i, "/skip") + 0
    BY <1>2, <1>6, <1>10
  <2>3. Tags(i, "skip") \in Nat /\ Tags(i, "/skip") \in Nat
    BY <1>2
  <2> QED BY <1>1, <1>10, <2>1, <2>2, <2>3
<1>11. CASE item.kind = "heading"
  <2>1. ~parser.inHeading
    BY <1>3, <1>6, <1>11
  <2>2. next = [Flush(parser) EXCEPT !.inHeading = TRUE]
    BY <1>11 DEF Handle
  <2>3. PICK flushed \in Parsings : flushed = Flush(parser)
    BY FlushType
  <2>4. next.depth = parser.depth /\ next.inHeading = TRUE /\ next.segments = flushed.segments
    BY <2>1, <2>2, <2>3, FlushTells DEF Parsings
  <2>5. Tags(i + 1, "heading") = Tags(i + 1, "/heading") + 1
    <3>1. Tags(i, "heading") = Tags(i, "/heading") + 0
      BY <2>1 DEF Reached
    <3>2. Tags(i + 1, "heading") = Tags(i, "heading") + 1 /\ Tags(i + 1, "/heading") = Tags(i, "/heading") + 0
      BY <1>2, <1>6, <1>11
    <3>3. Tags(i, "heading") \in Nat /\ Tags(i, "/heading") \in Nat
      BY <1>2
    <3> QED BY <3>1, <3>2, <3>3
  <2>6. Spread(Said, next.segments) \o <<>> = told
    <3>1. Spread(Said, next.segments) = told
      BY <1>4, <1>5, <2>1, <2>3, <2>4, FlushTells
    <3> HIDE DEF next, item
    <3> QED BY <3>1
  <2>7. ~ToRead(i)
    BY <1>6, <1>11 DEF ToRead
  <2>8. Tags(i + 1, "skip") = Tags(i + 1, "/skip") + next.depth
    BY <1>10, <1>11, <2>4
  <2> HIDE DEF next, item
  <2> QED BY <1>7, <2>4, <2>5, <2>6, <2>7, <2>8 DEF Reached, item, next
<1>12. CASE item.kind = "/heading"
  <2>1. parser.inHeading
    BY <1>3, <1>6, <1>12
  <2>2. next.depth = parser.depth /\ next.inHeading = FALSE /\ next.buffer = <<>>
    BY <1>12 DEF Handle, Parsings
  <2>3. Spread(Said, next.segments) = said
    <3>1. CASE parser.buffer = <<>>
      <4>1. next.segments = parser.segments
        BY <1>12, <3>1 DEF Handle, Parsings
      <4> QED BY <1>4, <4>1
    <3>2. CASE parser.buffer # <<>>
      <4>1. PICK segment \in AnySegment : segment = [kind |-> "heading", text |-> parser.buffer]
        BY <1>1, <3>2 DEF AnySegment, Words
      <4>2. next.segments = Append(parser.segments, segment)
        BY <1>12, <3>2, <4>1 DEF Handle, Parsings
      <4>3. Said[segment] = <<>>
        BY <4>1 DEF Said
      <4>4. Spread(Said, Append(parser.segments, segment)) = said \o Said[segment]
        <5>1. PICK segments \in Seq(AnySegment) : segments = parser.segments
          BY <1>1
        <5>2. Spread(Said, Append(segments, segment)) = Spread(Said, segments) \o Said[segment]
          BY ReciteSpreads, SpreadAppend
        <5> QED BY <1>4, <5>1, <5>2
      <4> HIDE DEF next, item
      <4> QED BY <4>2, <4>3, <4>4
    <3> QED BY <3>1, <3>2
  <2>4. Tags(i + 1, "heading") = Tags(i + 1, "/heading") + 0
    <3>1. Tags(i, "heading") = Tags(i, "/heading") + 1
      BY <2>1 DEF Reached
    <3>2. Tags(i + 1, "heading") = Tags(i, "heading") + 0 /\ Tags(i + 1, "/heading") = Tags(i, "/heading") + 1
      BY <1>2, <1>6, <1>12
    <3>3. Tags(i, "heading") \in Nat /\ Tags(i, "/heading") \in Nat
      BY <1>2
    <3> QED BY <3>1, <3>2, <3>3
  <2>5. ~ToRead(i)
    BY <1>6, <1>12 DEF ToRead
  <2>6. Tags(i + 1, "skip") = Tags(i + 1, "/skip") + next.depth
    BY <1>10, <1>12, <2>2
  <2> HIDE DEF next, item
  <2> QED BY <1>5, <1>7, <2>1, <2>2, <2>3, <2>4, <2>5, <2>6 DEF Reached, item, next
<1>13. ASSUME item.kind \notin {"heading", "/heading"}, next.inHeading = parser.inHeading
       PROVE  Tags(i + 1, "heading") = Tags(i + 1, "/heading") + (IF next.inHeading THEN 1 ELSE 0)
  <2>1. Tags(i, "heading") = Tags(i, "/heading") + (IF parser.inHeading THEN 1 ELSE 0)
    BY DEF Reached
  <2>2. /\ Tags(i + 1, "heading") = Tags(i, "heading") + 0
        /\ Tags(i + 1, "/heading") = Tags(i, "/heading") + 0
    BY <1>2, <1>6, <1>13
  <2>3. Tags(i, "heading") \in Nat /\ Tags(i, "/heading") \in Nat
    BY <1>2
  <2> HIDE DEF next, item
  <2> QED BY <1>13, <2>1, <2>2, <2>3
<1>14. CASE item.kind = "/block"
  <2>1. ~parser.inHeading
    BY <1>3, <1>6, <1>14
  <2>2. next = Flush(parser)
    BY <1>14 DEF Handle
  <2>3. next.depth = parser.depth /\ next.inHeading = parser.inHeading /\ next.buffer = <<>>
    BY <2>2 DEF Flush, Parsings
  <2>4. Spread(Said, next.segments) \o next.buffer = told
    <3>1. Spread(Said, next.segments) = told
      BY <1>4, <1>5, <2>1, <2>2, FlushTells
    <3> HIDE DEF next, item
    <3> QED BY <2>3, <3>1
  <2>5. ~ToRead(i)
    BY <1>6, <1>14 DEF ToRead
  <2>6. /\ Tags(i + 1, "skip") = Tags(i + 1, "/skip") + next.depth
        /\ Tags(i + 1, "heading") = Tags(i + 1, "/heading") + (IF next.inHeading THEN 1 ELSE 0)
    BY <1>10, <1>13, <1>14, <2>3
  <2> HIDE DEF next, item
  <2> QED BY <1>7, <2>1, <2>3, <2>4, <2>5, <2>6 DEF Reached, item, next
<1>15. CASE item.kind = "data" /\ parser.depth > 0
  <2>1. next = parser
    BY <1>15 DEF Handle
  <2>2. ~ToRead(i)
    BY <1>1, <1>3, <1>15 DEF ToRead
  <2>3. /\ Tags(i + 1, "skip") = Tags(i + 1, "/skip") + next.depth
        /\ Tags(i + 1, "heading") = Tags(i + 1, "/heading") + (IF next.inHeading THEN 1 ELSE 0)
    BY <1>10, <1>13, <1>15, <2>1
  <2> HIDE DEF next, item
  <2> QED BY <1>7, <2>1, <2>2, <2>3 DEF Reached, item, next
<1>16. CASE item.kind = "data" /\ parser.depth = 0
  <2>1. PICK more \in Seq(Letter) : more = Characters(i, item.size, FALSE)
    <3>1. item.size \in Nat \ {0}
      BY DEF HtmlItem
    <3> QED BY <3>1, CharactersAreLetters
  <2>2. next = [parser EXCEPT !.buffer = parser.buffer \o more]
    BY <1>16, <2>1 DEF Handle
  <2>3. /\ next.depth = parser.depth /\ next.inHeading = parser.inHeading
        /\ next.segments = parser.segments /\ next.buffer = parser.buffer \o more
    BY <2>2 DEF Parsings
  <2>4. /\ Tags(i + 1, "skip") = Tags(i + 1, "/skip") + next.depth
        /\ Tags(i + 1, "heading") = Tags(i + 1, "/heading") + (IF next.inHeading THEN 1 ELSE 0)
    BY <1>10, <1>13, <1>16, <2>3
  <2>5. CASE parser.inHeading
    <3>1. ~ToRead(i)
      BY <1>3, <2>5 DEF ToRead
    <3> HIDE DEF next, item
    <3> QED BY <1>4, <1>5, <1>7, <2>3, <2>4, <2>5, <3>1 DEF Reached, item, next
  <2>6. CASE ~parser.inHeading
    <3>1. Heard(i) = more
      BY <1>3, <1>6, <1>16, <2>1, <2>6 DEF ToRead, Heard
    <3>2. PICK buffer \in Seq(Letter) : buffer = parser.buffer
      BY <1>1
    <3>3. said \o (buffer \o more) = (said \o buffer) \o more
      BY ThreeInARow
    <3> HIDE DEF next, item
    <3> QED BY <1>4, <1>5, <2>3, <2>4, <2>6, <3>1, <3>2, <3>3 DEF Reached, item, next
  <2> QED BY <2>5, <2>6
<1>17. \/ item.kind \in {"skip", "/skip", "heading", "/heading", "/block"}
       \/ item.kind = "data" /\ (parser.depth > 0 \/ parser.depth = 0)
  BY <1>1 DEF HtmlItem
<1> HIDE DEF item
<1> QED BY <1>8, <1>9, <1>11, <1>12, <1>14, <1>15, <1>16, <1>17

\* The segments of a document whose elements are closed say all there is to read.
LEMMA SegmentsSay ==
    ASSUME document.items \in Seq(HtmlItem), WellFormed, NEW told,
           told = [i \in 1 .. Len(document.items) |-> Heard(i)]
    PROVE  /\ Spreads(told, 1 .. Len(document.items), Letter)
           /\ Spread(Said, Segments(document.items)) = Spread(told, Indices(document.items))
<1> DEFINE n == Len(document.items)
<1>1. n \in Nat /\ DOMAIN document.items = 1 .. n
  OBVIOUS
<1>2. ASSUME NEW i \in 1 .. n
      PROVE  Heard(i) \in Seq(Letter)
  <2>1. CASE ToRead(i)
    <3>1. document.items[i].size \in Nat \ {0} /\ i \in Nat \ {0}
      <4>1. PICK item \in HtmlItem : item = document.items[i]
        BY <1>1
      <4> QED BY <1>1, <4>1 DEF HtmlItem
    <3> QED BY <2>1, <3>1, CharactersAreLetters DEF Heard
  <2>2. CASE ~ToRead(i)
    <3>1. <<>> \in Seq(Letter)
      OBVIOUS
    <3> QED BY <2>2, <3>1 DEF Heard
  <2> QED BY <2>1, <2>2
<1>3. Spreads(told, 1 .. n, Letter)
  BY <1>2 DEF Spreads
<1>4. told \in Seq(Seq(Letter)) /\ Len(told) = n /\ \A i \in 1 .. n : told[i] = Heard(i)
  <2>1. told \in Seq(Seq(Letter))
    BY <1>1, <1>2, IsASeq
  <2> QED BY <1>1, <2>1
<1>5. PICK g \in [0 .. n -> Seq(Letter)] :
         /\ g[0] = <<>>
         /\ \A k \in 1 .. n : g[k - 1] \in Seq(Letter) /\ g[k] = g[k - 1] \o told[k]
         /\ Flat(told) = g[n]
  <2> HIDE DEF n
  <2> QED BY <1>4, FlatSteps
<1>6. PICK f \in [0 .. n -> Parsings] :
         /\ f[0] = NothingParsed
         /\ \A k \in 1 .. n :
               f[k - 1] \in Parsings /\ f[k] = Handle(f[k - 1], k, document.items[k])
         /\ Segments(document.items) = Flush(f[n]).segments
  BY ParserSteps
<1> DEFINE reached == {k \in 0 .. n : Reached(f[k], k + 1, g[k])}
<1>7. 0 \in reached
  <2>1. /\ NothingParsed.depth = 0 /\ NothingParsed.inHeading = FALSE
        /\ NothingParsed.segments = <<>> /\ NothingParsed.buffer = <<>>
    BY DEF NothingParsed
  <2>2. Tags(1, "skip") = 0 /\ Tags(1, "/skip") = 0 /\ Tags(1, "heading") = 0 /\ Tags(1, "/heading") = 0
    BY Counted
  <2>3. Spread(Said, <<>>) \o <<>> = <<>>
    BY SpreadEmpty
  <2>4. Reached(NothingParsed, 1, <<>>)
    BY <2>1, <2>2, <2>3 DEF Reached
  <2> QED BY <1>1, <1>5, <1>6, <2>4
<1>8. ASSUME NEW k \in 1 .. n, k - 1 \in reached
      PROVE  k \in reached
  <2>1. PICK parser \in Parsings, before \in Seq(Letter) : parser = f[k - 1] /\ before = g[k - 1]
    BY <1>5, <1>6
  <2>2. PICK i \in Nat \ {0} : i = k /\ (k - 1) + 1 = i
    BY <1>1
  <2>3. Reached(parser, i, before)
    BY <1>8, <2>1, <2>2
  <2>4. document.items[i] \in HtmlItem
    BY <1>1, <2>2, ElementOfSeq
  <2>5. /\ Kind(i) = "/skip" => ~Visible(i)
        /\ Kind(i) = "/heading" => InHeading(i)
        /\ Kind(i) \in {"heading", "/block"} => ~InHeading(i)
    BY <1>1, <2>2 DEF WellFormed
  <2>6. Reached(Handle(parser, i, document.items[i]), i + 1, before \o Heard(i))
    BY <2>3, <2>4, <2>5, HandleTells
  <2>7. f[k] = Handle(parser, i, document.items[i]) /\ g[k] = before \o Heard(i)
    BY <1>4, <1>5, <1>6, <2>1, <2>2
  <2>8. k \in 0 .. n
    BY <1>1
  <2> HIDE DEF n
  <2> QED BY <2>2, <2>6, <2>7, <2>8
<1> HIDE DEF reached
<1>9. \A k \in 0 .. n : k \in reached
  BY <1>1, <1>7, <1>8, BoundedInduction
<1>10. n \in 0 .. n /\ n \in reached /\ n + 1 \in Nat \ {0}
  BY <1>1, <1>9
<1>11. PICK parser \in Parsings : parser = f[n]
  BY <1>6, <1>10
<1>12. Reached(parser, n + 1, g[n])
  BY <1>10, <1>11 DEF reached
<1>13. ~parser.inHeading
  <2>1. ~InHeading(n + 1)
    BY DEF WellFormed
  <2> HIDE DEF n
  <2> QED BY <1>10, <1>12, <2>1, WhereParserIs
<1>14. Spread(Said, Flush(parser).segments) = g[n]
  <2>1. Spread(Said, Flush(parser).segments) = Spread(Said, parser.segments) \o parser.buffer
    BY <1>13, FlushTells
  <2> HIDE DEF n
  <2> QED BY <1>12, <1>13, <2>1 DEF Reached
<1>15. Spread(told, Indices(document.items)) = Flat(told)
  <2>1. Len(Indices(document.items)) = n /\ \A k \in 1 .. n : Indices(document.items)[k] = k
    BY <1>1 DEF Indices
  <2>2. told = [k \in 1 .. n |-> told[k]]
    OBVIOUS
  <2>3. told = [k \in 1 .. Len(Indices(document.items)) |-> told[Indices(document.items)[k]]]
    <3>1. \A k \in 1 .. n : told[k] = told[Indices(document.items)[k]]
      BY <2>1
    <3>2. [k \in 1 .. n |-> told[k]] = [k \in 1 .. n |-> told[Indices(document.items)[k]]]
      BY <3>1, Zenon
    <3> HIDE DEF n
    <3> QED BY <2>1, <2>2, <3>2
  <2> QED BY <2>3 DEF Spread
<1> QED BY <1>3, <1>5, <1>6, <1>11, <1>14, <1>15

(***************************************************************************)
(* What there is in the chunks.                                            *)
(***************************************************************************)

InChunks == Flat([n \in 1 .. Len(chunks) |-> Letters(chunks[n].text)])

LEMMA ChunkedIsPlaces == Chunked = Places(InChunks)
BY DEF Chunked, Places, InChunks

LEMMA BodyIsBodyOf ==
    ASSUME NEW bodies, \A i \in 1 .. Len(document.items) : i \in bodies <=> IsBody(i)
    PROVE  Body = BodyOf(document.items, bodies)
<1>1. \A i \in 1 .. Len(document.items) :
         (IF IsBody(i) THEN [k \in 1 .. document.items[i].size |-> <<i, k>>] ELSE <<>>)
           = IF i \in bodies THEN [k \in 1 .. document.items[i].size |-> <<i, k>>] ELSE <<>>
  OBVIOUS
<1>2. [i \in 1 .. Len(document.items) |->
         IF IsBody(i) THEN [k \in 1 .. document.items[i].size |-> <<i, k>>] ELSE <<>>]
      = [i \in 1 .. Len(document.items) |->
         IF i \in bodies THEN [k \in 1 .. document.items[i].size |-> <<i, k>>] ELSE <<>>]
  BY <1>1, Zenon
<1> QED BY <1>2 DEF Body, BodyOf

\* An article.
LEMMA HtmlIsWhole ==
    ASSUME IsFor("html"), WellFormed, document.items \in Seq(HtmlItem),
           chunks = ChunkHtml(document.items)
    PROVE  Chunked = Body
<1> DEFINE n == Len(document.items)
           told == [i \in 1 .. n |-> Heard(i)]
           bodies == {i \in 1 .. n : ToRead(i)}
<1>1. document.items \in Seq(AnyItem)
  <2>1. HtmlItem \subseteq AnyItem
    <3>1. "html" \in DOMAIN ItemKinds
          /\ ItemKinds["html"] = {"data", "heading", "/heading", "/block", "skip", "/skip"}
      BY DEF ItemKinds
    <3>2. ItemKinds["html"] \subseteq UNION {ItemKinds[c] : c \in DOMAIN ItemKinds}
      BY <3>1
    <3> QED BY <3>1, <3>2 DEF HtmlItem, AnyItem
  <2> QED BY <2>1, SeqMonotonic
<1>2. /\ Spreads(told, 1 .. n, Letter)
      /\ Spread(Said, Segments(document.items)) = Spread(told, Indices(document.items))
  BY SegmentsSay
<1>3. TellsBodies(told, document.items, bodies)
  <2>1. ASSUME NEW i \in 1 .. n
        PROVE  told[i] = IF i \in bodies THEN Characters(i, document.items[i].size, FALSE) ELSE <<>>
    BY DEF Heard
  <2> HIDE DEF told, bodies
  <2> QED BY <2>1 DEF TellsBodies
<1>4. Places(Spread(told, Indices(document.items))) = BodyOf(document.items, bodies)
  <2> HIDE DEF told, bodies
  <2> QED BY <1>1, <1>2, <1>3, PlacesOfBodies
<1>5. InChunks = Spread(Recite, chunks)
  <2>1. PICK pieces \in Seq(HtmlChunk) : pieces = chunks
    BY HtmlFits
  <2>2. \A k \in 1 .. Len(pieces) : Recite[pieces[k]] = Letters(pieces[k].text)
    BY ElementOfSeq DEF Recite
  <2>3. [k \in 1 .. Len(pieces) |-> Recite[pieces[k]]] = [k \in 1 .. Len(pieces) |-> Letters(pieces[k].text)]
    BY <2>2, Zenon
  <2> QED BY <2>1, <2>3 DEF InChunks, Spread
<1>6. InChunks = Spread(told, Indices(document.items))
  <2> HIDE DEF told
  <2> QED BY <1>2, <1>5, HtmlTells
<1>7. Body = BodyOf(document.items, bodies)
  <2>1. \A i \in 1 .. n : i \in bodies <=> IsBody(i)
    BY DEF IsBody, ToRead, IsFor
  <2> HIDE DEF bodies
  <2> QED BY <2>1, BodyIsBodyOf
<1> HIDE DEF told, bodies
<1> QED BY <1>4, <1>6, <1>7, ChunkedIsPlaces

\* The texts of a PDF file.
LEMMA PlainSpells ==
    ASSUME NEW texts \in Seq(Fitting), chunks = Plain(texts)
    PROVE  InChunks = Spelled(texts)
<1>1. texts \in Seq(Seq(Char))
  BY TextsAreSeqs
<1>2. Len(texts) = Len(chunks) /\ \A k \in 1 .. Len(texts) : chunks[k].text = texts[k]
  BY DEF Plain
<1>3. \A k \in 1 .. Len(texts) : Letters(chunks[k].text) = Reading[texts[k]]
  BY <1>1, <1>2, ElementOfSeq DEF Reading
<1>4. [k \in 1 .. Len(texts) |-> Letters(chunks[k].text)] = [k \in 1 .. Len(texts) |-> Reading[texts[k]]]
  BY <1>3, Zenon
<1>5. InChunks = Spread(Reading, texts)
  BY <1>2, <1>4 DEF InChunks, Spread
<1> QED BY <1>1, <1>5, SpelledOneByOne

\* A PDF file by paragraph.
LEMMA ParagraphsAreWhole ==
    ASSUME IsFor("paragraphs"), document.items \in Seq(AnyItem),
           chunks = Plain(ChunkParagraphs(document.items))
    PROVE  Chunked = Body
<1> DEFINE bodies == 1 .. Len(document.items)
<1>1. Spreads(Typed(document.items), 1 .. Len(document.items), Letter)
  BY TypedSpreads
<1>2. TellsBodies(Typed(document.items), document.items, bodies)
  <2>1. ASSUME NEW i \in 1 .. Len(document.items)
        PROVE  \E ends \in BOOLEAN : Typed(document.items)[i] =
                  IF i \in bodies THEN Characters(i, document.items[i].size, ends) ELSE <<>>
    <3>1. PICK ends \in BOOLEAN : ends = EndsSentence(document.items[i])
      BY DEF EndsSentence
    <3>2. Typed(document.items)[i] = Characters(i, document.items[i].size, ends)
      BY <3>1 DEF Typed
    <3> QED BY <3>2
  <2> HIDE DEF bodies
  <2> QED BY <2>1 DEF TellsBodies
<1>3. PICK texts \in Seq(Fitting) : texts = ChunkParagraphs(document.items)
  BY ParagraphsFit
<1>4. InChunks = Spread(Typed(document.items), Indices(document.items))
  BY <1>3, PlainSpells, ParagraphsSpell
<1>5. Body = BodyOf(document.items, bodies)
  <2>1. \A i \in 1 .. Len(document.items) : i \in bodies <=> IsBody(i)
    BY DEF IsBody, IsFor
  <2> HIDE DEF bodies
  <2> QED BY <2>1, BodyIsBodyOf
<1>6. Places(Spread(Typed(document.items), Indices(document.items))) = BodyOf(document.items, bodies)
  <2> HIDE DEF bodies
  <2> QED BY <1>1, <1>2, PlacesOfBodies
<1> QED BY <1>4, <1>5, <1>6, ChunkedIsPlaces

\* A PDF file by section.
LEMMA SectionsAreWhole ==
    ASSUME IsFor("sections"), document.items \in Seq(AnyItem),
           chunks = Plain(ChunkSections(document.items))
    PROVE  Chunked = Body
<1> DEFINE S == 1 .. Len(document.items)
           noise == {i \in S : document.items[i].kind = "noise"}
           bodies == S \ noise
           typed == Typed(document.items)
           told == [i \in S |-> IF i \in noise THEN <<>> ELSE typed[i]]
<1>1. Spreads(typed, S, Letter) /\ Spreads(told, S, Letter)
  <2>1. Spreads(typed, S, Letter)
    BY TypedSpreads
  <2>2. \A i \in S : typed[i] \in Seq(Letter) /\ <<>> \in Seq(Letter)
    <3> HIDE DEF S, typed
    <3> QED BY <2>1 DEF Spreads
  <2> HIDE DEF S, typed, noise
  <2> QED BY <2>1, <2>2 DEF Spreads
<1>2. TellsBodies(told, document.items, bodies)
  <2>1. ASSUME NEW i \in S
        PROVE  \E ends \in BOOLEAN : told[i] =
                  IF i \in bodies THEN Characters(i, document.items[i].size, ends) ELSE <<>>
    <3>1. PICK ends \in BOOLEAN : ends = EndsSentence(document.items[i])
      BY DEF EndsSentence
    <3>2. typed[i] = Characters(i, document.items[i].size, ends)
      BY <3>1 DEF Typed
    <3>3. i \in bodies <=> i \notin noise
      OBVIOUS
    <3>4. told[i] = IF i \in bodies THEN Characters(i, document.items[i].size, ends) ELSE <<>>
      <4> HIDE DEF noise, bodies, typed
      <4> QED BY <3>2, <3>3
    <3> QED BY <3>4
  <2> HIDE DEF bodies, told
  <2> QED BY <2>1 DEF TellsBodies
<1>3. PICK texts \in Seq(Fitting) : texts = ChunkSections(document.items)
  BY SectionsFit
<1>4. PICK indices \in Seq(S) : indices = Indices(document.items)
  BY IndicesType
<1>5. InChunks = Spread(typed, Without(indices, noise))
  BY <1>3, <1>4, PlainSpells, SectionsSpell
<1>6. Spread(typed, Without(indices, noise)) = Spread(told, indices)
  <2> HIDE DEF noise, typed, S
  <2>1. /\ Spreads(Keeping(S, noise), S, S)
        /\ Without(indices, noise) = Spread(Keeping(S, noise), indices)
    BY WithoutSpreads
  <2>2. ASSUME NEW i \in S
        PROVE  told[i] = Spread(typed, Keeping(S, noise)[i])
    <3>1. CASE i \in noise
      BY <3>1, SpreadEmpty DEF Keeping
    <3>2. CASE i \notin noise
      <4>1. Spread(typed, <<i>>) = typed[i]
        BY <1>1, SpreadOne
      <4> QED BY <3>2, <4>1 DEF Keeping
    <3> QED BY <3>1, <3>2
  <2> HIDE DEF told
  <2> QED BY <1>1, <2>1, <2>2, SpreadTwice
<1>7. Places(Spread(told, indices)) = BodyOf(document.items, bodies)
  <2> HIDE DEF told, bodies, noise
  <2> QED BY <1>1, <1>2, <1>4, PlacesOfBodies
<1>8. Body = BodyOf(document.items, bodies)
  <2>1. \A i \in 1 .. Len(document.items) : i \in bodies <=> IsBody(i)
    BY DEF IsBody, IsFor, Kind
  <2> HIDE DEF bodies
  <2> QED BY <2>1, BodyIsBodyOf
<1> HIDE DEF told, bodies, noise, typed, S
<1> QED BY <1>5, <1>6, <1>7, <1>8, ChunkedIsPlaces

\* The chunks hold the text of the document, all of it, once and in order.
THEOREM NothingIsLost == ChunkSpec => []NothingLost
<1>1. ASSUME ChunkInv PROVE NothingLost
  <2>1. CASE document = NoDocument
    BY <2>1 DEF NothingLost
  <2>2. CASE /\ document.chunker \in DOMAIN ItemKinds
             /\ document.items \in Seq(Items(document.chunker))
             /\ chunks = ChunksOf(document.chunker, document.items)
    <3>1. document.items \in Seq(AnyItem)
      BY <2>2, ItemsType, SeqMonotonic
    <3>2. CASE document.chunker = "html"
      <4>1. document.items \in Seq(HtmlItem)
        BY <2>2, <3>2, ItemsType, SeqMonotonic
      <4>2. chunks = ChunkHtml(document.items) /\ IsFor("html")
        BY <2>2, <3>2 DEF ChunksOf, IsFor
      <4> QED BY <4>1, <4>2, HtmlIsWhole DEF NothingLost
    <3>3. CASE document.chunker = "paragraphs"
      <4>1. chunks = Plain(ChunkParagraphs(document.items)) /\ IsFor("paragraphs")
        BY <2>2, <3>3 DEF ChunksOf, IsFor
      <4> QED BY <3>1, <4>1, ParagraphsAreWhole DEF NothingLost
    <3>4. CASE document.chunker = "sections"
      <4>1. chunks = Plain(ChunkSections(document.items)) /\ IsFor("sections")
        BY <2>2, <3>4 DEF ChunksOf, IsFor
      <4> QED BY <3>1, <4>1, SectionsAreWhole DEF NothingLost
    <3> QED BY <2>2, <3>2, <3>3, <3>4, ItemsType
  <2> QED BY <1>1, <2>1, <2>2 DEF ChunkInv
<1> QED BY <1>1, ChunkInvariant, PTL

(***************************************************************************)
(* The heading that a chunk of HTML carries.                               *)
(***************************************************************************)

ItemsOf(text) == {text[m][1] : m \in DOMAIN text}

InTitle(j) == Kind(j) = "data" /\ Visible(j) /\ InHeading(j)
Titles(i) == {j \in 1 .. i - 1 : InTitle(j)}

\* Of some items, those in the last heading that any of them is in.
Latest(items) == {j \in items : \A k \in items : Tags(k, "heading") <= Tags(j, "heading")}

\* What is in a heading before item i: in the one it is in itself, or in another.
Current(i) == {j \in Titles(i) : Tags(j, "heading") = Tags(i, "heading")}
Earlier(i) == {j \in Titles(i) : Tags(j, "heading") < Tags(i, "heading")}

LEMMA NearestIsLatest == \A i : Nearest(i) = Latest(Titles(i))
BY DEF Nearest, Latest, Titles, InTitle, Tags

\* There are never fewer.
LEMMA MoreTags ==
    ASSUME NEW i \in Nat \ {0}, NEW kind
    PROVE  \A j \in 1 .. i : Tags(j, kind) \in Nat /\ Tags(j, kind) <= Tags(i, kind)
<1> DEFINE S == {n \in Nat : \A j \in 1 .. n + 1 :
                    Tags(j, kind) \in Nat /\ Tags(j, kind) <= Tags(n + 1, kind)}
<1>1. 0 \in S
  BY Counted
<1>2. ASSUME NEW n \in Nat, n \in S
      PROVE  n + 1 \in S
  <2>1. PICK m \in Nat \ {0} : m = n + 1
    OBVIOUS
  <2>2. /\ Tags(m, kind) \in Nat /\ Tags(m + 1, kind) \in Nat
        /\ Tags(m, kind) <= Tags(m + 1, kind)
    <3>1. Tags(m, kind) \in Nat
      BY Counted
    <3>2. Tags(m + 1, kind) = Tags(m, kind) + 1 \/ Tags(m + 1, kind) = Tags(m, kind) + 0
      BY Counted
    <3> QED BY <3>1, <3>2
  <2>3. \A j \in 1 .. m : Tags(j, kind) \in Nat /\ Tags(j, kind) <= Tags(m, kind)
    BY <1>2, <2>1
  <2>4. \A j \in 1 .. m + 1 : j \in 1 .. m \/ j = m + 1
    OBVIOUS
  <2>5. \A j \in 1 .. m + 1 : Tags(j, kind) \in Nat /\ Tags(j, kind) <= Tags(m + 1, kind)
    BY <2>2, <2>3, <2>4
  <2> QED BY <2>1, <2>5
<1> HIDE DEF S
<1>3. \A n \in Nat : n \in S
  BY <1>1, <1>2, Induction
<1>4. i - 1 \in S /\ (i - 1) + 1 = i
  BY <1>3
<1> QED BY <1>4 DEF S

LEMMA TitlesApart ==
    ASSUME NEW i \in Nat \ {0}
    PROVE  /\ Titles(i) = Earlier(i) \cup Current(i)
           /\ Current(i) # {} => Latest(Titles(i)) = Current(i)
           /\ Current(i) = {} => Latest(Titles(i)) = Latest(Earlier(i))
<1>1. \A j \in Titles(i) :
         /\ Tags(j, "heading") \in Nat /\ Tags(i, "heading") \in Nat
         /\ Tags(j, "heading") <= Tags(i, "heading")
  <2>1. \A j \in Titles(i) : j \in 1 .. i
    BY DEF Titles
  <2> QED BY <2>1, MoreTags, Counted
<1>2. Titles(i) = Earlier(i) \cup Current(i)
  BY <1>1 DEF Earlier, Current
<1>3. ASSUME NEW k \in Current(i)
      PROVE  Latest(Titles(i)) = Current(i)
  <2>1. ASSUME NEW j \in Current(i)
        PROVE  j \in Latest(Titles(i))
    BY <1>1 DEF Current, Latest
  <2>2. ASSUME NEW j \in Latest(Titles(i))
        PROVE  j \in Current(i)
    BY <1>1, <1>3 DEF Current, Latest
  <2> QED BY <2>1, <2>2
<1> QED BY <1>2, <1>3

\* What item i changes in that.
LEMMA TitlesNext ==
    ASSUME NEW i \in Nat \ {0}
    PROVE  /\ ~InTitle(i) /\ Kind(i) # "heading" =>
                 /\ Titles(i + 1) = Titles(i)
                 /\ Earlier(i + 1) = Earlier(i) /\ Current(i + 1) = Current(i)
           /\ InTitle(i) =>
                 Earlier(i + 1) = Earlier(i) /\ Current(i + 1) = Current(i) \cup {i}
           /\ Kind(i) = "heading" =>
                 Earlier(i + 1) = Titles(i) /\ Current(i + 1) = {}
<1>1. /\ Tags(i, "heading") \in Nat
      /\ Kind(i) # "heading" => Tags(i + 1, "heading") = Tags(i, "heading")
      /\ Kind(i) = "heading" => Tags(i + 1, "heading") = Tags(i, "heading") + 1
  <2>1. Tags(i, "heading") \in Nat
    BY Counted
  <2>2. CASE Kind(i) = "heading"
    BY <2>1, <2>2, Counted
  <2>3. CASE Kind(i) # "heading"
    <3>1. Tags(i + 1, "heading") = Tags(i, "heading") + 0
      BY <2>3, Counted
    <3> QED BY <2>1, <2>3, <3>1
  <2> QED BY <2>2, <2>3
<1>2. \A j \in Titles(i) :
         Tags(j, "heading") \in Nat /\ Tags(j, "heading") <= Tags(i, "heading")
  <2>1. \A j \in Titles(i) : j \in 1 .. i
    BY DEF Titles
  <2> QED BY <2>1, MoreTags
<1>3. /\ ~InTitle(i) => Titles(i + 1) = Titles(i)
      /\ InTitle(i) => Titles(i + 1) = Titles(i) \cup {i}
      /\ i \notin Titles(i)
  BY DEF Titles
<1>4. InTitle(i) => Kind(i) # "heading"
  BY DEF InTitle
<1>5. Kind(i) = "heading" => ~InTitle(i)
  BY DEF InTitle
<1>6. ASSUME ~InTitle(i), Kind(i) # "heading"
      PROVE  /\ Titles(i + 1) = Titles(i)
             /\ Earlier(i + 1) = Earlier(i) /\ Current(i + 1) = Current(i)
  BY <1>1, <1>3, <1>6 DEF Earlier, Current
<1>7. ASSUME InTitle(i)
      PROVE  Earlier(i + 1) = Earlier(i) /\ Current(i + 1) = Current(i) \cup {i}
  <2>1. Titles(i + 1) = Titles(i) \cup {i} /\ Tags(i + 1, "heading") = Tags(i, "heading")
    BY <1>1, <1>3, <1>4, <1>7
  <2> QED BY <1>1, <2>1 DEF Earlier, Current
<1>8. ASSUME Kind(i) = "heading"
      PROVE  Earlier(i + 1) = Titles(i) /\ Current(i + 1) = {}
  <2>1. Titles(i + 1) = Titles(i) /\ Tags(i + 1, "heading") = Tags(i, "heading") + 1
    BY <1>1, <1>3, <1>5, <1>8
  <2>2. \A j \in Titles(i) :
           /\ Tags(j, "heading") < Tags(i + 1, "heading")
           /\ Tags(j, "heading") # Tags(i + 1, "heading")
    BY <1>1, <1>2, <2>1
  <2> QED BY <2>1, <2>2 DEF Earlier, Current
<1> QED BY <1>6, <1>7, <1>8

(***************************************************************************)
(* The heading of each segment.                                            *)
(***************************************************************************)

HeadingsTo(segments, m) == {h \in 1 .. m : segments[h].kind = "heading"}

\* The text of the last of the first m segments that is a heading.
Title(segments, m) ==
    LET headings == HeadingsTo(segments, m) IN
    IF headings = {} THEN <<>>
    ELSE segments[CHOOSE h \in headings : \A g \in headings : g <= h].text

LEMMA TitleNext ==
    ASSUME NEW segments \in Seq(AnySegment), NEW m \in 1 .. Len(segments)
    PROVE  Title(segments, m) = IF segments[m].kind = "heading" THEN segments[m].text
                                ELSE Title(segments, m - 1)
<1>1. m \in Nat \ {0}
  OBVIOUS
<1>2. CASE segments[m].kind = "heading"
  <2> DEFINE headings == HeadingsTo(segments, m)
             last == CHOOSE h \in headings : \A g \in headings : g <= h
  <2>1. m \in headings /\ \A g \in headings : g <= m /\ g \in Nat
    BY <1>1, <1>2 DEF HeadingsTo
  <2>2. last \in headings /\ \A g \in headings : g <= last
    <3> HIDE DEF headings
    <3> QED BY <2>1
  <2>3. last = m
    <3> HIDE DEF headings, last
    <3> QED BY <1>1, <2>1, <2>2
  <2> QED BY <1>2, <2>1, <2>3 DEF Title
<1>3. CASE segments[m].kind # "heading"
  <2>1. HeadingsTo(segments, m) = HeadingsTo(segments, m - 1)
    BY <1>1, <1>3 DEF HeadingsTo
  <2> QED BY <1>3, <2>1 DEF Title
<1> QED BY <1>2, <1>3

\* None before the first; and a segment more changes nothing before it.
LEMMA TitleFirst == \A segments : Title(segments, 0) = <<>>
BY DEF Title, HeadingsTo

LEMMA TitleSame ==
    ASSUME NEW segments \in Seq(AnySegment), NEW segment \in AnySegment,
           NEW m \in 0 .. Len(segments)
    PROVE  Title(Append(segments, segment), m) = Title(segments, m)
<1>1. PICK more \in Seq(AnySegment) : more = Append(segments, segment)
  BY AppendProperties
<1>2. \A h \in 1 .. m : more[h] = segments[h]
  BY <1>1, AppendProperties
<1>3. HeadingsTo(more, m) = HeadingsTo(segments, m)
  BY <1>2 DEF HeadingsTo
<1> DEFINE headings == HeadingsTo(segments, m)
           last == CHOOSE h \in headings : \A g \in headings : g <= h
<1>4. CASE headings = {}
  BY <1>1, <1>3, <1>4 DEF Title
<1>5. CASE headings # {}
  <2>1. \E h \in headings : \A g \in headings : g <= h
    <3>1. headings \in SUBSET (0 .. m) /\ m \in Nat
      BY DEF HeadingsTo
    <3> HIDE DEF headings
    <3> QED BY <1>5, <3>1, Greatest
  <2>2. last \in headings
    <3> HIDE DEF headings
    <3> QED BY <2>1
  <2>3. last \in 1 .. m
    BY <2>2 DEF HeadingsTo
  <2>4. more[last] = segments[last]
    BY <1>2, <2>3
  <2>5. Title(more, m) = more[last].text /\ Title(segments, m) = segments[last].text
    <3> HIDE DEF last, headings
    <3>1. Title(segments, m) = segments[last].text
      BY <1>5 DEF Title, headings, last
    <3>2. Title(more, m) = more[last].text
      BY <1>3, <1>5 DEF Title, headings, last
    <3> QED BY <3>1, <3>2
  <2> QED BY <1>1, <2>4, <2>5
<1> QED BY <1>4, <1>5

\* Letters from below a heading, and segments of such under each.
Below(title) == {letter \in Letter : Nearest(letter[1]) = ItemsOf(title)}
Titled(segments) ==
    \A m \in 1 .. Len(segments) :
        segments[m].kind = "text" => segments[m].text \in Seq(Below(Title(segments, m)))

LEMMA TitledAppend ==
    ASSUME NEW segments \in Seq(AnySegment), NEW segment \in AnySegment, NEW title,
           title = Title(segments, Len(segments)), Titled(segments),
           segment.kind = "text" => segment.text \in Seq(Below(title))
    PROVE  /\ Titled(Append(segments, segment))
           /\ Title(Append(segments, segment), Len(Append(segments, segment))) =
                 IF segment.kind = "heading" THEN segment.text ELSE title
<1> DEFINE n == Len(segments)
<1>1. PICK more \in Seq(AnySegment) : more = Append(segments, segment)
  BY AppendProperties
<1>2. /\ n \in Nat /\ Len(more) = n + 1 /\ more[n + 1] = segment
      /\ \A m \in 1 .. n : more[m] = segments[m]
  BY <1>1, AppendProperties
<1>3. \A m \in 0 .. n : Title(more, m) = Title(segments, m)
  BY <1>1, TitleSame
<1>4. Title(more, n + 1) = IF segment.kind = "heading" THEN segment.text ELSE title
  <2>1. n + 1 \in 1 .. Len(more) /\ (n + 1) - 1 = n /\ n \in 0 .. n
    BY <1>2
  <2> HIDE DEF n
  <2>2. Title(more, n + 1) = IF more[n + 1].kind = "heading" THEN more[n + 1].text
                             ELSE Title(more, n)
    BY <2>1, TitleNext
  <2> QED BY <1>2, <1>3, <2>1, <2>2 DEF n
<1>5. ASSUME NEW m \in 1 .. n + 1, more[m].kind = "text"
      PROVE  more[m].text \in Seq(Below(Title(more, m)))
  <2>1. CASE m \in 1 .. n
    <3>1. more[m] = segments[m] /\ Title(more, m) = Title(segments, m)
      BY <1>2, <1>3, <2>1
    <3> QED BY <1>5, <2>1, <3>1 DEF Titled
  <2>2. CASE m = n + 1
    <3>1. segment.kind = "text" /\ segment.kind # "heading"
      BY <1>2, <1>5, <2>2
    <3> QED BY <1>2, <1>4, <2>2, <3>1
  <2>3. m \in 1 .. n \/ m = n + 1
    BY <1>2
  <2> QED BY <2>1, <2>2, <2>3
<1> QED BY <1>1, <1>2, <1>4, <1>5 DEF Titled

\* The text of one item is from it.
LEMMA ItemsOfCharacters ==
    ASSUME NEW i \in Nat \ {0}, NEW size \in Nat \ {0}, NEW ends \in BOOLEAN
    PROVE  /\ ItemsOf(Characters(i, size, ends)) = {i}
           /\ \A title : Nearest(i) = ItemsOf(title) =>
                 Characters(i, size, ends) \in Seq(Below(title))
<1>1. PICK word \in Seq(Letter) : word = Characters(i, size, ends) /\ Len(word) = size
  BY CharactersAreLetters
<1>2. \A k \in 1 .. size : word[k][1] = i
  BY <1>1 DEF Characters
<1>3. DOMAIN word = 1 .. size /\ 1 \in 1 .. size
  BY <1>1
<1>4. ItemsOf(word) = {i}
  BY <1>2, <1>3 DEF ItemsOf
<1>5. ASSUME NEW title, Nearest(i) = ItemsOf(title)
      PROVE  word \in Seq(Below(title))
  <2>1. \A k \in 1 .. size : word[k] \in Below(title)
    BY <1>1, <1>2, <1>5, ElementOfSeq DEF Below
  <2>2. word = [k \in 1 .. size |-> word[k]]
    BY <1>1
  <2> QED BY <2>1, <2>2, IsASeq
<1> QED BY <1>1, <1>4, <1>5

LEMMA ItemsOfConcat ==
    ASSUME NEW text \in Seq(Letter), NEW more \in Seq(Letter)
    PROVE  ItemsOf(text \o more) = ItemsOf(text) \cup ItemsOf(more)
<1> DEFINE a == Len(text)  b == Len(more)
<1>1. /\ a \in Nat /\ b \in Nat /\ DOMAIN text = 1 .. a /\ DOMAIN more = 1 .. b
      /\ DOMAIN (text \o more) = 1 .. a + b
      /\ \A k \in 1 .. a : (text \o more)[k] = text[k]
      /\ \A k \in 1 .. b : (text \o more)[a + k] = more[k]
  OBVIOUS
<1>2. \A k \in 1 .. a + b : k \in 1 .. a \/ \E j \in 1 .. b : k = a + j
  <2>1. ASSUME NEW k \in 1 .. a + b, k \notin 1 .. a
        PROVE  \E j \in 1 .. b : k = a + j
    <3>1. k - a \in 1 .. b /\ k = a + (k - a)
      BY <1>1, <2>1
    <3> QED BY <3>1
  <2> QED BY <2>1
<1>3. (\A k \in 1 .. a : k \in 1 .. a + b) /\ (\A k \in 1 .. b : a + k \in 1 .. a + b)
  BY <1>1
<1>4. PICK both : both = text \o more
  OBVIOUS
<1> HIDE DEF a, b
<1>5. ASSUME NEW x \in ItemsOf(both)
      PROVE  x \in ItemsOf(text) \cup ItemsOf(more)
  <2>1. PICK k \in 1 .. a + b : x = both[k][1]
    BY <1>1, <1>4 DEF ItemsOf
  <2> QED BY <1>1, <1>2, <1>4, <2>1 DEF ItemsOf
<1>6. ASSUME NEW x \in ItemsOf(text)
      PROVE  x \in ItemsOf(both)
  BY <1>1, <1>3, <1>4 DEF ItemsOf
<1>7. ASSUME NEW x \in ItemsOf(more)
      PROVE  x \in ItemsOf(both)
  <2>1. PICK k \in 1 .. b : x = more[k][1]
    BY <1>1 DEF ItemsOf
  <2>2. a + k \in DOMAIN both /\ x = both[a + k][1]
    BY <1>1, <1>3, <1>4, <2>1
  <2> QED BY <2>2 DEF ItemsOf
<1> QED BY <1>4, <1>5, <1>6, <1>7

\* Every segment so far is from below its heading.  Outside headings the last one
\* is the nearest, for what is in the buffer too; in a heading it was, before this
\* one, of which the buffer has what there is.
TitleOf(segments) == Title(segments, Len(segments))
Headed(parser, i) ==
    /\ Titled(parser.segments)
    /\ parser.inHeading =>
          /\ ItemsOf(TitleOf(parser.segments)) = Latest(Earlier(i))
          /\ ItemsOf(parser.buffer) = Current(i)
    /\ ~parser.inHeading =>
          /\ ItemsOf(TitleOf(parser.segments)) = Nearest(i)
          /\ parser.buffer \in Seq(Below(TitleOf(parser.segments)))

LEMMA FlushHeads ==
    ASSUME NEW parser \in Parsings, NEW i, ~parser.inHeading, Headed(parser, i)
    PROVE  /\ Titled(Flush(parser).segments)
           /\ TitleOf(Flush(parser).segments) = TitleOf(parser.segments)
           /\ Flush(parser).buffer = <<>> /\ ~Flush(parser).inHeading
<1>1. parser.buffer \in Seq(Letter) /\ parser.segments \in Seq(AnySegment)
  BY DEF Parsings
<1>2. Flush(parser).buffer = <<>> /\ ~Flush(parser).inHeading
  BY DEF Flush, Parsings
<1>3. CASE parser.buffer # <<>>
  <2>1. PICK segment \in AnySegment : segment = [kind |-> "text", text |-> parser.buffer]
    BY <1>1, <1>3 DEF AnySegment, Words
  <2>2. PICK segments \in Seq(AnySegment) : segments = parser.segments
    BY <1>1
  <2>3. Flush(parser).segments = Append(segments, segment)
    BY <1>3, <2>1, <2>2 DEF Flush, Parsings
  <2>4. segment.text \in Seq(Below(TitleOf(segments))) /\ segment.kind # "heading"
    BY <2>1, <2>2 DEF Headed
  <2>5. /\ Titled(Append(segments, segment))
        /\ TitleOf(Append(segments, segment)) = TitleOf(segments)
    BY <2>2, <2>4, TitledAppend DEF Headed, TitleOf
  <2> QED BY <1>2, <2>2, <2>3, <2>5
<1>4. CASE parser.buffer = <<>>
  <2>1. Flush(parser).segments = parser.segments
    BY <1>4 DEF Flush, Parsings
  <2> QED BY <1>2, <2>1 DEF Headed
<1> QED BY <1>3, <1>4

\* One event of the parser.
LEMMA HandleHeads ==
    ASSUME NEW parser \in Parsings, NEW i \in Nat \ {0}, NEW told \in Seq(Letter),
           Reached(parser, i, told), document.items[i] \in HtmlItem, Headed(parser, i),
           Kind(i) = "/heading" => InHeading(i),
           Kind(i) \in {"heading", "/block"} => ~InHeading(i)
    PROVE  Headed(Handle(parser, i, document.items[i]), i + 1)
<1>1. /\ parser.buffer \in Seq(Letter) /\ parser.segments \in Seq(AnySegment)
      /\ parser.depth \in Nat /\ parser.inHeading \in BOOLEAN
  BY DEF Parsings
<1> DEFINE item == document.items[i]  next == Handle(parser, i, item)
<1>2. (Visible(i) <=> parser.depth = 0) /\ (InHeading(i) <=> parser.inHeading)
  BY WhereParserIs
<1>3. Kind(i) = item.kind
  BY DEF Kind
<1>4. ASSUME ~InTitle(i), Kind(i) # "heading"
      PROVE  /\ Titles(i + 1) = Titles(i) /\ Nearest(i + 1) = Nearest(i)
             /\ Earlier(i + 1) = Earlier(i) /\ Current(i + 1) = Current(i)
  BY <1>4, TitlesNext, NearestIsLatest
<1>5. ASSUME ~InTitle(i), Kind(i) # "heading", next.segments = parser.segments,
             next.inHeading = parser.inHeading, next.buffer = parser.buffer
      PROVE  Headed(next, i + 1)
  <2> HIDE DEF next
  <2> QED BY <1>4, <1>5 DEF Headed
<1>6. CASE item.kind \in {"skip", "/skip"}
  <2>1. /\ next.segments = parser.segments /\ next.inHeading = parser.inHeading
        /\ next.buffer = parser.buffer
    BY <1>6 DEF Handle, Parsings
  <2>2. ~InTitle(i) /\ Kind(i) # "heading"
    BY <1>3, <1>6 DEF InTitle
  <2> QED BY <1>5, <2>1, <2>2
<1>7. CASE item.kind = "data" /\ parser.depth > 0
  <2>1. next = parser
    BY <1>7 DEF Handle
  <2>2. ~InTitle(i) /\ Kind(i) # "heading"
    BY <1>1, <1>2, <1>3, <1>7 DEF InTitle
  <2> QED BY <1>5, <2>1, <2>2
<1>8. CASE item.kind = "data" /\ parser.depth = 0
  <2>1. PICK size \in Nat \ {0} : size = item.size
    BY DEF HtmlItem
  <2>2. PICK more \in Seq(Letter) : more = Characters(i, size, FALSE)
    BY CharactersAreLetters
  <2>3. next = [parser EXCEPT !.buffer = parser.buffer \o more]
    BY <1>8, <2>1, <2>2 DEF Handle
  <2>4. /\ next.inHeading = parser.inHeading /\ next.segments = parser.segments
        /\ next.buffer = parser.buffer \o more
    BY <2>3 DEF Parsings
  <2>5. CASE parser.inHeading
    <3>1. InTitle(i)
      BY <1>2, <1>3, <1>8, <2>5 DEF InTitle
    <3>2. Earlier(i + 1) = Earlier(i) /\ Current(i + 1) = Current(i) \cup {i}
      BY <3>1, TitlesNext
    <3>3. ItemsOf(parser.buffer \o more) = ItemsOf(parser.buffer) \cup {i}
      <4>1. PICK buffer \in Seq(Letter) : buffer = parser.buffer
        BY <1>1
      <4>2. ItemsOf(buffer \o more) = ItemsOf(buffer) \cup ItemsOf(more)
        BY ItemsOfConcat
      <4>3. ItemsOf(more) = {i}
        BY <2>1, <2>2, ItemsOfCharacters
      <4> QED BY <4>1, <4>2, <4>3
    <3> HIDE DEF next, item
    <3> QED BY <2>4, <2>5, <3>2, <3>3 DEF Headed, item, next
  <2>6. CASE ~parser.inHeading
    <3>1. ~InTitle(i) /\ Kind(i) # "heading"
      BY <1>2, <1>3, <1>8, <2>6 DEF InTitle
    <3>2. PICK title : title = TitleOf(parser.segments)
      OBVIOUS
    <3>3. Nearest(i) = ItemsOf(title) /\ parser.buffer \in Seq(Below(title))
      BY <2>6, <3>2 DEF Headed
    <3>4. more \in Seq(Below(title))
      BY <2>1, <2>2, <3>3, ItemsOfCharacters
    <3>5. parser.buffer \o more \in Seq(Below(title))
      BY <3>3, <3>4, ConcatProperties
    <3> HIDE DEF next, item
    <3> QED BY <1>4, <2>4, <2>6, <3>1, <3>2, <3>3, <3>5 DEF Headed, item, next
  <2> QED BY <2>5, <2>6
<1>9. ASSUME ~parser.inHeading
      PROVE  /\ Titled(Flush(parser).segments)
             /\ TitleOf(Flush(parser).segments) = TitleOf(parser.segments)
             /\ Flush(parser).buffer = <<>> /\ ~Flush(parser).inHeading
             /\ ItemsOf(TitleOf(parser.segments)) = Nearest(i)
  BY <1>9, FlushHeads DEF Headed
<1>10. CASE item.kind = "heading"
  <2>1. ~parser.inHeading
    BY <1>2, <1>3, <1>10
  <2>2. PICK flushed \in Parsings : flushed = Flush(parser)
    BY FlushType
  <2>3. next = [flushed EXCEPT !.inHeading = TRUE]
    BY <1>10, <2>2 DEF Handle
  <2>4. next.inHeading = TRUE /\ next.segments = flushed.segments /\ next.buffer = <<>>
    BY <1>9, <2>1, <2>2, <2>3 DEF Parsings
  <2>5. Earlier(i + 1) = Titles(i) /\ Current(i + 1) = {}
    BY <1>3, <1>10, TitlesNext
  <2>6. ItemsOf(<<>>) = {}
    BY DEF ItemsOf
  <2> HIDE DEF next, item
  <2> QED BY <1>9, <2>1, <2>2, <2>4, <2>5, <2>6, NearestIsLatest DEF Headed, item, next
<1>11. CASE item.kind = "/block"
  <2>1. ~parser.inHeading
    BY <1>2, <1>3, <1>11
  <2>2. next = Flush(parser)
    BY <1>11 DEF Handle
  <2>3. ~InTitle(i) /\ Kind(i) # "heading"
    BY <1>3, <1>11 DEF InTitle
  <2>4. \A title : <<>> \in Seq(Below(title))
    OBVIOUS
  <2> HIDE DEF next, item
  <2> QED BY <1>4, <1>9, <2>1, <2>2, <2>3, <2>4 DEF Headed, item, next
<1>12. CASE item.kind = "/heading"
  <2>1. parser.inHeading
    BY <1>2, <1>3, <1>12
  <2>2. ~InTitle(i) /\ Kind(i) # "heading"
    BY <1>3, <1>12 DEF InTitle
  <2>3. next.inHeading = FALSE /\ next.buffer = <<>>
    BY <1>12 DEF Handle, Parsings
  <2>4. PICK title : title = TitleOf(parser.segments)
    OBVIOUS
  <2>5. /\ Titled(parser.segments) /\ ItemsOf(title) = Latest(Earlier(i))
        /\ ItemsOf(parser.buffer) = Current(i)
    BY <2>1, <2>4 DEF Headed
  <2>6. Nearest(i + 1) = Latest(Titles(i))
    BY <1>4, <2>2, NearestIsLatest
  <2>7. \A any : <<>> \in Seq(Below(any))
    OBVIOUS
  <2>8. Titled(next.segments) /\ ItemsOf(TitleOf(next.segments)) = Nearest(i + 1)
    <3>1. CASE parser.buffer = <<>>
      <4>1. next.segments = parser.segments
        BY <1>12, <3>1 DEF Handle, Parsings
      <4>2. Current(i) = {}
        BY <2>5, <3>1 DEF ItemsOf
      <4> HIDE DEF next, item
      <4> QED BY <2>4, <2>5, <2>6, <4>1, <4>2, TitlesApart
    <3>2. CASE parser.buffer # <<>>
      <4>1. PICK segment \in AnySegment : segment = [kind |-> "heading", text |-> parser.buffer]
        BY <1>1, <3>2 DEF AnySegment, Words
      <4>2. PICK segments \in Seq(AnySegment) : segments = parser.segments
        BY <1>1
      <4>3. next.segments = Append(segments, segment)
        BY <1>12, <3>2, <4>1, <4>2 DEF Handle, Parsings
      <4>4. segment.kind = "heading" /\ segment.text = parser.buffer
        BY <4>1
      <4>5. /\ Titled(Append(segments, segment))
            /\ TitleOf(Append(segments, segment)) = parser.buffer
        BY <2>5, <4>2, <4>4, TitledAppend DEF TitleOf
      <4>6. Current(i) # {}
        <5>1. 1 \in DOMAIN parser.buffer
          BY <1>1, <3>2
        <5> QED BY <2>5, <5>1 DEF ItemsOf
      <4> HIDE DEF next, item
      <4> QED BY <2>5, <2>6, <4>3, <4>5, <4>6, TitlesApart
    <3> QED BY <3>1, <3>2
  <2> HIDE DEF next, item
  <2> QED BY <2>3, <2>7, <2>8 DEF Headed, item, next
<1>13. \/ item.kind \in {"skip", "/skip", "heading", "/heading", "/block"}
       \/ item.kind = "data" /\ (parser.depth > 0 \/ parser.depth = 0)
  BY <1>1 DEF HtmlItem
<1> HIDE DEF item
<1> QED BY <1>6, <1>7, <1>8, <1>10, <1>11, <1>12, <1>13

\* Every segment is from below its heading.
LEMMA SegmentsAreTitled ==
    ASSUME document.items \in Seq(HtmlItem), WellFormed
    PROVE  Titled(Segments(document.items))
<1> DEFINE n == Len(document.items)
<1>1. n \in Nat /\ DOMAIN document.items = 1 .. n
  OBVIOUS
<1>2. PICK f \in [0 .. n -> Parsings] :
         /\ f[0] = NothingParsed
         /\ \A k \in 1 .. n :
               f[k - 1] \in Parsings /\ f[k] = Handle(f[k - 1], k, document.items[k])
         /\ Segments(document.items) = Flush(f[n]).segments
  BY ParserSteps
<1> DEFINE headed == {k \in 0 .. n : Headed(f[k], k + 1)
              /\ \E told \in Seq(Letter) : Reached(f[k], k + 1, told)}
<1>3. 0 \in headed
  <2>1. /\ NothingParsed.depth = 0 /\ NothingParsed.inHeading = FALSE
        /\ NothingParsed.segments = <<>> /\ NothingParsed.buffer = <<>>
    BY DEF NothingParsed
  <2>2. Tags(1, "skip") = 0 /\ Tags(1, "/skip") = 0 /\ Tags(1, "heading") = 0 /\ Tags(1, "/heading") = 0
    BY Counted
  <2>3. Spread(Said, <<>>) \o <<>> = <<>> /\ <<>> \in Seq(Letter)
    BY SpreadEmpty
  <2>4. Reached(NothingParsed, 1, <<>>)
    BY <2>1, <2>2, <2>3 DEF Reached
  <2>5. Titles(1) = {} /\ Nearest(1) = {}
    BY NearestIsLatest DEF Titles, Latest
  <2>6. /\ TitleOf(<<>>) = <<>> /\ ItemsOf(<<>>) = {} /\ Titled(<<>>)
        /\ \A title : <<>> \in Seq(Below(title))
    <3>1. Len(<<>>) = 0
      OBVIOUS
    <3> QED BY <3>1, TitleFirst DEF TitleOf, ItemsOf, Titled
  <2>7. Headed(NothingParsed, 1)
    BY <2>1, <2>5, <2>6 DEF Headed
  <2> QED BY <1>1, <1>2, <2>3, <2>4, <2>7
<1>4. ASSUME NEW k \in 1 .. n, k - 1 \in headed
      PROVE  k \in headed
  <2>1. PICK parser \in Parsings : parser = f[k - 1]
    BY <1>2
  <2>2. PICK i \in Nat \ {0} : i = k /\ (k - 1) + 1 = i
    BY <1>1
  <2>3. PICK told \in Seq(Letter) : Reached(parser, i, told) /\ Headed(parser, i)
    BY <1>4, <2>1, <2>2
  <2>4. document.items[i] \in HtmlItem
    BY <1>1, <2>2, ElementOfSeq
  <2>5. /\ Kind(i) = "/skip" => ~Visible(i)
        /\ Kind(i) = "/heading" => InHeading(i)
        /\ Kind(i) \in {"heading", "/block"} => ~InHeading(i)
    BY <1>1, <2>2 DEF WellFormed
  <2>6. Reached(Handle(parser, i, document.items[i]), i + 1, told \o Heard(i))
    BY <2>3, <2>4, <2>5, HandleTells
  <2>7. told \o Heard(i) \in Seq(Letter)
    <3>1. Heard(i) \in Seq(Letter)
      <4>1. PICK size \in Nat \ {0} : size = document.items[i].size
        BY <2>4 DEF HtmlItem
      <4>2. <<>> \in Seq(Letter)
        OBVIOUS
      <4>3. Characters(i, size, FALSE) \in Seq(Letter)
        BY CharactersAreLetters
      <4> QED BY <4>1, <4>2, <4>3 DEF Heard
    <3> QED BY <3>1, ConcatProperties
  <2>8. Headed(Handle(parser, i, document.items[i]), i + 1)
    BY <2>3, <2>4, <2>5, HandleHeads
  <2>9. f[k] = Handle(parser, i, document.items[i]) /\ k \in 0 .. n
    BY <1>1, <1>2, <2>1, <2>2
  <2> HIDE DEF n
  <2> QED BY <2>2, <2>6, <2>7, <2>8, <2>9
<1> HIDE DEF headed
<1>5. \A k \in 0 .. n : k \in headed
  BY <1>1, <1>3, <1>4, BoundedInduction
<1>6. n \in 0 .. n /\ n \in headed /\ n + 1 \in Nat \ {0}
  BY <1>1, <1>5
<1>7. PICK parser \in Parsings : parser = f[n]
  BY <1>2, <1>6
<1>8. PICK told \in Seq(Letter) : Reached(parser, n + 1, told) /\ Headed(parser, n + 1)
  BY <1>6, <1>7 DEF headed
<1>9. ~parser.inHeading
  <2>1. ~InHeading(n + 1)
    BY DEF WellFormed
  <2> HIDE DEF n
  <2> QED BY <1>6, <1>8, <2>1, WhereParserIs
<1> QED BY <1>2, <1>7, <1>8, <1>9, FlushHeads

\* Letters, and spaces between them.
LEMMA JoinOf ==
    ASSUME NEW A, NEW text \in Seq(A \cup {Space}), NEW more \in Seq(A)
    PROVE  Join(text, more) \in Seq(A \cup {Space})
<1>1. more \in Seq(A \cup {Space}) /\ <<Space>> \in Seq(A \cup {Space})
  <2>1. A \subseteq A \cup {Space}
    OBVIOUS
  <2> QED BY <2>1, SeqMonotonic
<1>2. PICK spaced \in Seq(A \cup {Space}) : spaced = text \o <<Space>>
  BY <1>1, ConcatProperties
<1>3. /\ text \o more \in Seq(A \cup {Space})
      /\ spaced \o more \in Seq(A \cup {Space})
  BY <1>1, ConcatProperties
<1> QED BY <1>2, <1>3 DEF Join

LEMMA JoinAllOf ==
    ASSUME NEW A, NEW pieces \in Seq(Words), pieces \in Seq(Seq(A))
    PROVE  JoinAll(pieces) \in Seq(A \cup {Space})
<1> DEFINE n == Len(pieces)
<1>1. pieces \in Seq(Texts) /\ n \in Nat
  BY WordsAreTexts, SeqMonotonic
<1>2. PICK g \in [0 .. n -> Texts \cup {<<>>}] :
         /\ g[0] = <<>>
         /\ \A k \in 1 .. n :
               g[k - 1] \in Texts \cup {<<>>} /\ g[k] = Join(g[k - 1], pieces[k])
         /\ JoinAll(pieces) = g[n]
  BY <1>1, JoinSteps
<1> DEFINE made == {k \in 0 .. n : g[k] \in Seq(A \cup {Space})}
<1>3. 0 \in made
  <2>1. <<>> \in Seq(A \cup {Space})
    OBVIOUS
  <2>2. 0 \in 0 .. n
    BY <1>1
  <2> QED BY <1>2, <2>1, <2>2
<1>4. ASSUME NEW k \in 1 .. n, k - 1 \in made
      PROVE  k \in made
  <2>1. pieces[k] \in Seq(A) /\ g[k - 1] \in Seq(A \cup {Space})
    BY <1>4, ElementOfSeq
  <2>2. Join(g[k - 1], pieces[k]) \in Seq(A \cup {Space})
    BY <2>1, JoinOf
  <2>3. k \in 0 .. n
    BY <1>1
  <2> QED BY <1>2, <2>2, <2>3
<1> HIDE DEF made
<1>5. \A k \in 0 .. n : k \in made
  BY <1>1, <1>3, <1>4, BoundedInduction
<1>6. n \in made
  BY <1>1, <1>5
<1> QED BY <1>2, <1>6 DEF made

LEMMA SlicesOf ==
    ASSUME NEW A, NEW text \in Words, text \in Seq(A), NEW slices, slices = Slices(text),
           NEW i \in 1 .. Len(slices)
    PROVE  slices[i] \in Seq(A)
<1> DEFINE n == Len(text)
           end == IF i * Target < n THEN i * Target ELSE n
           begin == (i - 1) * Target + 1
<1>1. n \in Nat /\ Target \in Nat \ {0, 1}
  BY ChunkingAssumption
<1>2. PICK q \in Nat : q = (n + Target - 1) \div Target
  BY <1>1
<1>3. slices = [j \in 1 .. q |->
          SubSeq(text, (j - 1) * Target + 1, IF j * Target < n THEN j * Target ELSE n)]
  BY <1>2 DEF Slices
<1>4. Len(slices) = q
  BY <1>3
<1>5. i \in 1 .. q /\ slices[i] = SubSeq(text, begin, end)
  BY <1>3, <1>4
<1>6. begin \in Nat \ {0} /\ end \in Nat /\ end <= n
  <2>1. i \in Nat \ {0} /\ i - 1 \in Nat
    BY <1>5
  <2>2. (i - 1) * Target \in Nat /\ i * Target \in Nat
    BY <1>1, <2>1
  <2> HIDE DEF n
  <2> QED BY <1>1, <2>2
<1> HIDE DEF begin, end
<1>7. \A j \in begin .. end : text[j] \in A
  BY <1>6, ElementOfSeq
<1>8. SubSeq(text, begin, end) \in Seq(A)
  BY <1>6, <1>7, SubSeqProperties
<1> QED BY <1>5, <1>8

\* Chunks are from below the headings they carry, and so is what is pending.
Under(chunked) ==
    \A n \in 1 .. Len(chunked) :
        chunked[n].text \in Seq(Below(chunked[n].heading) \cup {Space})
UnderHeadings(state) ==
    Under(state.chunks) /\ state.open \in Seq(Seq(Below(state.heading)))

LEMMA UnderAppend ==
    ASSUME NEW chunked \in Seq(HtmlChunk), NEW chunk \in HtmlChunk, Under(chunked),
           chunk.text \in Seq(Below(chunk.heading) \cup {Space})
    PROVE  Under(Append(chunked, chunk))
<1>1. PICK more \in Seq(HtmlChunk) : more = Append(chunked, chunk)
  BY AppendProperties
<1>2. /\ Len(chunked) \in Nat /\ Len(more) = Len(chunked) + 1
      /\ more[Len(chunked) + 1] = chunk
      /\ \A n \in 1 .. Len(chunked) : more[n] = chunked[n]
  BY <1>1, AppendProperties
<1>3. \A n \in 1 .. Len(chunked) + 1 : n \in 1 .. Len(chunked) \/ n = Len(chunked) + 1
  BY <1>2
<1> QED BY <1>1, <1>2, <1>3 DEF Under

LEMMA UnderConcat ==
    ASSUME NEW chunked \in Seq(HtmlChunk), NEW others \in Seq(HtmlChunk),
           Under(chunked), Under(others)
    PROVE  Under(chunked \o others)
<1>1. PICK both \in Seq(HtmlChunk) : both = chunked \o others
  BY ConcatProperties
<1> DEFINE a == Len(chunked)  b == Len(others)
<1>2. /\ a \in Nat /\ b \in Nat /\ Len(both) = a + b
      /\ \A n \in 1 .. a + b : both[n] = IF n <= a THEN chunked[n] ELSE others[n - a]
  BY <1>1, ConcatProperties
<1>3. ASSUME NEW n \in 1 .. a + b
      PROVE  both[n].text \in Seq(Below(both[n].heading) \cup {Space})
  <2>1. CASE n <= a
    <3>1. n \in 1 .. a
      BY <1>2, <2>1
    <3> QED BY <1>2, <2>1, <3>1 DEF Under
  <2>2. CASE ~(n <= a)
    <3>1. n - a \in 1 .. b
      BY <1>2, <2>2
    <3> QED BY <1>2, <2>2, <3>1 DEF Under
  <2> QED BY <2>1, <2>2
<1> QED BY <1>1, <1>2, <1>3 DEF Under

LEMMA CloseUnder ==
    ASSUME NEW state \in Chunkings, UnderHeadings(state)
    PROVE  Under(Close(state))
<1>1. /\ state.chunks \in Seq(HtmlChunk) /\ state.open \in Seq(Words)
      /\ state.heading \in Seq(Letter)
  BY DEF Chunkings, Pending
<1>2. CASE state.open = <<>>
  BY <1>2 DEF Close, UnderHeadings
<1>3. CASE state.open # <<>>
  <2> DEFINE chunk == [text |-> JoinAll(state.open), heading |-> state.heading]
  <2>1. Close(state) = Append(state.chunks, chunk)
    BY <1>3 DEF Close
  <2>2. chunk \in HtmlChunk
    <3>1. PICK closed \in Seq(HtmlChunk) : closed = Append(state.chunks, chunk)
      BY <2>1, CloseType
    <3>2. Len(state.chunks) + 1 \in 1 .. Len(closed) /\ closed[Len(state.chunks) + 1] = chunk
      BY <1>1, <3>1
    <3> HIDE DEF chunk
    <3> QED BY <3>2, ElementOfSeq
  <2>3. JoinAll(state.open) \in Seq(Below(state.heading) \cup {Space})
    BY <1>1, JoinAllOf DEF UnderHeadings
  <2>4. chunk.text \in Seq(Below(chunk.heading) \cup {Space})
    BY <2>3
  <2> HIDE DEF chunk
  <2> QED BY <1>1, <2>1, <2>2, <2>4, UnderAppend DEF UnderHeadings
<1> QED BY <1>2, <1>3

\* One segment more.
LEMMA AddSegmentUnder ==
    ASSUME NEW state \in Chunkings, NEW segment \in AnySegment, UnderHeadings(state),
           segment.kind = "text" => segment.text \in Seq(Below(state.heading))
    PROVE  /\ UnderHeadings(AddSegment(state, segment))
           /\ AddSegment(state, segment).heading =
                 IF segment.kind = "heading" THEN segment.text ELSE state.heading
<1>1. /\ state.chunks \in Seq(HtmlChunk) /\ state.open \in Seq(Words)
      /\ state.heading \in Seq(Letter) /\ segment.kind \in {"text", "heading"}
  BY DEF Chunkings, Pending, AnySegment
<1>2. PICK text \in Words : text = segment.text
  BY DEF AnySegment
<1>3. PICK closed \in Seq(HtmlChunk) : closed = Close(state) /\ Under(closed)
  BY CloseType, CloseUnder
<1>4. PICK more \in Chunkings : more = AddSegment(state, segment)
  BY AddSegmentType
<1>5. Len(text) \in Nat /\ Target \in Nat /\ Width(state.open) \in Nat
  BY <1>1, WidthOfOneMore, ChunkingAssumption
<1>6. CASE segment.kind = "heading"
  <2>1. more.chunks = closed /\ more.open = <<>> /\ more.heading = text
    BY <1>2, <1>3, <1>4, <1>6 DEF AddSegment, AddHeading
  <2>2. <<>> \in Seq(Seq(Below(text)))
    OBVIOUS
  <2> QED BY <1>2, <1>3, <1>4, <1>6, <2>1, <2>2 DEF UnderHeadings
<1>7. CASE segment.kind = "text"
  <2>1. text \in Seq(Below(state.heading)) /\ segment.kind # "heading"
    BY <1>2, <1>7
  <2>2. CASE Len(text) > Target
    <3>1. /\ more.chunks = closed \o Pieces(text, state.heading) /\ more.open = <<>>
          /\ more.heading = state.heading
      BY <1>2, <1>3, <1>4, <1>5, <2>1, <2>2 DEF AddSegment, AddPiece, Chunkings
    <3>2. PICK pieces \in Seq(HtmlChunk) : pieces = Pieces(text, state.heading)
      BY <1>1, PiecesType
    <3>3. PICK slices : slices = Slices(text)
      OBVIOUS
    <3>4. /\ Len(pieces) = Len(slices)
          /\ \A n \in 1 .. Len(slices) :
                pieces[n].text = slices[n] /\ pieces[n].heading = state.heading
      <4>1. PICK known \in Seq(Slicings) : known = slices
        BY <3>3, WordsAreTexts, SlicesType
      <4>2. pieces = [n \in 1 .. Len(known) |-> [text |-> known[n], heading |-> state.heading]]
        BY <3>2, <3>3, <4>1 DEF Pieces
      <4> QED BY <4>1, <4>2
    <3>5. Under(pieces)
      <4>1. ASSUME NEW n \in 1 .. Len(pieces)
            PROVE  pieces[n].text \in Seq(Below(pieces[n].heading) \cup {Space})
        <5>1. slices[n] \in Seq(Below(state.heading))
          BY <2>1, <3>3, <3>4, SlicesOf
        <5>2. Below(state.heading) \subseteq Below(state.heading) \cup {Space}
          OBVIOUS
        <5>3. slices[n] \in Seq(Below(state.heading) \cup {Space})
          BY <5>1, <5>2, SeqMonotonic
        <5> QED BY <3>4, <5>3
      <4> QED BY <4>1 DEF Under
    <3>6. Under(closed \o pieces)
      BY <1>3, <3>5, UnderConcat
    <3>7. <<>> \in Seq(Seq(Below(state.heading)))
      OBVIOUS
    <3> QED BY <1>4, <2>1, <3>1, <3>2, <3>6, <3>7 DEF UnderHeadings
  <2>3. CASE Len(text) <= Target /\ Width(state.open) + Len(text) > Target
    <3>1. more.chunks = closed /\ more.open = <<text>> /\ more.heading = state.heading
      BY <1>2, <1>3, <1>4, <1>5, <2>1, <2>3 DEF AddSegment, AddPiece, Chunkings
    <3>2. <<text>> \in Seq(Seq(Below(state.heading)))
      BY <2>1
    <3> QED BY <1>3, <1>4, <2>1, <3>1, <3>2 DEF UnderHeadings
  <2>4. CASE Len(text) <= Target /\ ~(Width(state.open) + Len(text) > Target)
    <3>1. /\ more.chunks = state.chunks /\ more.open = Append(state.open, text)
          /\ more.heading = state.heading
      BY <1>1, <1>2, <1>4, <1>5, <2>1, <2>4 DEF AddSegment, AddPiece, Chunkings
    <3>2. Append(state.open, text) \in Seq(Seq(Below(state.heading)))
      <4>1. state.open \in Seq(Seq(Below(state.heading)))
        BY DEF UnderHeadings
      <4> QED BY <2>1, <4>1, AppendProperties
    <3> QED BY <1>4, <2>1, <3>1, <3>2 DEF UnderHeadings
  <2> QED BY <1>5, <2>2, <2>3, <2>4
<1> QED BY <1>1, <1>6, <1>7

\* The chunks of an article.
LEMMA HtmlUnder ==
    ASSUME NEW items \in Seq(HtmlItem), Titled(Segments(items))
    PROVE  Under(ChunkHtml(items))
<1> DEFINE n == Len(Segments(items))
<1>1. PICK segments \in Seq(AnySegment) : segments = Segments(items)
  BY SegmentsType
<1>2. PICK f \in [0 .. n -> Chunkings] :
         /\ f[0] = NothingChunked
         /\ \A k \in 1 .. n : f[k - 1] \in Chunkings /\ f[k] = AddSegment(f[k - 1], segments[k])
         /\ ChunkHtml(items) = Close(f[n])
  BY <1>1, HtmlSteps
<1>3. n = Len(segments) /\ n \in Nat
  BY <1>1
<1> HIDE DEF n
<1> DEFINE under == {k \in 0 .. n : UnderHeadings(f[k]) /\ f[k].heading = Title(segments, k)}
<1>4. 0 \in under
  <2>1. Under(<<>>) /\ <<>> \in Seq(Seq(Below(<<>>)))
    BY DEF Under
  <2>2. UnderHeadings(NothingChunked) /\ NothingChunked.heading = <<>>
    BY <2>1 DEF UnderHeadings, NothingChunked
  <2> QED BY <1>2, <1>3, <2>2, TitleFirst
<1>5. ASSUME NEW k \in 1 .. n, k - 1 \in under
      PROVE  k \in under
  <2>1. PICK state \in Chunkings, segment \in AnySegment :
           state = f[k - 1] /\ segment = segments[k]
    BY <1>2, <1>3, ElementOfSeq
  <2>2. UnderHeadings(state) /\ state.heading = Title(segments, k - 1)
    BY <1>5, <2>1
  <2>3. Title(segments, k) = IF segment.kind = "heading" THEN segment.text ELSE state.heading
    BY <1>3, <2>1, <2>2, TitleNext
  <2>4. segment.kind = "text" => segment.text \in Seq(Below(state.heading))
    <3>1. segment.kind = "text" => segment.kind # "heading"
      OBVIOUS
    <3>2. segment.kind = "text" => segment.text \in Seq(Below(Title(segments, k)))
      BY <1>1, <1>3, <2>1 DEF Titled
    <3> QED BY <2>3, <3>1, <3>2
  <2>5. /\ UnderHeadings(AddSegment(state, segment))
        /\ AddSegment(state, segment).heading =
              IF segment.kind = "heading" THEN segment.text ELSE state.heading
    BY <2>2, <2>4, AddSegmentUnder
  <2>6. k \in 0 .. n /\ f[k] = AddSegment(state, segment)
    BY <1>2, <1>3, <2>1
  <2> QED BY <2>3, <2>5, <2>6
<1> HIDE DEF under
<1>6. \A k \in 0 .. n : k \in under
  BY <1>3, <1>4, <1>5, BoundedInduction
<1>7. n \in under /\ n \in 0 .. n
  BY <1>3, <1>6
<1>8. PICK state \in Chunkings : state = f[n]
  BY <1>2, <1>7
<1> QED BY <1>2, <1>7, <1>8, CloseUnder DEF under

\* Every character of a chunk of HTML is from below the heading that the chunk
\* carries.
THEOREM HeadingsAreNearest == ChunkSpec => []HeadingIsNearest
<1>1. ASSUME ChunkInv PROVE HeadingIsNearest
  <2>1. CASE document = NoDocument
    BY <2>1 DEF HeadingIsNearest, IsFor, NoDocument
  <2>2. CASE /\ document.chunker \in DOMAIN ItemKinds
             /\ document.items \in Seq(Items(document.chunker))
             /\ chunks = ChunksOf(document.chunker, document.items)
    <3>1. SUFFICES ASSUME IsFor("html"), WellFormed
                   PROVE  \A n \in DOMAIN chunks : \A k \in DOMAIN chunks[n].text :
                             chunks[n].text[k] # Space =>
                                Nearest(chunks[n].text[k][1]) = ItemsOf(chunks[n].heading)
      BY DEF HeadingIsNearest, ItemsOf
    <3>2. document.chunker = "html"
      BY <3>1 DEF IsFor
    <3>3. document.items \in Seq(HtmlItem) /\ chunks = ChunkHtml(document.items)
      BY <2>2, <3>2, ItemsType, SeqMonotonic DEF ChunksOf
    <3>4. Under(chunks) /\ chunks \in Seq(HtmlChunk)
      BY <3>1, <3>3, SegmentsAreTitled, HtmlUnder, HtmlFits
    <3>5. ASSUME NEW n \in DOMAIN chunks, NEW k \in DOMAIN chunks[n].text,
                 chunks[n].text[k] # Space
          PROVE  Nearest(chunks[n].text[k][1]) = ItemsOf(chunks[n].heading)
      <4>1. PICK text \in Seq(Below(chunks[n].heading) \cup {Space}) : text = chunks[n].text
        BY <3>4 DEF Under
      <4>2. text[k] \in Below(chunks[n].heading)
        BY <3>5, <4>1, ElementOfSeq
      <4> QED BY <4>1, <4>2 DEF Below
    <3> QED BY <3>5
  <2> QED BY <1>1, <2>1, <2>2 DEF ChunkInv
<1> QED BY <1>1, ChunkInvariant, PTL

(***************************************************************************)
(* Where the headings of a handbook are in the texts made of it.           *)
(***************************************************************************)

\* Letters of which none of heads stands after place `most`, and texts of such letters.
Early(heads, most) ==
    {letters \in Seq(Letter) : \A k \in 1 .. Len(letters) : letters[k] \in heads => k <= most}
EarlyTexts(heads, most) == {text \in Seq(Char) : Letters(text) \in Early(heads, most)}

LEMMA EarlyUpTo ==
    ASSUME NEW heads, NEW least \in Int, NEW most \in Int, least <= most
    PROVE  /\ Early(heads, least) \subseteq Early(heads, most)
           /\ EarlyTexts(heads, least) \subseteq EarlyTexts(heads, most)
<1>1. ASSUME NEW text \in Early(heads, least)
      PROVE  text \in Early(heads, most)
  <2>1. /\ text \in Seq(Letter) /\ Len(text) \in Nat
        /\ \A k \in 1 .. Len(text) : text[k] \in heads => k <= least
    BY DEF Early
  <2>2. \A k \in 1 .. Len(text) : text[k] \in heads => k <= most
    BY <2>1
  <2> QED BY <2>1, <2>2 DEF Early
<1> QED BY <1>1 DEF EarlyTexts

\* What is appended to letters has its place after it.
LEMMA EarlyConcat ==
    ASSUME NEW heads, NEW most \in Int,
           NEW text \in Seq(Letter), NEW more \in Seq(Letter)
    PROVE  /\ text \o more \in Early(heads, most) =>
                 text \in Early(heads, most) /\ more \in Early(heads, most - Len(text))
           /\ text \in Early(heads, most) /\ more \in Early(heads, most - Len(text)) =>
                 text \o more \in Early(heads, most)
<1>1. /\ text \o more \in Seq(Letter)
      /\ Len(text) \in Nat /\ Len(more) \in Nat
      /\ Len(text \o more) = Len(text) + Len(more)
      /\ \A k \in 1 .. Len(text) : (text \o more)[k] = text[k]
      /\ \A k \in 1 .. Len(more) : (text \o more)[Len(text) + k] = more[k]
  BY ConcatProperties
<1>2. ASSUME text \o more \in Early(heads, most)
      PROVE  text \in Early(heads, most) /\ more \in Early(heads, most - Len(text))
  <2>1. \A k \in 1 .. Len(text) + Len(more) : (text \o more)[k] \in heads => k <= most
    BY <1>1, <1>2 DEF Early
  <2>2. ASSUME NEW k \in 1 .. Len(text), text[k] \in heads
        PROVE  k <= most
    <3>1. k \in 1 .. Len(text) + Len(more)
      BY <1>1
    <3> QED BY <1>1, <2>1, <2>2, <3>1
  <2>3. ASSUME NEW k \in 1 .. Len(more), more[k] \in heads
        PROVE  k <= most - Len(text)
    <3>1. PICK h \in 1 .. Len(text) + Len(more) : h = Len(text) + k
      BY <1>1
    <3>2. (text \o more)[h] \in heads
      BY <1>1, <2>3, <3>1
    <3>3. h <= most
      BY <2>1, <3>2
    <3> QED BY <1>1, <3>1, <3>3
  <2> QED BY <1>1, <2>2, <2>3 DEF Early
<1>3. ASSUME text \in Early(heads, most), more \in Early(heads, most - Len(text))
      PROVE  text \o more \in Early(heads, most)
  <2>1. /\ \A k \in 1 .. Len(text) : text[k] \in heads => k <= most
        /\ \A k \in 1 .. Len(more) : more[k] \in heads => k <= most - Len(text)
    BY <1>3 DEF Early
  <2>2. ASSUME NEW k \in 1 .. Len(text) + Len(more), (text \o more)[k] \in heads
        PROVE  k <= most
    <3>1. CASE k <= Len(text)
      <4>1. k \in 1 .. Len(text)
        BY <1>1, <3>1
      <4> QED BY <1>1, <2>1, <2>2, <4>1
    <3>2. CASE ~(k <= Len(text))
      <4>1. PICK h \in 1 .. Len(more) : k = Len(text) + h
        <5>1. k - Len(text) \in 1 .. Len(more) /\ k = Len(text) + (k - Len(text))
          BY <1>1, <3>2
        <5> QED BY <5>1
      <4>2. more[h] \in heads
        BY <1>1, <2>2, <4>1
      <4>3. h <= most - Len(text)
        BY <2>1, <4>2
      <4> QED BY <1>1, <4>1, <4>3
    <3> QED BY <3>1, <3>2
  <2> QED BY <1>1, <2>2 DEF Early
<1> QED BY <1>2, <1>3

\* Of texts whose letters are early together, each one's are.
LEMMA EarlyOneByOne ==
    ASSUME NEW heads, NEW most \in Int,
           NEW texts \in Seq(Seq(Char)), Spelled(texts) \in Early(heads, most)
    PROVE  texts \in Seq(EarlyTexts(heads, most))
<1> DEFINE E == EarlyTexts(heads, most)
           Q == {s \in Seq(Seq(Char)) : Spelled(s) \in Early(heads, most) => s \in Seq(E)}
<1>1. <<>> \in Q
  <2>1. <<>> \in Seq(Seq(Char)) /\ <<>> \in Seq(E)
    OBVIOUS
  <2> QED BY <2>1
<1>2. ASSUME NEW s \in Seq(Seq(Char)), NEW text \in Seq(Char), s \in Q
      PROVE  Append(s, text) \in Q
  <2>1. Append(s, text) \in Seq(Seq(Char))
    BY AppendProperties
  <2>2. ASSUME Spelled(Append(s, text)) \in Early(heads, most)
        PROVE  Append(s, text) \in Seq(E)
    <3>1. PICK before \in Seq(Letter), letters \in Seq(Letter) :
             before = Spelled(s) /\ letters = Letters(text)
      BY SpelledType, LettersType
    <3>2. before \o letters \in Early(heads, most)
      BY <2>2, <3>1, SpelledAppend
    <3>3. before \in Early(heads, most) /\ letters \in Early(heads, most - Len(before))
      BY <3>2, EarlyConcat
    <3>4. letters \in Early(heads, most)
      <4>1. most - Len(before) \in Int /\ most - Len(before) <= most
        OBVIOUS
      <4> QED BY <3>3, <4>1, EarlyUpTo
    <3>5. s \in Seq(E) /\ text \in E
      BY <1>2, <3>1, <3>3, <3>4 DEF EarlyTexts
    <3> HIDE DEF E
    <3> QED BY <3>5, AppendProperties
  <2> QED BY <2>1, <2>2
<1> HIDE DEF Q
<1>3. \A s \in Seq(Seq(Char)) : s \in Q
  BY <1>1, <1>2, SequenceInduction
<1> QED BY <1>3 DEF Q

\* A text has no more letters than characters.
LEMMA FewerLetters ==
    ASSUME NEW text \in Seq(Char)
    PROVE  Len(Letters(text)) \in Nat /\ Len(Letters(text)) <= Len(text)
<1> DEFINE Q == {s \in Seq(Char) : Len(Letters(s)) <= Len(s)}
<1>1. <<>> \in Q
  BY LettersOfNothing
<1>2. ASSUME NEW s \in Seq(Char), NEW c \in Char, s \in Q
      PROVE  Append(s, c) \in Q
  <2>1. Append(s, c) \in Seq(Char) /\ Len(Append(s, c)) = Len(s) + 1
    BY AppendProperties
  <2>2. PICK letters \in Seq(Letter), more \in Seq(Letter) :
           letters = Letters(s) /\ more = Spell[c]
    BY LettersType, SpellSpreads DEF Spreads
  <2>3. Len(more) <= 1
    <3>1. Spell[c] = <<>> \/ Spell[c] = <<c>>
      BY DEF Spell
    <3>2. Len(<<>>) <= 1 /\ Len(<<c>>) <= 1
      OBVIOUS
    <3> QED BY <2>2, <3>1, <3>2
  <2>4. Letters(Append(s, c)) = letters \o more
    <3>1. Spread(Spell, Append(s, c)) = Spread(Spell, s) \o Spell[c]
      BY SpellSpreads, SpreadAppend
    <3> QED BY <2>1, <2>2, <3>1, LettersAreSpelled
  <2>5. Len(letters \o more) = Len(letters) + Len(more) /\ Len(letters) <= Len(s)
    BY <1>2, <2>2
  <2>6. Len(letters) \in Nat /\ Len(more) \in Nat /\ Len(s) \in Nat
    OBVIOUS
  <2> QED BY <2>1, <2>3, <2>4, <2>5, <2>6
<1> HIDE DEF Q
<1>3. \A s \in Seq(Char) : s \in Q
  BY <1>1, <1>2, SequenceInduction
<1>4. Letters(text) \in Seq(Letter)
  BY LettersType
<1> QED BY <1>3, <1>4 DEF Q

\* Of a sequence that is cut, what can stand in a part but at its beginning.
Inner(s, positions) == {s[j] : j \in 1 .. Len(s) \ positions}

LEMMA CutInside ==
    ASSUME NEW S, NEW s \in Seq(S), NEW positions
    PROVE  LET parts == Cut(s, positions) IN
           \A n \in 1 .. Len(parts) : \A m \in 2 .. Len(parts[n]) :
              parts[n][m] \in Inner(s, positions)
<1> DEFINE N == Len(s)
           In(part) == \A m \in 2 .. Len(part) : part[m] \in Inner(s, positions)
           Cuts(parts) == \A n \in 1 .. Len(parts) : In(parts[n])
<1>1. N \in Nat
  OBVIOUS
<1>2. PICK f \in [0 .. N -> Parts(S)] :
         /\ f[0] = <<>>
         /\ \A k \in 1 .. N :
               f[k - 1] \in Parts(S) /\ f[k] = AddTo(f[k - 1], s[k], k \in positions)
         /\ Cut(s, positions) = f[N]
  BY CutSteps
<1> DEFINE cut == {k \in 0 .. N : Cuts(f[k])}
<1>3. 0 \in cut
  <2>1. Len(f[0]) = 0
    BY <1>2
  <2> QED BY <1>1, <1>2, <2>1
<1>4. ASSUME NEW k \in 1 .. N, k - 1 \in cut
      PROVE  k \in cut
  <2>1. PICK old \in Parts(S), new \in Parts(S) :
           old = f[k - 1] /\ new = f[k] /\ new = AddTo(old, s[k], k \in positions)
    <3>1. f[k] \in Parts(S)
      <4>1. k \in 0 .. N
        BY <1>1
      <4> QED BY <4>1
    <3> QED BY <1>2, <3>1
  <2>2. Cuts(old)
    BY <1>4, <2>1
  <2> DEFINE m == Len(old)
  <2>3. m \in Nat /\ old \in Seq(Seq(S) \ {<<>>}) /\ s[k] \in S
    BY DEF Parts
  <2>4. SUFFICES Cuts(new)
    <3>1. k \in 0 .. N
      BY <1>1
    <3> HIDE DEF Cuts, N
    <3> QED BY <2>1, <3>1
  <2>5. CASE old = <<>> \/ k \in positions
    <3>1. new = Append(old, <<s[k]>>)
      BY <2>1, <2>5 DEF AddTo
    <3>2. /\ Len(new) = m + 1 /\ new[m + 1] = <<s[k]>>
          /\ \A n \in 1 .. m : new[n] = old[n]
      <4>1. <<s[k]>> \in Seq(S) \ {<<>>}
        BY <2>3
      <4> QED BY <2>3, <3>1, <4>1, AppendProperties
    <3>3. In(<<s[k]>>)
      OBVIOUS
    <3>4. \A n \in 1 .. m : In(old[n])
      BY <2>2
    <3>5. PICK part : part = <<s[k]>>
      OBVIOUS
    <3> HIDE DEF In
    <3>6. In(part) /\ new[m + 1] = part
      BY <3>2, <3>3, <3>5
    <3> HIDE DEF m
    <3>7. ASSUME NEW n \in 1 .. m + 1
          PROVE  In(new[n])
      <4>1. n = m + 1 \/ n \in 1 .. m
        BY <2>3
      <4> QED BY <3>2, <3>4, <3>6, <4>1
    <3> QED BY <3>2, <3>7
  <2>6. CASE ~(old = <<>> \/ k \in positions)
    <3>1. new = [old EXCEPT ![m] = Append(old[m], s[k])]
      BY <2>1, <2>6 DEF AddTo
    <3>2. PICK last \in Seq(S) : last = old[m] /\ m \in 1 .. m
      BY <2>3, <2>6
    <3>3. /\ Len(new) = m /\ new[m] = Append(last, s[k])
          /\ \A n \in 1 .. m : n # m => new[n] = old[n]
      BY <2>3, <3>1, <3>2
    <3>4. PICK longer \in Seq(S) :
             /\ longer = Append(last, s[k])
             /\ Len(longer) = Len(last) + 1 /\ longer[Len(last) + 1] = s[k]
             /\ \A i \in 1 .. Len(last) : longer[i] = last[i]
      <4>1. PICK letter \in S : letter = s[k]
        BY <2>3
      <4>2. Append(last, letter) \in Seq(S)
        OBVIOUS
      <4> QED BY <4>1, <4>2, AppendProperties
    <3>5. In(longer)
      <4>1. s[k] \in Inner(s, positions)
        BY <2>6 DEF Inner
      <4>2. In(last)
        BY <2>2, <3>2
      <4>3. ASSUME NEW i \in 2 .. Len(longer)
            PROVE  longer[i] \in Inner(s, positions)
        <5>1. CASE i = Len(last) + 1
          BY <3>4, <4>1, <5>1
        <5>2. CASE i # Len(last) + 1
          <6>1. i \in 2 .. Len(last) /\ i \in 1 .. Len(last)
            BY <3>4, <5>2
          <6> QED BY <3>4, <4>2, <6>1
        <5> QED BY <5>1, <5>2
      <4> QED BY <4>3
    <3>6. \A n \in 1 .. Len(new) : In(new[n])
      <4>1. \A n \in 1 .. m : In(old[n])
        BY <2>2
      <4> HIDE DEF In
      <4> QED BY <3>3, <3>4, <3>5, <4>1
    <3> QED BY <3>6
  <2> QED BY <2>5, <2>6
<1> HIDE DEF cut
<1>5. \A k \in 0 .. N : k \in cut
  BY <1>1, <1>3, <1>4, BoundedInduction
<1>6. N \in cut
  BY <1>1, <1>5
<1>7. Cuts(f[N])
  BY <1>6 DEF cut
<1> QED BY <1>2, <1>7

\* The headings of a handbook, as they begin in its texts.
Headings == {letter \in Letter : letter[2] = 1 /\ Kind(letter[1]) = "heading"}

\* An item that is no heading has none, and one that is begins with it.
LEMMA HeadingsOfItem ==
    ASSUME document.items \in Seq(AnyItem), NEW i \in 1 .. Len(document.items)
    PROVE  /\ Typed(document.items)[i] \in Early(Headings, 1)
           /\ Kind(i) # "heading" =>
                 \A most \in Int : Typed(document.items)[i] \in Early(Headings, most)
<1>1. document.items[i] \in AnyItem /\ i \in Nat \ {0}
  BY ElementOfSeq
<1>2. PICK ends \in BOOLEAN : ends = EndsSentence(document.items[i])
  BY DEF EndsSentence
<1>3. PICK size \in Nat \ {0} : size = document.items[i].size
  BY <1>1 DEF AnyItem
<1>4. PICK text \in Seq(Letter) : text = Characters(i, size, ends) /\ Len(text) = size
  BY <1>1, CharactersAreLetters
<1>5. ASSUME NEW k \in 1 .. size
      PROVE  text[k] \in Headings => k = 1 /\ Kind(i) = "heading"
  <2>1. text[k] = <<i, k, ends /\ k = size>>
    BY <1>4 DEF Characters
  <2>2. text[k][1] = i /\ text[k][2] = k
    BY <2>1
  <2> QED BY <2>2 DEF Headings
<1>6. /\ text \in Early(Headings, 1)
      /\ Kind(i) # "heading" => \A most \in Int : text \in Early(Headings, most)
  BY <1>4, <1>5 DEF Early
<1>7. Typed(document.items)[i] = text
  BY <1>2, <1>3, <1>4 DEF Typed
<1> QED BY <1>6, <1>7

\* What items spell of which only the first may be a heading.
LEMMA EarlyItems ==
    ASSUME document.items \in Seq(AnyItem),
           NEW part \in Seq(1 .. Len(document.items)),
           \A m \in 2 .. Len(part) : Kind(part[m]) # "heading"
    PROVE  Spread(Typed(document.items), part) \in Early(Headings, 1)
<1> DEFINE S == 1 .. Len(document.items)  typed == Typed(document.items)
           Leads(p) == \A m \in 2 .. Len(p) : Kind(p[m]) # "heading"
           Q == {p \in Seq(S) : Leads(p) => Spread(typed, p) \in Early(Headings, 1)}
<1>1. Spreads(typed, S, Letter)
  BY TypedSpreads
<1>2. <<>> \in Q
  <2>1. <<>> \in Seq(S) /\ Spread(typed, <<>>) = <<>>
    BY SpreadEmpty
  <2>2. <<>> \in Early(Headings, 1)
    BY DEF Early
  <2> QED BY <2>1, <2>2
<1>3. ASSUME NEW p \in Seq(S), NEW i \in S, p \in Q
      PROVE  Append(p, i) \in Q
  <2>1. /\ Append(p, i) \in Seq(S) /\ Len(Append(p, i)) = Len(p) + 1 /\ Len(p) \in Nat
        /\ Append(p, i)[Len(p) + 1] = i
        /\ \A m \in 1 .. Len(p) : Append(p, i)[m] = p[m]
    BY AppendProperties
  <2>2. ASSUME Leads(Append(p, i))
        PROVE  Spread(typed, Append(p, i)) \in Early(Headings, 1)
    <3>1. Leads(p)
      <4>1. \A m \in 2 .. Len(p) : m \in 2 .. Len(p) + 1 /\ m \in 1 .. Len(p)
        BY <2>1
      <4> QED BY <2>1, <2>2, <4>1
    <3>2. Len(p) # 0 => Kind(i) # "heading"
      <4>1. Len(p) # 0 => Len(p) + 1 \in 2 .. Len(p) + 1
        BY <2>1
      <4> QED BY <2>1, <2>2, <4>1
    <3>3. PICK before \in Seq(Letter), letters \in Seq(Letter) :
             before = Spread(typed, p) /\ letters = typed[i]
      <4> HIDE DEF S, typed
      <4>1. typed[i] \in Seq(Letter)
        BY <1>1 DEF Spreads
      <4> QED BY <1>1, <4>1, SpreadType
    <3>4. before \in Early(Headings, 1)
      BY <1>3, <3>1, <3>3
    <3>5. letters \in Early(Headings, 1 - Len(before))
      <4>1. CASE Len(p) = 0
        <5>1. p = <<>>
          BY <4>1
        <5>2. Len(before) = 0
          BY <3>3, <5>1, SpreadEmpty
        <5>3. letters \in Early(Headings, 1)
          BY <3>3, HeadingsOfItem
        <5> QED BY <5>2, <5>3
      <4>2. CASE Len(p) # 0
        <5>1. 1 - Len(before) \in Int
          OBVIOUS
        <5> QED BY <3>2, <3>3, <4>2, <5>1, HeadingsOfItem
      <4> QED BY <4>1, <4>2
    <3>6. before \o letters \in Early(Headings, 1)
      BY <3>4, <3>5, EarlyConcat
    <3>7. Spread(typed, Append(p, i)) = before \o letters
      <4> HIDE DEF S, typed
      <4> QED BY <1>1, <3>3, SpreadAppend
    <3> QED BY <3>6, <3>7
  <2> HIDE DEF Leads
  <2> QED BY <2>1, <2>2
<1> HIDE DEF Q
<1>4. \A p \in Seq(S) : p \in Q
  <2> HIDE DEF S
  <2> QED BY <1>2, <1>3, SequenceInduction
<1> QED BY <1>4 DEF Q

\* In a passage of such items a heading stands at the beginning.
LEMMA EarlyPassage ==
    ASSUME document.items \in Seq(AnyItem),
           NEW part \in Seq(1 .. Len(document.items)), part # <<>>,
           \A m \in 2 .. Len(part) : Kind(part[m]) # "heading"
    PROVE  Passage(document.items, part) \in EarlyTexts(Headings, 1)
<1>1. Passage(document.items, part) \in Seq(Char)
  BY PassageIsText, TextsAreSeqs
<1> QED BY <1>1, PassageSpells, EarlyItems DEF EarlyTexts

\* A short section before another moves its heading by less letters than a section
\* must have characters.
LEMMA EarlyFold ==
    ASSUME NEW heads,
           NEW sections \in Seq(Texts),
           \A k \in 1 .. Len(sections) : sections[k] \in EarlyTexts(heads, 1)
    PROVE  Fold(sections) \in Seq(EarlyTexts(heads, MinSection))
<1> DEFINE n == Len(sections)  E == EarlyTexts(heads, MinSection)
<1>1. n \in Nat /\ MinSection \in Nat \ {0}
  BY ChunkingAssumption
<1>2. PICK f \in [0 .. n -> Seq(Texts)] :
         /\ f[0] = <<>>
         /\ \A k \in 1 .. n : f[k - 1] \in Seq(Texts) /\ f[k] = FoldIn(f[k - 1], sections[k])
         /\ Fold(sections) = f[n]
  BY FoldSteps
<1> DEFINE early == {k \in 0 .. n : f[k] \in Seq(E)}
<1>3. 0 \in early
  <2>1. 0 \in 0 .. n /\ <<>> \in Seq(E)
    BY <1>1
  <2> QED BY <1>2, <2>1
<1>4. ASSUME NEW k \in 1 .. n, k - 1 \in early
      PROVE  k \in early
  <2>1. PICK merged \in Seq(Texts) : merged = f[k - 1] /\ merged \in Seq(E)
    BY <1>2, <1>4
  <2>2. PICK body \in Texts : body = sections[k] /\ body \in EarlyTexts(heads, 1)
    BY ElementOfSeq
  <2> DEFINE m == Len(merged)
  <2>3. FoldIn(merged, body) \in Seq(E)
    <3>1. CASE merged # <<>> /\ Len(merged[m]) < MinSection
      <4>1. FoldIn(merged, body) = [merged EXCEPT ![m] = Join(merged[m], body)]
        BY <3>1 DEF FoldIn
      <4>2. PICK last \in Texts : last = merged[m] /\ last \in E
        BY <2>1, <3>1
      <4>3. last \in Seq(Char) /\ body \in Seq(Char) /\ Len(last) < MinSection
        BY <3>1, <4>2, TextsAreSeqs
      <4>4. PICK before \in Seq(Letter), letters \in Seq(Letter) :
               before = Letters(last) /\ letters = Letters(body)
        BY <4>3, LettersType
      <4>5. PICK joined \in E : joined = Join(last, body)
        <5>1. PICK most \in Int : most = MinSection
          BY <1>1
        <5>2. Len(before) \in Nat /\ Len(before) < MinSection
          <6>1. Len(before) \in Nat /\ Len(before) <= Len(last) /\ Len(last) \in Nat
            BY <4>3, <4>4, FewerLetters
          <6> QED BY <1>1, <4>3, <6>1
        <5>3. 1 <= most - Len(before) /\ most - Len(before) \in Int
          BY <1>1, <5>1, <5>2
        <5>4. letters \in Early(heads, 1)
          BY <2>2, <4>4 DEF EarlyTexts
        <5>5. letters \in Early(heads, most - Len(before))
          BY <5>3, <5>4, EarlyUpTo
        <5>6. before \in Early(heads, most)
          BY <4>2, <4>4, <5>1 DEF EarlyTexts
        <5>7. before \o letters \in Early(heads, most)
          BY <5>5, <5>6, EarlyConcat
        <5>8. Join(last, body) \in Seq(Char) /\ Letters(Join(last, body)) = before \o letters
          BY <4>3, <4>4, LettersOfJoin
        <5> QED BY <5>1, <5>7, <5>8 DEF EarlyTexts
      <4> HIDE DEF E
      <4>6. FoldIn(merged, body) = [merged EXCEPT ![m] = joined]
        BY <4>1, <4>2, <4>5
      <4>7. merged \in Seq(E) /\ m \in Nat
        BY <2>1
      <4>8. [i \in 1 .. m |-> IF i = m THEN joined ELSE merged[i]] \in Seq(E)
        <5>1. \A i \in 1 .. m : (IF i = m THEN joined ELSE merged[i]) \in E
          BY <4>5, <4>7, ElementOfSeq
        <5> QED BY <4>7, <5>1, IsASeq
      <4>9. [merged EXCEPT ![m] = joined] = [i \in 1 .. m |-> IF i = m THEN joined ELSE merged[i]]
        BY <4>7
      <4> QED BY <4>6, <4>8, <4>9
    <3>2. CASE ~(merged # <<>> /\ Len(merged[m]) < MinSection)
      <4>1. FoldIn(merged, body) = Append(merged, body)
        BY <3>2 DEF FoldIn
      <4>2. body \in E
        <5>1. PICK most \in Int : most = MinSection
          BY <1>1
        <5>2. EarlyTexts(heads, 1) \subseteq EarlyTexts(heads, most)
          <6>1. 1 <= most
            BY <1>1, <5>1
          <6> QED BY <6>1, EarlyUpTo
        <5> QED BY <2>2, <5>1, <5>2
      <4> HIDE DEF E
      <4> QED BY <2>1, <4>1, <4>2, AppendProperties
    <3> QED BY <3>1, <3>2
  <2>4. k \in 0 .. n /\ f[k] = FoldIn(merged, body)
    BY <1>1, <1>2, <2>1, <2>2
  <2> QED BY <2>3, <2>4
<1> HIDE DEF early
<1>5. \A k \in 0 .. n : k \in early
  BY <1>1, <1>3, <1>4, BoundedInduction
<1>6. n \in early
  BY <1>1, <1>5
<1> QED BY <1>2, <1>6 DEF early

\* The chunks of a handbook.
LEMMA SectionsAreEarly ==
    ASSUME document.items \in Seq(AnyItem)
    PROVE  ChunkSections(document.items) \in Seq(EarlyTexts(Headings, MinSection))
<1> DEFINE items == document.items
           noise == {i \in 1 .. Len(items) : items[i].kind = "noise"}
           E == EarlyTexts(Headings, MinSection)
<1>1. PICK lines \in Seq(1 .. Len(items)) : lines = Without(Indices(items), noise)
  <2> HIDE DEF noise
  <2> QED BY LinesType
<1> DEFINE starts == PositionsOf(items, lines, "heading")
           cut == Cut(lines, starts)
<1>2. cut \in Seq(Seq(1 .. Len(items)) \ {<<>>})
  <2> HIDE DEF starts
  <2> QED BY CutType DEF Parts
<1>3. \A n \in 1 .. Len(cut) : \A m \in 2 .. Len(cut[n]) : cut[n][m] \in Inner(lines, starts)
  <2> HIDE DEF starts
  <2> QED BY CutInside
<1>4. \A i \in Inner(lines, starts) : Kind(i) # "heading"
  BY DEF Inner, PositionsOf, Kind
<1> HIDE DEF cut, starts
<1>5. ASSUME NEW n \in 1 .. Len(cut)
      PROVE  Passage(items, cut[n]) \in EarlyTexts(Headings, 1)
  <2>1. PICK part \in Seq(1 .. Len(items)) : part = cut[n] /\ part # <<>>
    BY <1>2, ElementOfSeq
  <2>2. \A m \in 2 .. Len(part) : Kind(part[m]) # "heading"
    BY <1>3, <1>4, <2>1
  <2> QED BY <2>1, <2>2, EarlyPassage
<1>6. PICK sections \in Seq(Texts) :
         /\ sections = Passages(items, cut)
         /\ \A k \in 1 .. Len(sections) : sections[k] \in EarlyTexts(Headings, 1)
  <2>1. Passages(items, cut) \in Seq(Texts)
    BY <1>2, PassagesAreTexts DEF Parts
  <2>2. Len(cut) \in Nat /\ Len(Passages(items, cut)) = Len(cut)
    BY <1>2 DEF Passages
  <2>3. \A k \in 1 .. Len(cut) : Passages(items, cut)[k] = Passage(items, cut[k])
    BY DEF Passages
  <2> QED BY <1>5, <2>1, <2>2, <2>3
<1>7. PICK bodies \in Seq(Texts) : bodies = Fold(sections) /\ bodies \in Seq(E)
  BY <1>6, FoldType, EarlyFold
<1> DEFINE chunked == [n \in 1 .. Len(bodies) |->
              IF Len(bodies[n]) <= Target THEN <<bodies[n]>>
              ELSE PackSection(bodies[n], Bullets(items))]
<1>8. ASSUME NEW n \in 1 .. Len(bodies)
      PROVE  (IF Len(bodies[n]) <= Target THEN <<bodies[n]>>
              ELSE PackSection(bodies[n], Bullets(items))) \in Seq(E)
  <2>1. PICK body \in Texts : body = bodies[n] /\ body \in E
    BY <1>7, ElementOfSeq
  <2>2. PackSection(body, Bullets(items)) \in Seq(E)
    <3>1. PICK texts \in Seq(Seq(Char)) : texts = PackSection(body, Bullets(items))
      BY PackSectionFits, BulletsAreNoSpace, TextsAreSeqs
    <3>2. Spelled(texts) = Letters(body)
      BY <3>1, PackSectionSpells, BulletsAreNoSpace
    <3>3. PICK most \in Int : most = MinSection
      BY ChunkingAssumption
    <3>4. Spelled(texts) \in Early(Headings, most)
      BY <2>1, <3>2, <3>3 DEF EarlyTexts
    <3> QED BY <3>1, <3>3, <3>4, EarlyOneByOne
  <2>3. <<body>> \in Seq(E)
    <3> HIDE DEF E
    <3> QED BY <2>1
  <2> QED BY <2>1, <2>2, <2>3
<1> HIDE DEF E
<1>9. chunked \in Seq(Seq(E))
  <2>1. Len(bodies) \in Nat
    OBVIOUS
  <2> QED BY <1>8, <2>1, IsASeq
<1>10. Flat(chunked) \in Seq(E)
  <2> HIDE DEF chunked
  <2> QED BY <1>9, FlatType
<1>11. ChunkSections(items) = Flat(chunked)
  BY <1>1, <1>6, <1>7 DEF ChunkSections, cut, starts
<1> QED BY <1>10, <1>11 DEF E

\* In a chunk of a handbook fewer letters stand before a heading than a section
\* must have characters.
THEOREM SectionsStandApart == ChunkSpec => []SectionsStayApart
<1>1. ASSUME ChunkInv PROVE SectionsStayApart
  <2>1. CASE document = NoDocument
    BY <2>1 DEF SectionsStayApart, IsFor, NoDocument
  <2>2. CASE /\ document.chunker \in DOMAIN ItemKinds
             /\ document.items \in Seq(Items(document.chunker))
             /\ chunks = ChunksOf(document.chunker, document.items)
    <3>1. SUFFICES ASSUME IsFor("sections"), NEW n \in DOMAIN chunks,
                          NEW letters, letters = Letters(chunks[n].text),
                          NEW k \in DOMAIN letters,
                          letters[k][2] = 1, Kind(letters[k][1]) = "heading"
                   PROVE  k <= MinSection
      BY DEF SectionsStayApart
    <3>2. document.chunker = "sections"
      BY <3>1 DEF IsFor
    <3>3. document.items \in Seq(AnyItem) /\ chunks = Plain(ChunkSections(document.items))
      BY <2>2, <3>2, ItemsType, SeqMonotonic DEF ChunksOf
    <3>4. PICK texts \in Seq(EarlyTexts(Headings, MinSection)) : chunks = Plain(texts)
      BY <3>3, SectionsAreEarly
    <3>5. chunks[n].text \in EarlyTexts(Headings, MinSection)
      <4>1. n \in 1 .. Len(texts) /\ chunks[n].text = texts[n]
        BY <3>4 DEF Plain
      <4> QED BY <4>1, ElementOfSeq
    <3>6. letters \in Early(Headings, MinSection)
      BY <3>1, <3>5 DEF EarlyTexts
    <3>7. /\ letters \in Seq(Letter) /\ k \in 1 .. Len(letters)
          /\ letters[k] \in Headings => k <= MinSection
      BY <3>6 DEF Early
    <3>8. letters[k] \in Letter
      BY <3>7, ElementOfSeq
    <3> QED BY <3>1, <3>7, <3>8 DEF Headings
  <2> QED BY <1>1, <2>1, <2>2 DEF ChunkInv
<1> QED BY <1>1, ChunkInvariant, PTL
=============================================================================
