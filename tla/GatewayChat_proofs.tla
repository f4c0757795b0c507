------------------------- MODULE GatewayChat_proofs -------------------------
(* Theorems about GatewayChat, for any texts, events and transcript: the      *)
(* types, the numbers of the chunks, what the chunks say, and that a reply is  *)
(* not taken from an earlier turn.                                             *)
EXTENDS GatewayChat, SequenceTheorems, WellFoundedInduction, TLAPS

(* What is said of all numbers is proved by the least number it fails for.     *)

LEMMA Least ==
    ASSUME NEW T, T \subseteq Nat, T # {}
    PROVE  \E m \in T : \A k \in T : m <= k
<1>1. PICK m \in T : \A k \in T : ~(<<k, m>> \in OpToRel(<, Nat))
  BY NatLessThanWellFounded, WFMin, Zenon
<1>2. \A k \in T : ~(k < m)
  BY <1>1, Zenon DEF OpToRel
<1> QED BY <1>2

LEMMA Extremes ==
    ASSUME NEW n \in Nat, NEW S, S \subseteq 1..n, S # {}
    PROVE  Min(S) \in S /\ Max(S) \in S /\ \A k \in S : Min(S) <= k /\ k <= Max(S)
<1>0. S \subseteq Nat
  OBVIOUS
<1>1. \E m \in S : \A k \in S : m <= k
  BY <1>0, Least
<1>2. \E m \in S : \A k \in S : m >= k
  <2> DEFINE T == {n - k : k \in S}
  <2>1. T \subseteq Nat /\ T # {}
    <3>1. \A k \in S : n - k \in Nat
      OBVIOUS
    <3> QED BY <3>1
  <2>2. PICK t \in T : \A k \in T : t <= k
    BY <2>1, Least
  <2>3. PICK m \in S : t = n - m
    BY <2>2
  <2>4. \A k \in S : n - m <= n - k
    BY <2>2, <2>3
  <2> QED BY <2>4
<1>3. Min(S) \in S /\ \A k \in S : Min(S) <= k
  BY <1>1 DEF Min
<1>4. Max(S) \in S /\ \A k \in S : Max(S) >= k
  BY <1>2 DEF Max
<1> QED BY <1>0, <1>3, <1>4

----------------------------------------------------------------------------
(* Texts. *)

\* what TrimSpace and Trim remove is not stale, and what they leave was there
LEMMA TrimText ==
    ASSUME NEW s \in Texts
    PROVE  Trim(s) \in Texts /\ (Clean(s) => Clean(Trim(s)))
<1> DEFINE kept == {i \in 1..Len(s) : s[i] # NL}
<1>0. Len(s) \in Nat /\ \A i \in 1..Len(s) : s[i] \in Letters
  BY DEF Texts
<1>1. CASE kept = {}
  BY <1>1 DEF Trim, Texts, Clean
<1>2. CASE kept # {}
  <2>1. Min(kept) \in 1..Len(s) /\ Max(kept) \in 1..Len(s)
    BY <1>0, <1>2, Extremes
  <2>2. Trim(s) = SubSeq(s, Min(kept), Max(kept))
    BY <1>2 DEF Trim
  <2> HIDE DEF kept
  <2>3. /\ SubSeq(s, Min(kept), Max(kept)) \in Seq(Letters)
        /\ Len(SubSeq(s, Min(kept), Max(kept))) =
             IF Min(kept) <= Max(kept) THEN Max(kept) - Min(kept) + 1 ELSE 0
        /\ \A i \in 1..Max(kept) - Min(kept) + 1 : SubSeq(s, Min(kept), Max(kept))[i] = s[Min(kept) + i - 1]
    BY <1>0, <2>1, SubSeqProperties
  <2> QED BY <1>0, <2>1, <2>2, <2>3 DEF Texts, Clean
<1> QED BY <1>1, <1>2

\* The delta is exactly what the next text has more than the known one.
LEMMA IncrementalText ==
    ASSUME NEW said \in Texts, NEW text \in Texts
    PROVE  LET new == IncrementalReplyText(said, text)
           IN  new.delta \in Texts /\ new.next \in Texts /\ new.next = said \o new.delta
<1> DEFINE current == Trim(text)
<1>0. current \in Texts /\ Len(said) \in Nat /\ Len(current) \in Nat /\ said \o <<>> = said /\ <<>> \in Texts
  BY TrimText, ConcatEmptySeq, EmptySeq DEF Texts
<1>1. CASE current = <<>> \/ current = said
  BY <1>0, <1>1 DEF IncrementalReplyText
<1>2. CASE ~(current = <<>> \/ current = said) /\ IsPrefix(said, current)
  <2>1. Len(said) <= Len(current) /\ SubSeq(said, 1, Len(said)) = SubSeq(current, 1, Len(said))
    BY <1>2 DEF IsPrefix
  <2>2. said = SubSeq(current, 1, Len(said))
    BY <2>1, SubSeqFull DEF Texts
  <2>3. SubSeq(current, 1, Len(said)) \o SubSeq(current, Len(said) + 1, Len(current)) = SubSeq(current, 1, Len(current))
    <3> HIDE DEF current
    <3>1. /\ current \in Seq(Letters) /\ 1 \in 1..Len(current) + 1
          /\ Len(said) \in 1 - 1..Len(current) /\ Len(current) \in Len(said)..Len(current)
      BY <1>0, <2>1 DEF Texts
    <3> QED BY <3>1, ConcatAdjacentSubSeq
  <2>4. SubSeq(current, 1, Len(current)) = current
    BY <1>0, SubSeqFull DEF Texts
  <2>5. SubSeq(current, Len(said) + 1, Len(current)) \in Texts
    <3>1. \A i \in Len(said) + 1 .. Len(current) : current[i] \in Letters
      BY <1>0 DEF Texts
    <3> QED BY <1>0, <3>1, SubSeqProperties DEF Texts
  <2> HIDE DEF current
  <2>6. said \o SubSeq(current, Len(said) + 1, Len(current)) = current
    BY <2>2, <2>3, <2>4
  <2>7. IncrementalReplyText(said, text) = [delta |-> SubSeq(current, Len(said) + 1, Len(current)), next |-> current]
    BY <1>2 DEF IncrementalReplyText, current
  <2> QED BY <1>0, <2>5, <2>6, <2>7
<1>3. CASE ~(current = <<>> \/ current = said) /\ ~IsPrefix(said, current)
  <2>1. IncrementalReplyText(said, text) = [delta |-> current, next |-> said \o current]
    BY <1>3 DEF IncrementalReplyText
  <2>2. said \o current \in Texts
    BY <1>0, ConcatProperties DEF Texts
  <2> HIDE DEF current
  <2> QED BY <1>0, <2>1, <2>2
<1> QED BY <1>1, <1>2, <1>3

\* Every stretch of a text can be read in it, and only stretches of it can.
LEMMA ReadAt ==
    ASSUME NEW w
    PROVE  /\ \A i, j \in 0..Len(w) : SubSeq(w, i + 1, j) \in SubSeqs(w)
           /\ \A u \in SubSeqs(w) : \E i, j \in 0..Len(w) : u = SubSeq(w, i + 1, j)
BY DEF SubSeqs

\* What can be read in a text, and what is added behind it, can be read in both.
LEMMA ReadsOn ==
    ASSUME NEW s \in Texts, NEW t \in Texts
    PROVE  s \o t \in Texts /\ SubSeqs(s) \subseteq SubSeqs(s \o t) /\ t \in SubSeqs(s \o t)
<1>0. /\ s \in Seq(Letters) /\ t \in Seq(Letters) /\ s \o t \in Seq(Letters)
      /\ Len(s) \in Nat /\ Len(t) \in Nat /\ Len(s \o t) = Len(s) + Len(t)
  BY ConcatProperties DEF Texts
<1>1. <<>> \in SubSeqs(s \o t)
  <2>1. SubSeq(s \o t, 0 + 1, 0) = <<>> /\ 0 \in 0..Len(s \o t)
    BY <1>0, SubSeqEmpty
  <2> QED BY <2>1, ReadAt
<1>2. SubSeqs(s) \subseteq SubSeqs(s \o t)
  <2> SUFFICES ASSUME NEW u \in SubSeqs(s) PROVE u \in SubSeqs(s \o t)
    OBVIOUS
  <2>0. PICK i, j \in 0..Len(s) : u = SubSeq(s, i + 1, j)
    BY ReadAt
  <2>1. CASE j < i + 1
    <3>1. SubSeq(s, i + 1, j) = <<>>
      BY <1>0, <2>1, SubSeqEmpty
    <3> QED BY <1>1, <2>0, <3>1
  <2>2. CASE ~(j < i + 1)
    <3>1. i + 1 \in 1..Len(s) /\ j \in 1..Len(s) /\ i \in 0..Len(s \o t) /\ j \in 0..Len(s \o t)
      BY <1>0, <2>2
    <3>2. SubSeq(s \o t, i + 1, j) = SubSeq(s, i + 1, j)
      BY <1>0, <3>1, SubSeqOfConcat1
    <3>3. SubSeq(s \o t, i + 1, j) \in SubSeqs(s \o t)
      BY <3>1, ReadAt
    <3> QED BY <2>0, <3>2, <3>3
  <2> QED BY <2>1, <2>2
<1>3. t \in SubSeqs(s \o t)
  <2>1. CASE Len(t) = 0
    BY <1>0, <1>1, <2>1, EmptySeq
  <2>2. CASE Len(t) # 0
    <3> DEFINE m == Len(s)  n == Len(s) + Len(t)
               D == Len(s) + 1..Len(s) + Len(t)
               Off(i) == i - Len(s)
    <3>1. /\ m \in 0..Len(s \o t) /\ n \in 0..Len(s \o t)
          /\ m + 1 \in D /\ n \in D /\ Off(m + 1) = 1 /\ Off(n) = Len(t)
      BY <1>0, <2>2
    <3>2. SubSeq(s \o t, m + 1, n) = SubSeq(t, 1, Len(t))
      <4>1. \A i, j \in D : SubSeq(s \o t, i, j) = SubSeq(t, Off(i), Off(j))
        BY <1>0, SubSeqOfConcat2
      <4> HIDE DEF m, n, D, Off
      <4> DEFINE m1 == m + 1
      <4>2. m1 \in D /\ Off(m1) = 1
        BY <3>1
      <4> HIDE DEF m1
      <4>3. SubSeq(s \o t, m1, n) = SubSeq(t, 1, Len(t))
        BY <3>1, <4>1, <4>2, Zenon
      <4> QED BY <4>3 DEF m1
    <3> HIDE DEF m, n
    <3>3. SubSeq(t, 1, Len(t)) = t
      BY <1>0, SubSeqFull
    <3>4. SubSeq(s \o t, m + 1, n) \in SubSeqs(s \o t)
      BY <3>1, ReadAt
    <3> QED BY <3>2, <3>3, <3>4
  <2> QED BY <2>1, <2>2
<1> QED BY <1>0, <1>2, <1>3 DEF Texts

\* The text that was merged can be read in the next one.
LEMMA IncrementalSays ==
    ASSUME NEW said \in Texts, NEW text \in Texts
    PROVE  Trim(text) \in SubSeqs(IncrementalReplyText(said, text).next)
<1> DEFINE current == Trim(text)
<1>0. current \in Texts /\ <<>> \in Texts /\ said \o <<>> = said
  BY TrimText, ConcatEmptySeq, EmptySeq DEF Texts
<1>1. \A s \in Texts : s \in SubSeqs(s) /\ <<>> \in SubSeqs(s)
  <2> TAKE s \in Texts
  <2>1. <<>> \o s = s /\ s \o <<>> = s
    BY ConcatEmptySeq DEF Texts
  <2> QED BY <1>0, <2>1, ReadsOn
<1>2. current \in SubSeqs(said \o current)
  <2> HIDE DEF current
  <2> QED BY <1>0, ReadsOn
<1>3. IncrementalReplyText(said, text).next =
        IF current = <<>> \/ current = said THEN said
        ELSE IF IsPrefix(said, current) THEN current ELSE said \o current
  BY DEF IncrementalReplyText
<1> HIDE DEF current
<1>4. current \in SubSeqs(IncrementalReplyText(said, text).next)
  BY <1>0, <1>1, <1>2, <1>3
<1> QED BY <1>4 DEF current

----------------------------------------------------------------------------
(* FlattenSeq is the recursive function it is written as.                      *)

Solves(f, seqs, n) == f = [i \in 1..n |-> IF i = 1 THEN seqs[i] ELSE f[i - 1] \o seqs[i]]

Flat(seqs) == CHOOSE flatten : Solves(flatten, seqs, Len(seqs))

LEMMA SolvesNone == ASSUME NEW seqs PROVE \E f : Solves(f, seqs, 0)
<1>1. Solves([i \in 1..0 |-> seqs], seqs, 0)
  <2>1. \A i \in 1..0 : FALSE
    OBVIOUS
  <2> QED BY <2>1 DEF Solves
<1> QED BY <1>1

LEMMA SolvesOneMore ==
    ASSUME NEW seqs, NEW n \in Nat \ {0}, NEW f, Solves(f, seqs, n - 1)
    PROVE  \E g : Solves(g, seqs, n)
<1> DEFINE last == IF n = 1 THEN seqs[n] ELSE f[n - 1] \o seqs[n]
           g == [i \in 1..n |-> IF i = n THEN last ELSE f[i]]
           E(i) == IF i = 1 THEN seqs[i] ELSE g[i - 1] \o seqs[i]
<1>1. \A i \in 1..n - 1 : f[i] = IF i = 1 THEN seqs[i] ELSE f[i - 1] \o seqs[i]
  BY DEF Solves
<1> HIDE DEF last
<1>2. /\ g[n] = last
      /\ \A i \in 1..n : i # n => i \in 1..n - 1 /\ g[i] = f[i]
      /\ \A i \in 1..n : i # 1 => i - 1 \in 1..n - 1 /\ g[i - 1] = f[i - 1]
  OBVIOUS
<1>3. g = [i \in 1..n |-> g[i]]
  OBVIOUS
<1> HIDE DEF g
<1>4. \A i \in 1..n : g[i] = E(i)
  <2> TAKE i \in 1..n
  <2>1. CASE i = n
    BY <1>2, <2>1 DEF last
  <2>2. CASE i # n
    BY <1>1, <1>2, <2>2
  <2> QED BY <2>1, <2>2
<1>5. [i \in 1..n |-> g[i]] = [i \in 1..n |-> E(i)]
  <2> HIDE DEF E
  <2> QED BY <1>4
<1>6. Solves(g, seqs, n)
  BY <1>3, <1>5, Zenon DEF Solves
<1> QED BY <1>6

LEMMA FlatUnfolds ==
    ASSUME NEW S, NEW seqs \in Seq(S)
    PROVE  \A i \in 1..Len(seqs) : Flat(seqs)[i] = IF i = 1 THEN seqs[i] ELSE Flat(seqs)[i - 1] \o seqs[i]
<1> DEFINE Bad == {n \in Nat : ~(\E f : Solves(f, seqs, n))}
<1>1. Bad = {}
  <2> SUFFICES ASSUME Bad # {} PROVE FALSE
    OBVIOUS
  <2>1. Bad \subseteq Nat
    OBVIOUS
  <2>2. PICK n \in Bad : \A k \in Bad : n <= k
    <3> HIDE DEF Bad
    <3> QED BY <2>1, Least
  <2>3. n # 0
    BY <2>2, SolvesNone
  <2>4. n - 1 \in Nat /\ n - 1 \notin Bad /\ n \in Nat \ {0}
    BY <2>2, <2>3
  <2>5. PICK f : Solves(f, seqs, n - 1)
    BY <2>4
  <2>6. \E g : Solves(g, seqs, n)
    BY <2>4, <2>5, SolvesOneMore
  <2> QED BY <2>2, <2>6
<1>2. \E f : Solves(f, seqs, Len(seqs))
  <2>1. Len(seqs) \in Nat
    OBVIOUS
  <2> QED BY <1>1, <2>1
<1>3. Solves(Flat(seqs), seqs, Len(seqs))
  BY <1>2, Zenon DEF Flat
<1> DEFINE f == Flat(seqs)
<1>4. Solves(f, seqs, Len(seqs))
  BY <1>3
<1> HIDE DEF f
<1>5. \A i \in 1..Len(seqs) : f[i] = IF i = 1 THEN seqs[i] ELSE f[i - 1] \o seqs[i]
  BY <1>4 DEF Solves
<1> QED BY <1>5 DEF f

LEMMA FlattenIsFlat ==
    ASSUME NEW S, NEW seqs \in Seq(S)
    PROVE  FlattenSeq(seqs) = IF Len(seqs) = 0 THEN seqs ELSE Flat(seqs)[Len(seqs)]
BY Zenon DEF FlattenSeq, Flat, Solves

\* One text more is said after all the others.
LEMMA FlattenAppend ==
    ASSUME NEW seqs \in Seq(Texts), NEW text \in Texts
    PROVE  FlattenSeq(Append(seqs, text)) = FlattenSeq(seqs) \o text
<1> DEFINE more == Append(seqs, text)
           n == Len(seqs)
<1>0. /\ more \in Seq(Texts) /\ Len(more) = n + 1 /\ n \in Nat
      /\ \A i \in 1..n : more[i] = seqs[i]
      /\ more[n + 1] = text
  BY AppendProperties
<1> HIDE DEF more
<1>1. \A i \in 1..n : Flat(seqs)[i] = IF i = 1 THEN seqs[i] ELSE Flat(seqs)[i - 1] \o seqs[i]
  BY FlatUnfolds
<1>2. \A i \in 1..n + 1 : Flat(more)[i] = IF i = 1 THEN more[i] ELSE Flat(more)[i - 1] \o more[i]
  <2>1. \A i \in 1..Len(more) : Flat(more)[i] = IF i = 1 THEN more[i] ELSE Flat(more)[i - 1] \o more[i]
    BY <1>0, FlatUnfolds
  <2> QED BY <1>0, <2>1
<1>3. \A i \in 1..n : Flat(more)[i] = Flat(seqs)[i]
  <2> DEFINE Bad == {i \in 1..n : Flat(more)[i] # Flat(seqs)[i]}
  <2> SUFFICES ASSUME Bad # {} PROVE FALSE
    OBVIOUS
  <2>1. PICK i \in Bad : \A k \in Bad : i <= k
    <3>1. Bad \subseteq Nat
      BY <1>0
    <3> QED BY <3>1, Least
  <2>2. i \in 1..n /\ (i = 1 \/ (i - 1 \in 1..n /\ i - 1 \notin Bad))
    BY <1>0, <2>1
  <2> QED BY <1>0, <1>1, <1>2, <2>1, <2>2
<1>4. /\ FlattenSeq(more) = Flat(more)[n + 1]
      /\ FlattenSeq(seqs) = IF n = 0 THEN seqs ELSE Flat(seqs)[n]
  <2>1. /\ FlattenSeq(more) = IF Len(more) = 0 THEN more ELSE Flat(more)[Len(more)]
        /\ FlattenSeq(seqs) = IF n = 0 THEN seqs ELSE Flat(seqs)[n]
    BY <1>0, FlattenIsFlat
  <2>2. Len(more) # 0
    BY <1>0
  <2> QED BY <1>0, <2>1, <2>2
<1>5. n + 1 \in 1..n + 1 /\ (n + 1) - 1 = n /\ (n + 1 = 1 <=> n = 0)
  BY <1>0
<1>6. Flat(more)[n + 1] = IF n = 0 THEN text ELSE Flat(more)[n] \o text
  <2>1. Flat(more)[n + 1] = IF n + 1 = 1 THEN more[n + 1] ELSE Flat(more)[(n + 1) - 1] \o more[n + 1]
    BY <1>2, <1>5
  <2> HIDE DEF n
  <2> QED BY <1>0, <1>5, <2>1
<1>7. CASE n = 0
  <2>1. seqs = <<>>
    BY <1>7, EmptySeq
  <2>2. <<>> \o text = text
    BY ConcatEmptySeq DEF Texts
  <2> QED BY <1>4, <1>6, <1>7, <2>1, <2>2 DEF more
<1>8. CASE n # 0
  <2>1. n \in 1..n
    BY <1>0, <1>8
  <2>2. Flat(more)[n] = Flat(seqs)[n]
    BY <1>3, <2>1
  <2> HIDE DEF n
  <2> QED BY <1>4, <1>6, <1>8, <2>2 DEF more
<1> QED BY <1>7, <1>8

----------------------------------------------------------------------------
(* What a list of chunks says, and its numbers.                               *)

TextsOf(list) == [i \in 1..Len(list) |-> list[i].text]
Say(list)     == FlattenSeq(TextsOf(list))

Numbered(list) ==
    /\ list \in Seq(Chunks)
    /\ \A i \in 1..Len(list) : list[i].seq = i /\ list[i].final = FALSE

LEMMA ChunkFields ==
    ASSUME NEW chunk \in Chunks
    PROVE  chunk.text \in Texts /\ chunk.seq \in Nat /\ chunk.final \in BOOLEAN
           /\ chunk.finish \in {"none"} \cup Finishes
<1> HIDE DEF Texts
<1> QED BY Zenon DEF Chunks

LEMMA TextsOfType ==
    ASSUME NEW list \in Seq(Chunks)
    PROVE  TextsOf(list) \in Seq(Texts) /\ Len(TextsOf(list)) = Len(list)
<1>0. Len(list) \in Nat /\ \A i \in 1..Len(list) : list[i] \in Chunks
  OBVIOUS
<1>1. Len(list) \in Nat /\ \A i \in 1..Len(list) : list[i].text \in Texts
  BY <1>0, ChunkFields
<1>2. TextsOf(list) \in [1..Len(list) -> Texts]
  BY <1>1 DEF TextsOf
<1> QED BY <1>1, <1>2

LEMMA SayAppend ==
    ASSUME NEW list \in Seq(Chunks), NEW chunk \in Chunks
    PROVE  Say(Append(list, chunk)) = Say(list) \o chunk.text
<1> DEFINE more == Append(list, chunk)
           all  == Append(TextsOf(list), chunk.text)
<1>0. chunk.text \in Texts /\ Len(list) \in Nat
  <2>1. chunk.text \in Texts
    BY ChunkFields
  <2>2. Len(list) \in Nat
    BY LenProperties
  <2> QED BY <2>1, <2>2
<1>1. /\ more \in Seq(Chunks) /\ Len(more) = Len(list) + 1
      /\ \A i \in 1..Len(list) : more[i] = list[i]
      /\ more[Len(list) + 1] = chunk
  BY AppendProperties
<1>2. /\ all \in Seq(Texts) /\ Len(all) = Len(list) + 1
      /\ \A i \in 1..Len(list) : all[i] = TextsOf(list)[i]
      /\ all[Len(list) + 1] = chunk.text
  BY <1>0, TextsOfType, AppendProperties
<1>3. TextsOf(more) \in Seq(Texts) /\ Len(TextsOf(more)) = Len(list) + 1
  BY <1>1, TextsOfType
<1> HIDE DEF more, all
<1>4. \A i \in 1..Len(list) + 1 : TextsOf(more)[i] = all[i]
  BY <1>0, <1>1, <1>2 DEF TextsOf
<1>5. TextsOf(more) = all
  BY <1>2, <1>3, <1>4, SeqEqual
<1>6. FlattenSeq(all) = FlattenSeq(TextsOf(list)) \o chunk.text
  BY <1>0, TextsOfType, FlattenAppend DEF all
<1> QED BY <1>5, <1>6 DEF Say, more

LEMMA SayNothing == Say(<<>>) = <<>>
<1>1. TextsOf(<<>>) \in Seq(Texts) /\ Len(TextsOf(<<>>)) = 0
  BY TextsOfType, EmptySeq
<1>2. TextsOf(<<>>) = <<>>
  BY <1>1, EmptySeq
<1> QED BY <1>1, <1>2, FlattenIsFlat DEF Say

LEMMA ChunkType ==
    ASSUME NEW text \in Texts, NEW n \in Nat
    PROVE  Chunk(text, n) \in Chunks /\ Chunk(text, n).text = text
           /\ Chunk(text, n).seq = n /\ Chunk(text, n).final = FALSE
BY DEF Chunk, Chunks

\* A chunk appended with the next number keeps the numbers.
LEMMA AppendNumbered ==
    ASSUME NEW list, Numbered(list), NEW text \in Texts
    PROVE  LET more == Append(list, Chunk(text, Len(list) + 1))
           IN  /\ Numbered(more) /\ Len(more) = Len(list) + 1 /\ more # <<>>
               /\ Say(more) = Say(list) \o text
<1> DEFINE chunk == Chunk(text, Len(list) + 1)
           more  == Append(list, chunk)
<1>1. list \in Seq(Chunks) /\ Len(list) \in Nat /\ Len(list) + 1 \in Nat
  BY DEF Numbered
<1>2. chunk \in Chunks /\ chunk.text = text /\ chunk.seq = Len(list) + 1 /\ chunk.final = FALSE
  BY <1>1, ChunkType
<1> HIDE DEF chunk
<1>3. /\ more \in Seq(Chunks) /\ more # <<>> /\ Len(more) = Len(list) + 1
      /\ \A i \in 1..Len(list) : more[i] = list[i]
      /\ more[Len(list) + 1] = chunk
  BY <1>1, <1>2, AppendProperties
<1>4. Say(more) = Say(list) \o text
  BY <1>1, <1>2, SayAppend
<1> HIDE DEF more
<1>5. \A i \in 1..Len(more) : more[i].seq = i /\ more[i].final = FALSE
  <2> TAKE i \in 1..Len(more)
  <2>0. i = Len(list) + 1 \/ i \in 1..Len(list)
    BY <1>1, <1>3
  <2>1. CASE i = Len(list) + 1
    BY <1>2, <1>3, <2>1
  <2>2. CASE i \in 1..Len(list)
    BY <1>3, <2>2 DEF Numbered
  <2> QED BY <2>0, <2>1, <2>2
<1> QED BY <1>3, <1>4, <1>5 DEF Numbered, more, chunk

\* Emit appends the delta, if there is one.
LEMMA EmitNumbered ==
    ASSUME NEW list, Numbered(list), NEW delta \in Texts
    PROVE  LET more == Emit(list, Len(list), delta)
           IN  /\ Numbered(more) /\ NextSeq(Len(list), delta) = Len(more)
               /\ Say(list) \in Texts => Say(more) = Say(list) \o delta
               /\ more = <<>> <=> list = <<>> /\ delta = <<>>
<1>1. CASE delta = <<>>
  <2>1. Emit(list, Len(list), delta) = list /\ NextSeq(Len(list), delta) = Len(list)
    BY <1>1 DEF Emit, NextSeq
  <2>2. Say(list) \in Texts => Say(list) \o delta = Say(list)
    BY <1>1, ConcatEmptySeq DEF Texts
  <2> QED BY <1>1, <2>1, <2>2
<1>2. CASE delta # <<>>
  <2>1. /\ Emit(list, Len(list), delta) = Append(list, Chunk(delta, Len(list) + 1))
        /\ NextSeq(Len(list), delta) = Len(list) + 1
    BY <1>2 DEF Emit, NextSeq
  <2> QED BY <1>2, <2>1, AppendNumbered
<1> QED BY <1>1, <1>2

LEMMA NotBlankAppend ==
    ASSUME NEW s \in Texts, NEW t \in Texts, ~Blank(s)
    PROVE  ~Blank(s \o t) /\ s # <<>>
<1>1. PICK i \in 1..Len(s) : s[i] \notin White
  BY DEF Blank
<1>2. Len(s \o t) = Len(s) + Len(t) /\ Len(s) \in Nat /\ Len(t) \in Nat /\ (s \o t)[i] = s[i]
      /\ i \in 1..Len(s \o t)
  BY <1>1, ConcatProperties DEF Texts
<1>3. s # <<>>
  BY <1>1
<1> QED BY <1>1, <1>2, <1>3 DEF Blank

----------------------------------------------------------------------------
(* The merges at the end of the turn.                                         *)

\* what is collected is well numbered
Fits(c) ==
    /\ c = Collected(c.list, c.seq, c.text, c.snapshot)
    /\ Numbered(c.list) /\ c.seq = Len(c.list)
    /\ c.text \in Texts /\ c.snapshot \in Texts

\* and its chunks say the visible text it holds
Whole(c) == Say(c.list) = c.text /\ ~Blank(c.text)

\* new text is emitted and held
LEMMA EmitFits ==
    ASSUME NEW c, Fits(c), NEW said \in Texts, NEW text \in Texts, NEW snapshot \in Texts
    PROVE  LET new == IncrementalReplyText(said, text)
               d   == Collected(Emit(c.list, c.seq, new.delta), NextSeq(c.seq, new.delta), new.next, snapshot)
           IN  Fits(d) /\ (Whole(c) /\ said = c.text => Whole(d)) /\ d.snapshot = snapshot
<1> DEFINE new == IncrementalReplyText(said, text)
           d   == Collected(Emit(c.list, c.seq, new.delta), NextSeq(c.seq, new.delta), new.next, snapshot)
<1>1. new.delta \in Texts /\ new.next \in Texts /\ new.next = said \o new.delta
  BY IncrementalText
<1>2. c.seq = Len(c.list) /\ Numbered(c.list) /\ c.text \in Texts
  BY DEF Fits
<1> DEFINE list == c.list  delta == new.delta
<1> HIDE DEF new
<1>3. /\ Numbered(Emit(c.list, c.seq, new.delta))
      /\ NextSeq(c.seq, new.delta) = Len(Emit(c.list, c.seq, new.delta))
      /\ Say(c.list) \in Texts => Say(Emit(c.list, c.seq, new.delta)) = Say(c.list) \o new.delta
  <2>1. Numbered(list) /\ delta \in Texts /\ c.seq = Len(list)
    BY <1>1, <1>2
  <2> HIDE DEF list, delta
  <2>2. /\ Numbered(Emit(list, Len(list), delta)) /\ NextSeq(Len(list), delta) = Len(Emit(list, Len(list), delta))
        /\ Say(list) \in Texts => Say(Emit(list, Len(list), delta)) = Say(list) \o delta
    BY <2>1, EmitNumbered
  <2> QED BY <2>1, <2>2 DEF list, delta
<1>4. d.list = Emit(c.list, c.seq, new.delta) /\ d.seq = NextSeq(c.seq, new.delta) /\ d.text = new.next
      /\ d.snapshot = snapshot /\ d = Collected(d.list, d.seq, d.text, d.snapshot)
  BY DEF Collected
<1> HIDE DEF d
<1>5. Fits(d)
  BY <1>1, <1>3, <1>4 DEF Fits
<1>6. ASSUME Whole(c), said = c.text PROVE Whole(d)
  <2>1. ~Blank(said \o new.delta)
    BY <1>1, <1>6, NotBlankAppend DEF Whole
  <2> QED BY <1>1, <1>2, <1>3, <1>4, <1>6, <2>1 DEF Whole
<1> QED BY <1>4, <1>5, <1>6 DEF d, new

\* The transcript is merged into a snapshot, or says what is new of it.
LEMMA MergeTranscriptFits ==
    ASSUME NEW c, Fits(c), NEW transcript \in Texts
    PROVE  LET d == MergeTranscript(c, transcript)
           IN  /\ Fits(d) /\ (Whole(c) => Whole(d))
               /\ Blank(transcript) => d = c
               /\ ~Blank(transcript) => d.snapshot = transcript
<1>1. CASE Blank(transcript)
  BY <1>1 DEF MergeTranscript
<1> DEFINE base == IF Blank(c.text) THEN c.snapshot ELSE c.text
<1>2. CASE ~Blank(transcript) /\ Blank(base)
  <2>1. MergeTranscript(c, transcript) = [c EXCEPT !.snapshot = transcript]
    BY <1>2 DEF MergeTranscript
  <2>2. MergeTranscript(c, transcript) = Collected(c.list, c.seq, c.text, transcript)
    BY <2>1 DEF Fits, Collected
  <2>3. Blank(c.text)
    BY <1>2
  <2> QED BY <1>2, <2>2, <2>3 DEF Fits, Collected, Whole
<1>3. CASE ~Blank(transcript) /\ ~Blank(base)
  <2> DEFINE new == IncrementalReplyText(base, transcript)
  <2>1. MergeTranscript(c, transcript) =
          Collected(Emit(c.list, c.seq, new.delta), NextSeq(c.seq, new.delta), new.next, transcript)
    BY <1>3 DEF MergeTranscript
  <2>2. base \in Texts /\ (Whole(c) => base = c.text)
    BY DEF Fits, Whole
  <2> HIDE DEF base
  <2> QED BY <1>3, <2>1, <2>2, EmitFits
<1> QED BY <1>1, <1>2, <1>3

\* The snapshot is all that is said, or adds to it.
LEMMA MergeSnapshotFits ==
    ASSUME NEW c, Fits(c)
    PROVE  LET d == MergeSnapshot(c)
           IN  /\ Fits(d) /\ (Whole(c) => Whole(d)) /\ d.snapshot = c.snapshot
               /\ c.list = <<>> /\ c.snapshot # <<>> => Len(d.list) = 1 /\ Say(d.list) = c.snapshot
<1>0. c.snapshot \in Texts /\ c.text \in Texts /\ Numbered(c.list)
  BY DEF Fits
<1>1. CASE c.snapshot = <<>> \/ (c.list # <<>> /\ Blank(c.text))
  BY <1>1 DEF MergeSnapshot
<1>2. CASE c.snapshot # <<>> /\ c.list = <<>>
  <2> DEFINE one == Append(c.list, Chunk(c.snapshot, Len(c.list) + 1))
  <2>1. c.list = <<>> /\ Len(c.list) = 0 /\ Numbered(<<>>)
    BY <1>0, <1>2
  <2>2. one = <<Chunk(c.snapshot, 1)>>
    BY <1>2, <2>1
  <2>3. Numbered(one) /\ Len(one) = 1 /\ Say(one) = Say(c.list) \o c.snapshot
    <3>1. Numbered(one) /\ Len(one) = Len(c.list) + 1 /\ Say(one) = Say(c.list) \o c.snapshot
      BY <1>0, AppendNumbered
    <3> QED BY <2>1, <3>1
  <2>4. Say(one) = c.snapshot
    BY <1>0, <1>2, <2>3, SayNothing, ConcatEmptySeq DEF Texts
  <2>5. MergeSnapshot(c) = Collected(one, 1, c.snapshot, c.snapshot)
    BY <1>2, <2>2 DEF MergeSnapshot
  <2> HIDE DEF one
  <2>6. ~Whole(c)
    <3> SUFFICES ASSUME Whole(c) PROVE FALSE
      OBVIOUS
    <3>1. c.text = <<>>
      BY <1>2, SayNothing DEF Whole
    <3> QED BY <3>1 DEF Whole, Blank
  <2> QED BY <1>0, <2>3, <2>4, <2>5, <2>6 DEF Fits, Collected
<1>3. CASE c.snapshot # <<>> /\ c.list # <<>> /\ ~Blank(c.text)
  <2> DEFINE new == IncrementalReplyText(c.text, c.snapshot)
  <2>1. MergeSnapshot(c) =
          Collected(Emit(c.list, c.seq, new.delta), NextSeq(c.seq, new.delta), new.next, c.snapshot)
    BY <1>3 DEF MergeSnapshot
  <2> QED BY <1>0, <1>3, <2>1, EmitFits
<1> QED BY <1>1, <1>2, <1>3

LEMMA NonEmptyFits ==
    ASSUME NEW c, Fits(c)
    PROVE  LET d == NonEmpty(c)
           IN  Fits(d) /\ d.list # <<>> /\ d.snapshot = c.snapshot /\ (c.list # <<>> => d = c)
<1>1. CASE c.list # <<>>
  BY <1>1 DEF NonEmpty
<1>2. CASE c.list = <<>>
  <2> DEFINE one == Append(c.list, Chunk(<<>>, Len(c.list) + 1))
  <2>1. Len(c.list) = 0 /\ c.seq = 0 /\ <<>> \in Texts
    BY <1>2 DEF Fits, Texts
  <2>2. one = <<Chunk(<<>>, c.seq + 1)>>
    BY <1>2, <2>1
  <2>3. Numbered(one) /\ Len(one) = 1 /\ one # <<>>
    <3>1. Numbered(c.list)
      BY DEF Fits
    <3>2. Numbered(one) /\ Len(one) = Len(c.list) + 1 /\ one # <<>>
      BY <2>1, <3>1, AppendNumbered
    <3> QED BY <2>1, <3>2
  <2>4. NonEmpty(c) = Collected(one, 1, c.text, c.snapshot)
    BY <1>2, <2>1, <2>2 DEF NonEmpty
  <2> HIDE DEF one
  <2> QED BY <1>2, <2>3, <2>4 DEF Fits, Collected
<1> QED BY <1>1, <1>2

\* MarkFinal changes nothing but the end of the last chunk.
LEMMA MarkFinalSays ==
    ASSUME NEW list, Numbered(list), list # <<>>, NEW all, NEW failed, fin \in {"none"} \cup Finishes
    PROVE  LET marked == MarkFinal(list, all, failed)
           IN  /\ marked \in Seq(Chunks) /\ Len(marked) = Len(list) /\ marked # <<>>
               /\ Say(marked) = Say(list)
               /\ \A i \in 1..Len(list) : marked[i].seq = i /\ marked[i].final = (i = Len(list))
<1> DEFINE last   == [Last(list) EXCEPT !.final = TRUE, !.finish = FinalReason(Last(list), all, failed)]
           marked == [list EXCEPT ![Len(list)] = last]
<1>0. list \in Seq(Chunks)
  BY DEF Numbered
<1>1. list \in Seq(Chunks) /\ Len(list) \in Nat /\ Len(list) \in 1..Len(list)
  <2> DEFINE n == Len(list)
  <2>1. n \in Nat \ {0}
    BY <1>0, EmptySeq
  <2> HIDE DEF n
  <2>2. n \in Nat /\ n \in 1..n
    BY <2>1
  <2> QED BY <1>0, <2>2 DEF n
<1>2. Last(list) = list[Len(list)] /\ Last(list) \in Chunks
  BY <1>1, ElementOfSeq DEF Last
<1>3. FinalReason(Last(list), all, failed) \in {"none"} \cup Finishes
  BY DEF FinalReason, Finishes
<1>4. last \in Chunks /\ last.text = Last(list).text /\ last.seq = Last(list).seq /\ last.final = TRUE
  <2> HIDE DEF Last
  <2> QED BY <1>2, <1>3 DEF Chunks
<1> HIDE DEF last
<1>5. /\ marked \in Seq(Chunks) /\ Len(marked) = Len(list)
      /\ \A i \in 1..Len(list) : marked[i] = IF i = Len(list) THEN last ELSE list[i]
  <2> DEFINE n == Len(list)
  <2>1. n \in 1..Len(list) /\ last \in Chunks
    BY <1>1, <1>4
  <2> HIDE DEF n
  <2>2. /\ [list EXCEPT ![n] = last] \in Seq(Chunks) /\ Len([list EXCEPT ![n] = last]) = Len(list)
        /\ \A i \in 1..Len(list) : [list EXCEPT ![n] = last][i] = IF i = n THEN last ELSE list[i]
    BY <1>0, <2>1, ExceptSeq
  <2> QED BY <2>2 DEF n
<1>6. MarkFinal(list, all, failed) = marked
  BY DEF MarkFinal, last
<1> HIDE DEF marked
<1>7. TextsOf(marked) = TextsOf(list)
  BY <1>2, <1>4, <1>5 DEF TextsOf
<1>8. \A i \in 1..Len(list) : marked[i].seq = i /\ marked[i].final = (i = Len(list))
  <2> TAKE i \in 1..Len(list)
  <2>1. list[i].seq = i /\ list[i].final = FALSE
    BY DEF Numbered
  <2> QED BY <1>2, <1>4, <1>5, <2>1
<1>9. marked # <<>>
  <2> DEFINE n == Len(list)
  <2>1. n \in 1..n /\ Len(marked) = n
    BY <1>1, <1>5
  <2> HIDE DEF n
  <2>2. Len(marked) # 0
    BY <2>1
  <2> QED BY <2>2, EmptySeq
<1> QED BY <1>5, <1>6, <1>7, <1>8, <1>9 DEF Say

\* Nothing that can be read in the chunks is lost by what is merged into them.
Keeps(c, d) ==
    Say(c.list) \in Texts =>
        Say(d.list) \in Texts /\ SubSeqs(Say(c.list)) \subseteq SubSeqs(Say(d.list))

LEMMA EmitKeeps ==
    ASSUME NEW c, Fits(c), NEW delta \in Texts, NEW d, d.list = Emit(c.list, c.seq, delta)
    PROVE  Keeps(c, d)
<1> SUFFICES ASSUME Say(c.list) \in Texts
             PROVE  Say(d.list) \in Texts /\ SubSeqs(Say(c.list)) \subseteq SubSeqs(Say(d.list))
  BY DEF Keeps
<1> DEFINE list == c.list
<1>1. Numbered(list) /\ Say(list) \in Texts /\ d.list = Emit(list, Len(list), delta)
  BY DEF Fits
<1> HIDE DEF list
<1>2. Say(d.list) = Say(list) \o delta
  BY <1>1, EmitNumbered
<1>3. Say(list) \o delta \in Texts /\ SubSeqs(Say(list)) \subseteq SubSeqs(Say(list) \o delta)
  BY <1>1, ReadsOn
<1> QED BY <1>2, <1>3 DEF list

\* and the transcript can be read in chunks that were visible
LEMMA MergeTranscriptKeeps ==
    ASSUME NEW c, Fits(c), NEW transcript \in Texts
    PROVE  /\ Keeps(c, MergeTranscript(c, transcript))
           /\ Whole(c) /\ ~Blank(transcript) =>
                 Trim(transcript) \in SubSeqs(Say(MergeTranscript(c, transcript).list))
<1> DEFINE base == IF Blank(c.text) THEN c.snapshot ELSE c.text
           new  == IncrementalReplyText(base, transcript)
<1>0. base \in Texts /\ (Whole(c) => ~Blank(base))
  BY DEF Fits, Whole
<1>1. CASE Blank(transcript) \/ Blank(base)
  <2>1. MergeTranscript(c, transcript).list = c.list
    BY <1>1 DEF MergeTranscript, Fits, Collected
  <2> QED BY <1>0, <1>1, <2>1 DEF Keeps
<1>2. CASE ~Blank(transcript) /\ ~Blank(base)
  <2> DEFINE d == MergeTranscript(c, transcript)
  <2>1. d = Collected(Emit(c.list, c.seq, new.delta), NextSeq(c.seq, new.delta), new.next, transcript)
    BY <1>2 DEF MergeTranscript
  <2>2. d.list = Emit(c.list, c.seq, new.delta) /\ d.text = new.next
    BY <2>1 DEF Collected
  <2>3. Whole(c) => Whole(d)
    BY MergeTranscriptFits
  <2> HIDE DEF d, base
  <2>4. new.delta \in Texts /\ Trim(transcript) \in SubSeqs(new.next)
    BY <1>0, IncrementalText, IncrementalSays
  <2> HIDE DEF new
  <2>5. Keeps(c, d)
    BY <2>2, <2>4, EmitKeeps
  <2>6. Whole(c) => Trim(transcript) \in SubSeqs(Say(d.list))
    BY <2>2, <2>3, <2>4 DEF Whole
  <2> QED BY <2>5, <2>6 DEF d
<1> QED BY <1>1, <1>2

LEMMA MergeSnapshotKeeps == ASSUME NEW c, Fits(c) PROVE Keeps(c, MergeSnapshot(c))
<1>0. c.snapshot \in Texts /\ c.text \in Texts /\ Numbered(c.list)
  BY DEF Fits
<1>1. CASE c.snapshot = <<>> \/ (c.list # <<>> /\ Blank(c.text))
  <2>1. MergeSnapshot(c) = c
    BY <1>1 DEF MergeSnapshot
  <2> QED BY <2>1 DEF Keeps
<1>2. CASE c.snapshot # <<>> /\ c.list = <<>>
  <2>1. Say(MergeSnapshot(c).list) = c.snapshot
    BY <1>2, MergeSnapshotFits
  <2>2. Say(c.list) = <<>> /\ <<>> \in Texts /\ <<>> \o c.snapshot = c.snapshot
    BY <1>0, <1>2, SayNothing, EmptySeq, ConcatEmptySeq DEF Texts
  <2>3. SubSeqs(<<>>) \subseteq SubSeqs(c.snapshot)
    BY <1>0, <2>2, ReadsOn
  <2> HIDE DEF Texts
  <2> QED BY <1>0, <2>1, <2>2, <2>3 DEF Keeps
<1>3. CASE c.snapshot # <<>> /\ c.list # <<>> /\ ~Blank(c.text)
  <2> DEFINE new == IncrementalReplyText(c.text, c.snapshot)
  <2>1. MergeSnapshot(c).list = Emit(c.list, c.seq, new.delta)
    BY <1>3 DEF MergeSnapshot, Collected
  <2>2. new.delta \in Texts
    BY <1>0, IncrementalText
  <2> HIDE DEF new
  <2> QED BY <2>1, <2>2, EmitKeeps
<1> QED BY <1>1, <1>2, <1>3

LEMMA NonEmptyKeeps == ASSUME NEW c, Fits(c) PROVE Keeps(c, NonEmpty(c))
<1>1. CASE c.list # <<>>
  BY <1>1 DEF NonEmpty, Keeps
<1>2. CASE c.list = <<>>
  <2> DEFINE one == Append(c.list, Chunk(<<>>, Len(c.list) + 1))
  <2>1. Len(c.list) = 0 /\ c.seq = 0 /\ <<>> \in Texts /\ Numbered(c.list)
    BY <1>2 DEF Fits, Texts
  <2>2. NonEmpty(c).list = one
    BY <1>2, <2>1 DEF NonEmpty, Collected
  <2>3. Say(one) = Say(c.list) \o <<>>
    BY <2>1, AppendNumbered
  <2>4. Say(c.list) = <<>> /\ <<>> \o <<>> = <<>>
    BY <1>2, SayNothing, ConcatEmptySeq
  <2> HIDE DEF one
  <2> QED BY <2>2, <2>3, <2>4 DEF Keeps
<1> QED BY <1>1, <1>2

----------------------------------------------------------------------------
(* The transcript.                                                            *)

Entries == [role : {"user", "assistant", "tool"}, text : Texts, ts : Nat, more : BOOLEAN, media : SUBSET Media]
Turns   == [begun : BOOLEAN, text : Texts, ts : Nat, more : BOOLEAN, tools : SUBSET Media, own : SUBSET Media]

LEMMA EntryType == \A n \in 1..Len(Script) : Script[n] \in Entries
<1>1. Script \in Seq(Entries)
  BY ScriptAssumption DEF Entries
<1> QED BY <1>1, ElementOfSeq

Reads(f, m) == f = [n \in 0..m |-> IF n = 0 THEN NoTurn ELSE ReadEntry(f[n - 1], Script[n])]

LEMMA ReadsOneMore ==
    ASSUME NEW m \in Nat \ {0}, NEW f, Reads(f, m - 1)
    PROVE  \E g : Reads(g, m)
<1> DEFINE g == [n \in 0..m |-> IF n = m THEN ReadEntry(f[m - 1], Script[m]) ELSE f[n]]
           E(n) == IF n = 0 THEN NoTurn ELSE ReadEntry(g[n - 1], Script[n])
<1>1. \A n \in 0..m - 1 : f[n] = IF n = 0 THEN NoTurn ELSE ReadEntry(f[n - 1], Script[n])
  BY DEF Reads
<1>2. /\ g[m] = ReadEntry(f[m - 1], Script[m]) /\ m # 0
      /\ \A n \in 0..m : n # m => n \in 0..m - 1 /\ g[n] = f[n]
      /\ \A n \in 0..m : n # 0 => n - 1 \in 0..m - 1 /\ g[n - 1] = f[n - 1]
  OBVIOUS
<1>3. g = [n \in 0..m |-> g[n]]
  OBVIOUS
<1> HIDE DEF g
<1>4. \A n \in 0..m : g[n] = E(n)
  <2> TAKE n \in 0..m
  <2>1. CASE n = m
    BY <1>2, <2>1
  <2>2. CASE n # m
    BY <1>1, <1>2, <2>2
  <2> QED BY <2>1, <2>2
<1>5. [n \in 0..m |-> g[n]] = [n \in 0..m |-> E(n)]
  <2> HIDE DEF E
  <2> QED BY <1>4
<1>6. Reads(g, m)
  BY <1>3, <1>5, Zenon DEF Reads
<1> QED BY <1>6

LEMMA TurnUnfolds ==
    \A n \in 0..Len(Script) : Turn[n] = IF n = 0 THEN NoTurn ELSE ReadEntry(Turn[n - 1], Script[n])
<1> DEFINE Bad == {m \in Nat : ~(\E f : Reads(f, m))}
<1>1. Bad = {}
  <2> SUFFICES ASSUME Bad # {} PROVE FALSE
    OBVIOUS
  <2>1. Bad \subseteq Nat
    OBVIOUS
  <2>2. PICK m \in Bad : \A k \in Bad : m <= k
    <3> HIDE DEF Bad
    <3> QED BY <2>1, Least
  <2>3. m # 0
    <3>1. Reads([n \in 0..0 |-> NoTurn], 0)
      <4>1. \A n \in 0..0 : n = 0
        OBVIOUS
      <4> QED BY <4>1 DEF Reads
    <3> QED BY <2>2, <3>1
  <2>4. m - 1 \in Nat /\ m - 1 \notin Bad /\ m \in Nat \ {0}
    BY <2>2, <2>3
  <2>5. PICK f : Reads(f, m - 1)
    BY <2>4
  <2>6. \E g : Reads(g, m)
    BY <2>4, <2>5, ReadsOneMore
  <2> QED BY <2>2, <2>6
<1>2. \E f : Reads(f, Len(Script))
  <2>1. Len(Script) \in Nat
    BY ScriptAssumption, LenProperties
  <2> QED BY <1>1, <2>1
<1>3. Reads(Turn, Len(Script))
  BY <1>2, Zenon DEF Turn, Reads
<1> DEFINE f == Turn
<1>4. Reads(f, Len(Script))
  BY <1>3
<1> HIDE DEF f
<1>5. \A n \in 0..Len(Script) : f[n] = IF n = 0 THEN NoTurn ELSE ReadEntry(f[n - 1], Script[n])
  BY <1>4 DEF Reads
<1> QED BY <1>5 DEF f

\* Blocks joined are a text, and what is clean stays so.
LEMMA JoinText ==
    ASSUME NEW all \in Texts, NEW block \in Texts
    PROVE  JoinBlock(all, block) \in Texts /\ (Clean(all) /\ Clean(block) => Clean(JoinBlock(all, block)))
<1> DEFINE gap == <<NL, NL>>
           left == all \o gap
<1> all \in Seq(Letters) /\ block \in Seq(Letters)
  BY DEF Texts
<1>0. NL \in Letters /\ NL \notin Stale
  BY LettersAssumption
<1>1. gap \in Seq(Letters) /\ Len(gap) = 2 /\ \A i \in 1..2 : gap[i] = NL
  BY <1>0
<1> HIDE DEF gap
<1>2. /\ left \in Seq(Letters) /\ Len(left) = Len(all) + 2
      /\ \A i \in 1..Len(all) + 2 : left[i] = IF i <= Len(all) THEN all[i] ELSE gap[i - Len(all)]
  <2>1. /\ left \in Seq(Letters) /\ Len(left) = Len(all) + Len(gap)
        /\ \A i \in 1..Len(all) + Len(gap) : left[i] = IF i <= Len(all) THEN all[i] ELSE gap[i - Len(all)]
    BY <1>1, ConcatProperties
  <2> QED BY <1>1, <2>1
<1> HIDE DEF left
<1>3. /\ left \o block \in Seq(Letters) /\ Len(left \o block) = Len(left) + Len(block)
      /\ \A i \in 1..Len(left) + Len(block) : (left \o block)[i] = IF i <= Len(left) THEN left[i] ELSE block[i - Len(left)]
  <2>1. left \in Seq(Letters)
    BY <1>2
  <2> QED BY <2>1, ConcatProperties
<1>4. Len(all) \in Nat /\ Len(block) \in Nat
  BY DEF Texts
<1>5. Clean(all) => Clean(left)
  <2> SUFFICES ASSUME Clean(all), NEW i \in 1..Len(all) + 2 PROVE left[i] \notin Stale
    BY <1>2 DEF Clean
  <2>1. CASE i <= Len(all)
    BY <1>2, <1>4, <2>1 DEF Clean
  <2>2. CASE ~(i <= Len(all))
    <3>1. i - Len(all) \in 1..2
      BY <1>4, <2>2
    <3> QED BY <1>0, <1>1, <1>2, <2>2, <3>1
  <2> QED BY <2>1, <2>2
<1>6. Clean(left) /\ Clean(block) => Clean(left \o block)
  <2> SUFFICES ASSUME Clean(left), Clean(block), NEW i \in 1..Len(left) + Len(block)
               PROVE  (left \o block)[i] \notin Stale
    BY <1>3 DEF Clean
  <2>1. Len(left) \in Nat
    BY <1>2, <1>4
  <2>2. CASE i <= Len(left)
    BY <1>3, <1>4, <2>1, <2>2 DEF Clean
  <2>3. CASE ~(i <= Len(left))
    <3>1. i - Len(left) \in 1..Len(block)
      BY <1>4, <2>1, <2>3
    <3> QED BY <1>3, <2>3, <3>1 DEF Clean
  <2> QED BY <2>2, <2>3
<1>7. JoinBlock(all, block) \in {block, all, left \o block}
  BY DEF JoinBlock, left, gap
<1> QED BY <1>3, <1>5, <1>6, <1>7 DEF Texts

LEMMA ReadEntryType ==
    ASSUME NEW turn \in Turns, NEW entry \in Entries
    PROVE  ReadEntry(turn, entry) \in Turns
<1> USE DEF Turns, Entries, ReadEntry
<1>1. JoinBlock(turn.text, Trim(entry.text)) \in Texts
  <2>1. turn.text \in Texts /\ entry.text \in Texts
    OBVIOUS
  <2> QED BY <2>1, TrimText, JoinText
<1>2. NoTurn \in Turns
  BY DEF NoTurn, Texts
<1> HIDE DEF Texts
<1>3. CASE entry.role = "user"
  BY <1>2, <1>3
<1>4. CASE entry.role # "user" /\ (~turn.begun \/ entry.role = "tool")
  BY <1>4
<1>5. CASE entry.role # "user" /\ turn.begun /\ entry.role # "tool"
  BY <1>1, <1>5
<1> QED BY <1>3, <1>4, <1>5

LEMMA TurnType == \A n \in 0..Len(Script) : Turn[n] \in Turns
<1>0. Len(Script) \in Nat
  BY ScriptAssumption, LenProperties
<1> DEFINE Bad == {n \in 0..Len(Script) : Turn[n] \notin Turns}
<1> SUFFICES ASSUME Bad # {} PROVE FALSE
  OBVIOUS
<1>1. Bad \subseteq Nat
  BY <1>0
<1>2. PICK n \in Bad : \A k \in Bad : n <= k
  <2> HIDE DEF Bad
  <2> QED BY <1>1, Least
<1>3. CASE n = 0
  <2>1. 0 \in 0..Len(Script)
    BY <1>0
  <2>2. Turn[0] = NoTurn
    BY <2>1, TurnUnfolds
  <2>3. NoTurn \in Turns
    BY DEF NoTurn, Turns, Texts
  <2> QED BY <1>2, <1>3, <2>2, <2>3
<1>4. CASE n # 0
  <2>1. n - 1 \in 0..Len(Script) /\ n \in 1..Len(Script) /\ n - 1 \notin Bad
    BY <1>0, <1>2, <1>4
  <2>2. Turn[n] = ReadEntry(Turn[n - 1], Script[n])
    BY <1>2, <1>4, TurnUnfolds
  <2> QED BY <1>2, <2>1, <2>2, EntryType, ReadEntryType
<1> QED BY <1>3, <1>4

\* An entry before the user's message of this turn makes no turn newer than the
\* message; that message clears what was read, and what follows it is clean.
LEMMA ReadEntryClean ==
    ASSUME NEW turn \in Turns, NEW entry \in Entries
    PROVE  /\ turn.ts <= Asked /\ entry.ts <= Asked => ReadEntry(turn, entry).ts <= Asked
           /\ (entry.role = "user" \/ Clean(turn.text)) /\ Clean(entry.text) => Clean(ReadEntry(turn, entry).text)
<1>0. turn.text \in Texts /\ entry.text \in Texts /\ turn.ts \in Nat /\ entry.ts \in Nat
  BY DEF Turns, Entries
<1>1. NoTurn.ts = 0 /\ Clean(NoTurn.text) /\ Asked \in Nat
  BY TurnAssumption DEF NoTurn, Clean
<1>2. CASE entry.role = "user"
  <2>1. ReadEntry(turn, entry).ts = 0 /\ ReadEntry(turn, entry).text = NoTurn.text
    BY <1>2 DEF ReadEntry, NoTurn
  <2> QED BY <1>1, <2>1
<1>3. CASE entry.role # "user" /\ (~turn.begun \/ entry.role = "tool")
  <2>1. ReadEntry(turn, entry).ts = turn.ts /\ ReadEntry(turn, entry).text = turn.text
    BY <1>3 DEF ReadEntry, Turns
  <2> QED BY <1>3, <2>1
<1>4. CASE entry.role # "user" /\ turn.begun /\ entry.role # "tool"
  <2>1. /\ ReadEntry(turn, entry).ts = entry.ts
        /\ ReadEntry(turn, entry).text = JoinBlock(turn.text, Trim(entry.text))
    BY <1>4 DEF ReadEntry, Turns
  <2>2. Clean(entry.text) => Clean(Trim(entry.text))
    BY <1>0, TrimText
  <2> QED BY <1>0, <1>4, <2>1, <2>2, TrimText, JoinText
<1> QED BY <1>2, <1>3, <1>4

LEMMA TurnClean == \A n \in 0..Len(Script) : Turn[n].ts > Asked => Clean(Turn[n].text)
<1>0. Len(Script) \in Nat /\ Asked \in Nat
  BY ScriptAssumption, LenProperties, TurnAssumption
<1>1. PICK first \in 1..Len(Script) + 1 :
        /\ first <= Len(Script) => Script[first].role = "user"
        /\ \A i \in 1..Len(Script) : IF i < first THEN Script[i].ts <= Asked ELSE Clean(Script[i].text)
  BY TurnAssumption
<1> DEFINE Good(n) == IF n < first THEN Turn[n].ts <= Asked ELSE Clean(Turn[n].text)
           Bad     == {n \in 0..Len(Script) : ~Good(n)}
<1>2. Bad = {}
  <2> SUFFICES ASSUME Bad # {} PROVE FALSE
    OBVIOUS
  <2>1. Bad \subseteq Nat
    BY <1>0
  <2>2. PICK n \in Bad : \A k \in Bad : n <= k
    <3> HIDE DEF Bad
    <3> QED BY <2>1, Least
  <2>3. CASE n = 0
    <3>1. Turn[0] = NoTurn /\ 0 < first
      BY <1>0, <1>1, TurnUnfolds
    <3>2. NoTurn.ts <= Asked
      BY <1>0 DEF NoTurn
    <3> QED BY <2>2, <2>3, <3>1, <3>2
  <2>4. CASE n # 0
    <3>1. n \in 0..Len(Script) /\ n - 1 \in 0..Len(Script) /\ n \in 1..Len(Script) /\ n - 1 \notin Bad
      BY <1>0, <2>2, <2>4
    <3>2. Turn[n] = ReadEntry(Turn[n - 1], Script[n])
      BY <2>4, <3>1, TurnUnfolds
    <3>3. Turn[n - 1] \in Turns /\ Script[n] \in Entries
      BY <3>1, TurnType, EntryType
    <3>4. Good(n - 1)
      BY <3>1
    <3>5. CASE n < first
      <4>1. Turn[n - 1].ts <= Asked /\ Script[n].ts <= Asked
        BY <1>1, <3>1, <3>4, <3>5
      <4>2. Turn[n].ts <= Asked
        BY <3>2, <3>3, <4>1, ReadEntryClean
      <4> QED BY <2>2, <3>5, <4>2
    <3>6. CASE ~(n < first)
      <4>1. Clean(Script[n].text)
        BY <1>1, <3>1, <3>6
      <4>2. Script[n].role = "user" \/ Clean(Turn[n - 1].text)
        <5>1. CASE n = first
          BY <1>1, <3>1, <5>1
        <5>2. CASE n # first
          <6>1. ~(n - 1 < first)
            BY <1>1, <3>1, <3>6, <5>2
          <6> QED BY <3>4, <6>1
        <5> QED BY <5>1, <5>2
      <4>3. Clean(Turn[n].text)
        BY <3>2, <3>3, <4>1, <4>2, ReadEntryClean
      <4> QED BY <2>2, <3>6, <4>3
    <3> QED BY <3>5, <3>6
  <2> QED BY <2>3, <2>4
<1> SUFFICES ASSUME NEW n \in 0..Len(Script), Turn[n].ts > Asked PROVE Clean(Turn[n].text)
  OBVIOUS
<1>3. Good(n)
  BY <1>2
<1>4. Turn[n].ts \in Nat
  BY TurnType DEF Turns
<1> QED BY <1>0, <1>3, <1>4

\* What a poll reads, and that it is of this turn when it is newer than the message.
LEMMA ReadingType ==
    ASSUME NEW n \in 0..Len(Script)
    PROVE  /\ Reading[n].found \in Found /\ Reading[n].ts \in Nat /\ Reading[n].complete \in BOOLEAN
           /\ Reading[n].ts > Asked => Clean(Reading[n].found.text)
<1>1. Turn[n] \in Turns /\ (Turn[n].ts > Asked => Clean(Turn[n].text))
  BY TurnType, TurnClean
<1> HIDE DEF Texts
<1>2. /\ Reading[n].found.text = Turn[n].text /\ Reading[n].ts = Turn[n].ts
      /\ Reading[n].complete = (Turn[n].ts > 0 /\ ~Turn[n].more)
      /\ Reading[n].found \in Found
  BY <1>1 DEF Reading, Turns, Found
<1> QED BY <1>1, <1>2 DEF Turns

----------------------------------------------------------------------------
(* The inductive invariant of the chunks.                                     *)

LEMMA SaidIsSay == Said = Say(replies) /\ Said' = Say(replies')
BY DEF Said, Say, TextsOf

\* what the invariant says of the collected replies until the turn ends
LEMMA Collecting ==
    ASSUME ChunkInv, phase # "done"
    PROVE  /\ Fits(Collected(replies, chunkSeq, assembled, pending))
           /\ Say(replies) = assembled /\ stream = assembled /\ outcome = "none"
           /\ assembled = <<>> => replies = <<>>
<1>1. outcome = "none" /\ Said = assembled /\ stream = assembled /\ (assembled = <<>> => replies = <<>>)
  BY DEF ChunkInv, Told
<1>2. chunkSeq = Len(replies) /\ \A i \in 1..Len(replies) : replies[i].seq = i /\ replies[i].final = FALSE
  BY <1>1 DEF ChunkInv, ChunksAreNumbered
<1>3. replies \in Seq(Chunks) /\ assembled \in Texts /\ pending \in Texts
  BY DEF ChunkInv, TypeOK, Replies
<1> HIDE DEF Chunks, Texts
<1>4. Fits(Collected(replies, chunkSeq, assembled, pending))
  BY <1>2, <1>3 DEF Fits, Collected, Numbered
<1> QED BY <1>1, <1>4, SaidIsSay

LEMMA InitChunks == Init => ChunkInv
<1> SUFFICES ASSUME Init PROVE ChunkInv
  OBVIOUS
<1>1. Len(replies) = 0 /\ Said = <<>>
  BY SayNothing, SaidIsSay DEF Init
<1>2. <<>> \in Seq(Chunks) /\ <<>> \in Texts /\ Nothing \in Found /\ Len(Script) \in Nat
  BY ScriptAssumption, LenProperties DEF Texts, Nothing, Found
<1>3. TypeOK
  <2>1. replies \in Replies /\ assembled \in Texts /\ pending \in Texts /\ stream \in Texts /\ told \subseteq Texts /\ best \in Found
    BY <1>2 DEF Init, Replies
  <2> HIDE DEF Replies, Texts, Found
  <2>2. count \in 0..MaxEvents /\ chunkSeq \in Nat /\ minAfter \in Nat
    BY MaxEventsAssumption DEF Init
  <2>3. /\ phase \in {"connect", "subscribe", "send", "collect", "lookup", "finish", "done"}
        /\ outcome \in {"none", "replies", "error"} /\ fin \in {"none"} \cup Finishes
    BY DEF Init
  <2>4. written \in 0..Len(Script) /\ verified \in BOOLEAN /\ known \in BOOLEAN /\ attachments \subseteq Media
    BY DEF Init
  <2> QED BY <2>1, <2>2, <2>3, <2>4 DEF TypeOK
<1>4. ChunksAreNumbered
  <2>1. \A i \in 1..0 : FALSE
    OBVIOUS
  <2> QED BY <1>1, <2>1 DEF Init, ChunksAreNumbered
<1>5. Told /\ StreamIsWhole /\ SnapshotIsWhole
  BY <1>1 DEF Init, Told, StreamIsWhole, SnapshotIsWhole
<1> QED BY <1>3, <1>4, <1>5 DEF ChunkInv

LEMMA EventType ==
    ASSUME NEW e \in Events
    PROVE  /\ e.text \in Texts /\ e.user \in Nat /\ e.ts \in Nat /\ e.media \subseteq Media
           /\ e.mine \in BOOLEAN /\ e.sess \in BOOLEAN /\ e.sid \in BOOLEAN
           /\ e.fin \in {"no"} \cup Finishes
<1>1. e \in [mine : BOOLEAN, sess : BOOLEAN, sid : BOOLEAN, user : Nat,
             mode : {"none", "delta", "snapshot"}, text : Texts, ts : Nat,
             media : SUBSET Media, fin : {"no"} \cup Finishes]
  BY EventsAssumption
<1> HIDE DEF Texts, Finishes
<1> QED BY <1>1

\* an event adds to the assembled text what it says, as a chunk
LEMMA EventChunks ==
    ASSUME ChunkInv, NEW e \in Events, HandleEvent(e)
    PROVE  ChunkInv'
<1>1. /\ Fits(Collected(replies, chunkSeq, assembled, pending))
      /\ Say(replies) = assembled /\ outcome = "none" /\ (assembled = <<>> => replies = <<>>)
  BY Collecting DEF HandleEvent
<1>2. Numbered(replies) /\ chunkSeq = Len(replies) /\ assembled \in Texts /\ pending \in Texts
  BY <1>1 DEF Fits, Collected
<1> DEFINE new == IF e.mode = "delta" THEN IncrementalReplyText(assembled, e.text)
                                      ELSE [delta |-> <<>>, next |-> assembled]
<1>3. new.delta \in Texts /\ new.next \in Texts /\ new.next = assembled \o new.delta
  <2>1. <<>> \in Texts /\ assembled \o <<>> = assembled
    BY <1>2, ConcatEmptySeq, EmptySeq DEF Texts
  <2>2. e.text \in Texts
    BY EventType
  <2> QED BY <1>2, <2>1, <2>2, IncrementalText
<1>4. /\ assembled' = new.next /\ stream' = new.next
      /\ replies' = Emit(replies, chunkSeq, new.delta) /\ chunkSeq' = NextSeq(chunkSeq, new.delta)
  BY DEF HandleEvent
\* what the gateway told can be read in what is assembled
<1>12. told' \subseteq Texts /\ \A text \in told' : text \in SubSeqs(assembled')
  <2>1. told \subseteq Texts /\ \A text \in told : text \in SubSeqs(assembled)
    BY <1>1, SaidIsSay DEF ChunkInv, TypeOK, StreamIsWhole
  <2>2. e.text \in Texts /\ Trim(e.text) \in Texts
    BY EventType, TrimText
  <2>3. SubSeqs(assembled) \subseteq SubSeqs(new.next)
    <3> HIDE DEF new
    <3> QED BY <1>2, <1>3, ReadsOn
  <2>4. e.mode = "delta" => Trim(e.text) \in SubSeqs(new.next)
    BY <1>2, <2>2, IncrementalSays
  <2>5. assembled' = new.next
    BY <1>4
  <2>6. told' = IF e.mode = "delta" THEN told \cup {Trim(e.text)} ELSE told
    BY DEF HandleEvent
  <2> HIDE DEF new, Texts
  <2> QED BY <2>1, <2>2, <2>3, <2>4, <2>5, <2>6
<1> DEFINE delta == new.delta
<1> HIDE DEF new
<1>5. delta \in Texts
  BY <1>3
<1>6. /\ assembled' = assembled \o delta
      /\ replies' = Emit(replies, Len(replies), delta) /\ chunkSeq' = NextSeq(Len(replies), delta)
  BY <1>2, <1>3, <1>4
<1> HIDE DEF delta
<1>7. /\ Numbered(replies') /\ chunkSeq' = Len(replies') /\ Say(replies') = assembled'
      /\ assembled' \in Texts /\ stream' = assembled'
      /\ assembled' = <<>> => replies' = <<>>
  <2>1. /\ Numbered(replies') /\ chunkSeq' = Len(replies')
        /\ Say(replies') = Say(replies) \o delta
        /\ replies' = <<>> <=> replies = <<>> /\ delta = <<>>
    BY <1>1, <1>2, <1>5, <1>6, EmitNumbered
  <2>2. assembled \o delta = <<>> => assembled = <<>> /\ delta = <<>>
    BY <1>2, <1>5, ConcatEqualIffEmpty DEF Texts
  <2> QED BY <1>1, <1>3, <1>4, <1>6, <2>1, <2>2
<1>8. outcome' = "none" /\ phase' \in {"collect", "lookup", "finish"}
  BY <1>1 DEF HandleEvent
<1>9. TypeOK'
  <2>1. replies' \in Replies /\ chunkSeq' \in Nat /\ stream' \in Texts
    BY <1>7, LenProperties DEF Numbered, Replies
  <2>2. pending' \in Texts
    BY <1>2, EventType, TrimText DEF HandleEvent
  <2>3. attachments' \subseteq Media /\ fin' \in {"none"} \cup Finishes /\ minAfter' \in Nat /\ known' \in BOOLEAN
    BY EventType DEF HandleEvent, ChunkInv, TypeOK
  <2>4. verified' \in BOOLEAN /\ count' \in 0..MaxEvents
    BY MaxEventsAssumption DEF HandleEvent, ChunkInv, TypeOK, TakesSnapshot
  <2>5. written' \in 0..Len(Script) /\ best' \in Found
    BY DEF HandleEvent, ChunkInv, TypeOK
  <2> HIDE DEF Texts, Replies, Finishes, Found
  <2> QED BY <1>7, <1>8, <1>12, <2>1, <2>2, <2>3, <2>4, <2>5 DEF TypeOK
<1>10. ChunksAreNumbered'
  BY <1>7, <1>8 DEF ChunksAreNumbered, Numbered
<1>11. Told' /\ StreamIsWhole' /\ SnapshotIsWhole'
  BY <1>7, <1>8, <1>12, SaidIsSay DEF Told, StreamIsWhole, SnapshotIsWhole
<1> QED BY <1>9, <1>10, <1>11 DEF ChunkInv

\* the end of the turn merges snapshot and transcript into what was collected
LEMMA FinishChunks ==
    ASSUME ChunkInv, Finish
    PROVE  ChunkInv'
<1> DEFINE c0 == Collected(replies, chunkSeq, assembled, pending)
           c1 == MergeTranscript(c0, best.text)
           c2 == MergeSnapshot(c1)
           c  == NonEmpty(c2)
<1>1. /\ Fits(c0) /\ Say(replies) = assembled /\ stream = assembled
      /\ assembled = <<>> => replies = <<>>
  BY Collecting DEF Finish
<1>2. /\ c0.list = replies /\ c0.text = assembled /\ c0.snapshot = pending
      /\ best.text \in Texts
  BY DEF Collected, ChunkInv, TypeOK, Found
<1>3. PICK failed \in SUBSET (attachments' \cap Local) : replies' = MarkFinal(c.list, attachments', failed)
  BY DEF Finish
<1>4. /\ chunkSeq' = c.seq /\ assembled' = c.text /\ pending' = c.snapshot
      /\ phase' = "done" /\ outcome' = "replies" /\ stream' = stream /\ best' = best /\ told' = told
  BY DEF Finish, Return
<1> HIDE DEF c0
<1>5. /\ Fits(c1) /\ (Whole(c0) => Whole(c1)) /\ (Blank(best.text) => c1 = c0)
  BY <1>1, <1>2, MergeTranscriptFits
<1>14. /\ Keeps(c0, c1)
       /\ Whole(c0) /\ ~Blank(best.text) => Trim(best.text) \in SubSeqs(Say(c1.list))
  BY <1>1, <1>2, MergeTranscriptKeeps
<1> HIDE DEF c1
<1>6. /\ Fits(c2) /\ (Whole(c1) => Whole(c2)) /\ c2.snapshot = c1.snapshot
      /\ c1.list = <<>> /\ c1.snapshot # <<>> => Len(c2.list) = 1 /\ Say(c2.list) = c1.snapshot
  BY <1>5, MergeSnapshotFits
<1>15. Keeps(c1, c2)
  BY <1>5, MergeSnapshotKeeps
<1> HIDE DEF c2
<1>7. Fits(c) /\ c.list # <<>> /\ c.snapshot = c2.snapshot /\ (c2.list # <<>> => c = c2)
  BY <1>6, NonEmptyFits
<1>16. Keeps(c2, c)
  BY <1>6, NonEmptyKeeps
<1> HIDE DEF c
<1>8. Numbered(c.list) /\ c.seq = Len(c.list) /\ c.text \in Texts /\ c.snapshot \in Texts
  BY <1>7 DEF Fits
<1>9. /\ replies' \in Seq(Chunks) /\ Len(replies') = Len(c.list) /\ replies' # <<>>
      /\ Say(replies') = Say(c.list)
      /\ \A i \in 1..Len(c.list) : replies'[i].seq = i /\ replies'[i].final = (i = Len(c.list))
  <2>1. fin \in {"none"} \cup Finishes
    BY DEF ChunkInv, TypeOK
  <2> QED BY <1>3, <1>7, <1>8, <2>1, MarkFinalSays
<1>10. TypeOK'
  <2>1. replies' \in Replies /\ chunkSeq' \in Nat
    BY <1>4, <1>8, <1>9, LenProperties DEF Replies, Numbered
  <2>2. attachments' \subseteq Media
    BY DEF Finish, ChunkInv, TypeOK, Found
  <2>3. verified' \in BOOLEAN
    BY DEF Finish, ChunkInv, TypeOK
  <2>4. /\ written' \in 0..Len(Script) /\ count' \in 0..MaxEvents /\ stream' \in Texts /\ known' \in BOOLEAN
        /\ told' \subseteq Texts
        /\ minAfter' \in Nat /\ fin' \in {"none"} \cup Finishes /\ best' \in Found
    BY DEF Finish, ChunkInv, TypeOK
  <2> HIDE DEF Texts, Replies, Finishes, Found
  <2> QED BY <1>4, <1>8, <2>1, <2>2, <2>3, <2>4 DEF TypeOK
<1>11. ChunksAreNumbered'
  BY <1>4, <1>8, <1>9 DEF ChunksAreNumbered
\* everything that could be read before can be read now
<1>17. /\ SubSeqs(Said) \subseteq SubSeqs(Said')
       /\ ~Blank(stream) /\ ~Blank(best.text) => Trim(best.text) \in SubSeqs(Said')
  <2>1. Said = Say(c0.list) /\ Said' = Say(c.list) /\ Say(c0.list) \in Texts
    <3>1. assembled \in Texts
      BY DEF ChunkInv, TypeOK
    <3> QED BY <1>1, <1>2, <1>9, <3>1, SaidIsSay
  <2>2. ~Blank(stream) => Whole(c0)
    BY <1>1, <1>2 DEF Whole
  <2>3. SubSeqs(Say(c0.list)) \subseteq SubSeqs(Say(c1.list)) /\ Say(c1.list) \in Texts
    BY <1>14, <2>1 DEF Keeps
  <2>4. SubSeqs(Say(c1.list)) \subseteq SubSeqs(Say(c.list))
    BY <1>15, <1>16, <2>3 DEF Keeps
  <2> QED BY <1>14, <2>1, <2>2, <2>3, <2>4
<1>18. \A text \in told : text \in SubSeqs(Said')
  BY <1>17 DEF ChunkInv, StreamIsWhole
<1>12. StreamIsWhole'
  <2> SUFFICES ASSUME ~Blank(stream) PROVE Said' = assembled'
    BY <1>4, <1>17, <1>18 DEF StreamIsWhole
  <2>1. Whole(c0)
    BY <1>1, <1>2 DEF Whole
  <2>2. Whole(c2)
    BY <1>5, <1>6, <2>1
  <2>3. c2.list # <<>>
    <3> SUFFICES ASSUME c2.list = <<>> PROVE FALSE
      OBVIOUS
    <3>1. c2.text = <<>>
      BY <2>2, SayNothing DEF Whole
    <3> QED BY <2>2, <3>1 DEF Whole, Blank
  <2> QED BY <1>4, <1>7, <1>9, <2>2, <2>3, SaidIsSay DEF Whole
<1>13. SnapshotIsWhole'
  <2> SUFFICES ASSUME stream = <<>>, pending' # <<>>, Blank(best.text)
               PROVE  Len(replies') = 1 /\ Said' = pending'
    BY <1>4 DEF SnapshotIsWhole
  <2>1. c1 = c0 /\ c1.list = <<>>
    BY <1>1, <1>2, <1>5
  <2>2. c1.snapshot = pending' /\ c1.snapshot # <<>>
    BY <1>4, <1>6, <1>7
  <2>3. Len(c2.list) = 1 /\ Say(c2.list) = pending'
    BY <1>6, <2>1, <2>2
  <2>4. c2.list # <<>>
    BY <2>3, EmptySeq
  <2> QED BY <1>7, <1>9, <2>3, <2>4, SaidIsSay
<1> QED BY <1>4, <1>10, <1>11, <1>12, <1>13 DEF ChunkInv

\* what a poll keeps
LEMMA PollType ==
    ASSUME ChunkInv, NEW expired \in BOOLEAN, PollTranscript(expired)
    PROVE  best' \in Found /\ phase' \in {"lookup", "finish"}
<1>1. written \in 0..Len(Script) /\ best \in Found
  BY DEF ChunkInv, TypeOK
<1>2. Reading[written].found \in Found
  BY <1>1, ReadingType
<1> HIDE DEF Found, Reading
<1> QED BY <1>1, <1>2 DEF PollTranscript

LEMMA NextChunks == ChunkInv /\ [Next]_vars => ChunkInv'
<1> SUFFICES ASSUME ChunkInv, [Next]_vars PROVE ChunkInv'
  OBVIOUS
<1>0. TypeOK
  BY DEF ChunkInv
\* steps that collect nothing, before the end of the turn
<1>1. ASSUME phase # "done", phase' # "done", UNCHANGED <<outcome, collected>>, TypeOK'
      PROVE  ChunkInv'
  <2>1. Told /\ ChunksAreNumbered
    BY <1>1 DEF ChunkInv
  <2>2. Said' = Said
    BY <1>1 DEF Said, collected
  <2>3. Told' /\ ChunksAreNumbered'
    BY <1>1, <2>1, <2>2 DEF Told, ChunksAreNumbered, collected
  <2>4. told' = told /\ \A text \in told : text \in SubSeqs(Said)
    BY <1>1 DEF ChunkInv, StreamIsWhole, collected
  <2> QED BY <1>1, <2>2, <2>3, <2>4 DEF ChunkInv, Told, StreamIsWhole, SnapshotIsWhole
<1> HIDE DEF Texts, Replies, Finishes, Found
<1>2. CASE Respond
  <2>1. phase # "done" /\ phase' # "done" /\ TypeOK'
    BY <1>0, <1>2 DEF Respond, TypeOK, collected
  <2> QED BY <1>1, <1>2, <2>1 DEF Respond
<1>3. CASE Fails
  <2>1. TypeOK'
    BY <1>0, <1>3 DEF Fails, Return, TypeOK, collected
  <2>2. phase # "done" /\ phase' = "done" /\ outcome' = "error" /\ UNCHANGED collected
    BY <1>3 DEF Fails, Return
  <2>3. outcome = "none" /\ ChunksAreNumbered
    BY <2>2 DEF ChunkInv, Told
  <2>4. ChunksAreNumbered'
    BY <2>2, <2>3 DEF ChunksAreNumbered, collected
  <2>5. Said' = Said /\ told' = told /\ \A text \in told : text \in SubSeqs(Said)
    BY <2>2 DEF ChunkInv, StreamIsWhole, Said, collected
  <2> QED BY <2>1, <2>2, <2>4, <2>5 DEF ChunkInv, StreamIsWhole, SnapshotIsWhole
<1>4. CASE \E e \in Events : HandleEvent(e)
  BY <1>4, EventChunks
<1>5. CASE \E e \in Events : SkipEvent(e)
  <2>1. phase # "done" /\ phase' # "done" /\ UNCHANGED <<outcome, collected>> /\ TypeOK'
    BY <1>0, <1>5, MaxEventsAssumption DEF SkipEvent, TypeOK, collected
  <2> QED BY <1>1, <2>1
<1>6. CASE \E expired \in BOOLEAN : PollTranscript(expired)
  <2>1. best' \in Found /\ phase' \in {"lookup", "finish"}
    BY <1>6, PollType
  <2>2. phase # "done" /\ UNCHANGED <<outcome, written, count, collected, fin>>
    BY <1>6 DEF PollTranscript
  <2>3. TypeOK'
    BY <1>0, <2>1, <2>2 DEF TypeOK, collected
  <2> QED BY <1>1, <2>1, <2>2, <2>3
<1>7. CASE PollFails
  <2>1. Nothing \in Found
    BY EmptySeq DEF Nothing, Found, Texts
  <2>2. phase # "done" /\ phase' # "done" /\ UNCHANGED <<outcome, collected>> /\ TypeOK'
    BY <1>0, <1>7, <2>1 DEF PollFails, TypeOK, collected
  <2> QED BY <1>1, <2>2
<1>8. CASE WriteTranscript
  <2>1. Len(Script) \in Nat
    BY ScriptAssumption, LenProperties
  <2>2. phase # "done" /\ phase' # "done" /\ UNCHANGED <<outcome, collected>> /\ TypeOK'
    BY <1>0, <1>8, <2>1 DEF WriteTranscript, TypeOK, collected
  <2> QED BY <1>1, <2>2
<1>9. CASE Finish
  BY <1>9, FinishChunks
<1>10. CASE UNCHANGED vars
  <2>1. Said' = Said
    BY <1>10 DEF Said, vars
  <2> QED BY <1>10, <2>1 DEF ChunkInv, TypeOK, ChunksAreNumbered, Told, StreamIsWhole, SnapshotIsWhole, vars
<1> QED BY <1>2, <1>3, <1>4, <1>5, <1>6, <1>7, <1>8, <1>9, <1>10 DEF Next, Done

THEOREM ChunkInvariance == Spec => []ChunkInv
BY InitChunks, NextChunks, PTL DEF Spec

\* Every variable stays in its set, for any texts, events and transcript.
THEOREM TypeCorrect == Spec => []TypeOK
<1>1. ChunkInv => TypeOK
  BY DEF ChunkInv
<1> QED BY ChunkInvariance, <1>1, PTL

\* The chunks are numbered without a gap and the last of a returned turn, no
\* other, is final, whatever the events and the merges add.
THEOREM ChunksNumbered == Spec => []ChunksAreNumbered
<1>1. ChunkInv => ChunksAreNumbered
  BY DEF ChunkInv
<1> QED BY ChunkInvariance, <1>1, PTL

\* The chunks say the assembled text, during the turn and after the merges of a
\* turn whose deltas said anything visible, and every delta, and then the transcript,
\* can be read in them.
THEOREM StreamWhole == Spec => []StreamIsWhole
<1>1. ChunkInv => StreamIsWhole
  BY DEF ChunkInv, StreamIsWhole, Told
<1> QED BY ChunkInvariance, <1>1, PTL

\* A turn told in snapshots alone is answered by one chunk, the last snapshot,
\* when the transcript has nothing.
THEOREM SnapshotWhole == Spec => []SnapshotIsWhole
<1>1. ChunkInv => SnapshotIsWhole
  BY DEF ChunkInv
<1> QED BY ChunkInvariance, <1>1, PTL

----------------------------------------------------------------------------
(* A turn that snapshots told and the transcript completes.                   *)

LEMMA TrimVisible == ASSUME NEW s \in Texts, ~Blank(s) PROVE Trim(s) # <<>> /\ s # <<>>
<1> DEFINE kept == {i \in 1..Len(s) : s[i] # NL}
<1>0. Len(s) \in Nat /\ s \in Seq(Letters)
  BY DEF Texts
<1>1. PICK i \in 1..Len(s) : s[i] \notin White
  BY DEF Blank
<1>2. i \in kept
  BY <1>1, LettersAssumption
<1>3. Min(kept) \in 1..Len(s) /\ Max(kept) \in 1..Len(s) /\ Min(kept) <= i /\ i <= Max(kept)
  BY <1>0, <1>2, Extremes
<1>4. Trim(s) = SubSeq(s, Min(kept), Max(kept))
  BY <1>2 DEF Trim
<1> HIDE DEF kept
<1>5. Len(SubSeq(s, Min(kept), Max(kept))) = Max(kept) - Min(kept) + 1
  BY <1>0, <1>3, SubSeqProperties
<1>6. Len(SubSeq(s, Min(kept), Max(kept))) # 0
  BY <1>0, <1>3, <1>5
<1>7. Len(s) # 0 /\ Len(<<>>) = 0
  BY <1>0, <1>1, EmptySeq
<1> QED BY <1>4, <1>6, <1>7

\* what one new chunk says behind others, and that no text adds none
LEMMA EmitSays ==
    ASSUME NEW list, Numbered(list), NEW delta \in Texts, Say(list) \in Texts
    PROVE  /\ Say(Emit(list, Len(list), delta)) = Say(list) \o delta
           /\ delta # <<>> => Emit(list, Len(list), delta) # <<>>
           /\ delta = <<>> => Emit(list, Len(list), delta) = list
<1>1. Say(Emit(list, Len(list), delta)) = Say(list) \o delta
  BY EmitNumbered
<1>2. delta # <<>> => Emit(list, Len(list), delta) # <<>>
  BY AppendNumbered DEF Emit
<1> QED BY <1>1, <1>2 DEF Emit

LEMMA SnapshotThenTranscript ==
    ASSUME NEW snapshot \in Texts, NEW transcript \in Texts, ~Blank(transcript)
    PROVE  LET current == Trim(transcript)
               c == MergeSnapshot(MergeTranscript(Collected(<<>>, 0, <<>>, snapshot), transcript))
           IN  /\ c.list # <<>>
               /\ Say(c.list) = IF Blank(snapshot) \/ snapshot = current THEN transcript
                                ELSE IF IsPrefix(snapshot, current)
                                       THEN SubSeq(current, Len(snapshot) + 1, Len(current))
                                       ELSE current \o current
<1> DEFINE current == Trim(transcript)
           c0  == Collected(<<>>, 0, <<>>, snapshot)
           c1  == MergeTranscript(c0, transcript)
           c   == MergeSnapshot(c1)
           new == IncrementalReplyText(snapshot, transcript)
<1>0. /\ current \in Texts /\ current # <<>> /\ transcript # <<>>
      /\ Len(snapshot) \in Nat /\ Len(current) \in Nat /\ Len(current) > 0
      /\ <<>> \in Texts /\ Say(<<>>) = <<>> /\ Blank(<<>>) /\ Numbered(<<>>) /\ Len(<<>>) = 0
  <2>1. current \in Texts /\ current # <<>> /\ transcript # <<>>
    BY TrimText, TrimVisible
  <2>2. Len(snapshot) \in Nat /\ Len(current) \in Nat /\ Len(current) # 0
    BY <2>1, EmptySeq, LenProperties DEF Texts
  <2>3. <<>> \in Texts /\ Len(<<>>) = 0 /\ <<>> \in Seq(Chunks)
    BY EmptySeq DEF Texts
  <2>4. Blank(<<>>) /\ Numbered(<<>>)
    BY <2>3 DEF Blank, Numbered
  <2> HIDE DEF current
  <2> QED BY <2>1, <2>2, <2>3, <2>4, SayNothing
<1> SUFFICES /\ c.list # <<>>
             /\ Say(c.list) = IF Blank(snapshot) \/ snapshot = current THEN transcript
                              ELSE IF IsPrefix(snapshot, current)
                                     THEN SubSeq(current, Len(snapshot) + 1, Len(current))
                                     ELSE current \o current
  OBVIOUS
<1> HIDE DEF current
<1>1. Fits(c0) /\ c0.list = <<>> /\ c0.seq = 0 /\ c0.text = <<>> /\ c0.snapshot = snapshot
  BY <1>0 DEF Fits, Collected
<1>2. Fits(c1) /\ c1.snapshot = transcript
  BY <1>1, MergeTranscriptFits
\* nothing was said yet: the transcript is
<1>3. c1.list = <<>> => Len(c.list) = 1 /\ Say(c.list) = transcript
  <2> HIDE DEF c1
  <2> QED BY <1>0, <1>2, MergeSnapshotFits
<1>4. CASE Blank(snapshot)
  <2>1. c1 = [c0 EXCEPT !.snapshot = transcript]
    BY <1>0, <1>1, <1>4 DEF MergeTranscript
  <2>2. c1.list = <<>>
    BY <1>1, <2>1 DEF Collected
  <2>3. Len(c.list) = 1 /\ Say(c.list) = transcript
    BY <1>3, <2>2
  <2> HIDE DEF c
  <2> QED BY <1>0, <1>4, <2>3, EmptySeq
<1>5. ASSUME ~Blank(snapshot)
      PROVE  /\ c1 = Collected(Emit(<<>>, 0, new.delta), NextSeq(0, new.delta), new.next, transcript)
             /\ new.delta \in Texts /\ new.next = snapshot \o new.delta /\ new.next \in Texts
             /\ ~Blank(new.next) /\ snapshot # <<>> /\ <<>> \o new.delta = new.delta
  <2>1. new.delta \in Texts /\ new.next = snapshot \o new.delta /\ new.next \in Texts
    BY IncrementalText
  <2>2. c1 = Collected(Emit(<<>>, 0, new.delta), NextSeq(0, new.delta), new.next, transcript)
    BY <1>0, <1>1, <1>5 DEF MergeTranscript
  <2> HIDE DEF new, c1
  <2> QED BY <1>5, <2>1, <2>2, NotBlankAppend, ConcatEmptySeq DEF Texts
<1>6. CASE ~Blank(snapshot) /\ snapshot = current
  <2>1. new.delta = <<>>
    BY <1>0, <1>6 DEF IncrementalReplyText, current
  <2>2. c1.list = <<>>
    BY <1>5, <1>6, <2>1 DEF Collected, Emit
  <2>3. Len(c.list) = 1 /\ Say(c.list) = transcript
    BY <1>3, <2>2
  <2> HIDE DEF c
  <2> QED BY <1>0, <1>6, <2>3, EmptySeq
\* something was: what is new of the transcript is added to it
<1>7. ASSUME ~Blank(snapshot), new.delta # <<>>
      PROVE  LET more == IncrementalReplyText(new.next, transcript)
             IN  c.list # <<>> /\ Say(c.list) = new.delta \o more.delta
  <2> DEFINE more == IncrementalReplyText(new.next, transcript)
             list == Emit(<<>>, 0, new.delta)
  <2>1. list # <<>> /\ Say(list) = new.delta /\ Numbered(list) /\ NextSeq(0, new.delta) = Len(list)
    <3>1. new.delta \in Texts /\ <<>> \o new.delta = new.delta
      BY <1>5, <1>7
    <3> HIDE DEF new
    <3>2. Say(Emit(<<>>, Len(<<>>), new.delta)) = new.delta /\ Emit(<<>>, Len(<<>>), new.delta) # <<>>
      BY <1>0, <1>7, <3>1, EmitSays
    <3>3. /\ Numbered(Emit(<<>>, Len(<<>>), new.delta))
          /\ Len(Emit(<<>>, Len(<<>>), new.delta)) = NextSeq(Len(<<>>), new.delta)
      BY <1>0, <3>1, EmitNumbered
    <3> QED BY <1>0, <3>2, <3>3
  <2>2. c1.list = list /\ c1.text = new.next /\ c1.snapshot = transcript /\ c1.seq = Len(list)
    BY <1>5, <1>7, <2>1 DEF Collected
  <2>3. c.list = Emit(list, Len(list), more.delta)
    <3> HIDE DEF c1, list, new
    <3> QED BY <1>0, <1>5, <1>7, <2>1, <2>2 DEF MergeSnapshot, Collected
  <2>4. new.delta \in Texts /\ more.delta \in Texts
    <3>1. new.delta \in Texts /\ new.next \in Texts
      BY <1>5, <1>7
    <3> HIDE DEF new
    <3> QED BY <3>1, IncrementalText
  <2> HIDE DEF c, c1, list, new
  <2> HIDE DEF more
  <2>5. more.delta = <<>> => c.list = list
    BY <2>3 DEF Emit
  <2>6. /\ more.delta # <<>> => c.list # <<>>
        /\ Say(c.list) = new.delta \o more.delta
    BY <2>1, <2>3, <2>4, EmitSays
  <2> QED BY <2>1, <2>5, <2>6 DEF more
<1>8. CASE ~Blank(snapshot) /\ snapshot # current /\ IsPrefix(snapshot, current)
  <2>1. new = [delta |-> SubSeq(current, Len(snapshot) + 1, Len(current)), next |-> current]
    BY <1>0, <1>8 DEF IncrementalReplyText, current
  <2>2. new.delta # <<>>
    <3>1. new.next = current /\ new.next = snapshot \o new.delta
      BY <1>5, <1>8, <2>1
    <3>2. snapshot \o <<>> = snapshot
      BY ConcatEmptySeq DEF Texts
    <3> HIDE DEF new
    <3> QED BY <1>8, <3>1, <3>2
  <2>3. IncrementalReplyText(new.next, transcript).delta = <<>>
    BY <2>1 DEF IncrementalReplyText, current
  <2>4. new.delta \o <<>> = new.delta
    <3>1. new.delta \in Seq(Letters)
      BY <1>5, <1>8 DEF Texts
    <3> HIDE DEF new
    <3> QED BY <3>1, ConcatEmptySeq
  <2>5. c.list # <<>> /\ Say(c.list) = new.delta
    <3> HIDE DEF c, new
    <3> QED BY <1>0, <1>7, <1>8, <2>2, <2>3, <2>4
  <2> HIDE DEF c
  <2> QED BY <1>8, <2>1, <2>5
<1>9. CASE ~Blank(snapshot) /\ snapshot # current /\ ~IsPrefix(snapshot, current)
  <2>1. new = [delta |-> current, next |-> snapshot \o current]
    BY <1>0, <1>9 DEF IncrementalReplyText, current
  <2>2. Len(snapshot \o current) = Len(snapshot) + Len(current) /\ Len(snapshot) # 0
    BY <1>0, <1>5, <1>9, ConcatProperties, EmptySeq DEF Texts
  <2>3. current # snapshot \o current /\ ~IsPrefix(snapshot \o current, current)
    BY <1>0, <2>2 DEF IsPrefix
  <2>4. IncrementalReplyText(new.next, transcript).delta = current
    BY <1>0, <2>1, <2>3 DEF IncrementalReplyText, current
  <2>5. c.list # <<>> /\ Say(c.list) = current \o current
    <3>1. new.delta = current
      BY <2>1
    <3> HIDE DEF c, new
    <3> QED BY <1>0, <1>7, <1>9, <2>4, <3>1
  <2> HIDE DEF c
  <2> QED BY <1>9, <2>5
<1> HIDE DEF c
<1> QED BY <1>4, <1>6, <1>8, <1>9

\* Where the finding FinalTextIsSaid begins and ends: a turn told in snapshots says the
\* text of the transcript if no other text was seen before, and a part of it or it twice
\* if one was.
THEOREM TranscriptSaid == Spec => TranscriptIsSaid
<1>1. ASSUME ChunkInv, Finish, stream = <<>>, ~Blank(best.text)
      PROVE  LET current == Trim(best.text) IN
             Said' = IF Blank(pending) \/ pending = current THEN best.text
                     ELSE IF IsPrefix(pending, current)
                            THEN SubSeq(current, Len(pending) + 1, Len(current))
                            ELSE current \o current
  <2> DEFINE c0 == Collected(replies, chunkSeq, assembled, pending)
             c2 == MergeSnapshot(MergeTranscript(c0, best.text))
             c  == NonEmpty(c2)
  <2>1. Fits(c0) /\ assembled = <<>> /\ replies = <<>> /\ chunkSeq = 0
    <3>1. Fits(c0) /\ assembled = <<>> /\ replies = <<>>
      BY <1>1, Collecting DEF Finish
    <3>2. chunkSeq = Len(replies)
      BY <1>1 DEF ChunkInv, ChunksAreNumbered
    <3> QED BY <3>1, <3>2
  <2>2. best.text \in Texts /\ pending \in Texts /\ fin \in {"none"} \cup Finishes
    BY <1>1 DEF ChunkInv, TypeOK, Found
  <2>3. c0 = Collected(<<>>, 0, <<>>, pending)
    BY <2>1
  <2>4. PICK failed \in SUBSET (attachments' \cap Local) : replies' = MarkFinal(c.list, attachments', failed)
    BY <1>1 DEF Finish
  <2> HIDE DEF c0
  <2>5. Fits(c2)
    BY <2>1, <2>2, MergeTranscriptFits, MergeSnapshotFits
  <2>6. c2.list # <<>>
    BY <1>1, <2>2, <2>3, SnapshotThenTranscript
  <2> HIDE DEF c2
  <2>7. c = c2 /\ Numbered(c2.list)
    BY <2>5, <2>6, NonEmptyFits DEF Fits
  <2> HIDE DEF c
  <2>8. Say(replies') = Say(c2.list)
    BY <2>2, <2>4, <2>6, <2>7, MarkFinalSays
  <2> QED BY <1>1, <2>2, <2>3, <2>8, SaidIsSay, SnapshotThenTranscript DEF c2
<1>2. ChunkInv /\ [Next]_vars =>
        [Finish /\ stream = <<>> /\ ~Blank(best.text) =>
           LET current == Trim(best.text) IN
           Said' = IF Blank(pending) \/ pending = current THEN best.text
                   ELSE IF IsPrefix(pending, current)
                          THEN SubSeq(current, Len(pending) + 1, Len(current))
                          ELSE current \o current]_vars
  BY <1>1
<1> QED BY <1>2, ChunkInvariance, PTL DEF Spec, TranscriptIsSaid

----------------------------------------------------------------------------
(* No text of an earlier turn.                                                *)

LEMMA InitClean == Init => CleanInv
BY DEF Init, CleanInv, NoStaleReply, Clean, Nothing

\* a snapshot that is taken is clean, also before the user's message is known
LEMMA EventClean ==
    ASSUME ChunkInv, CleanInv, NEW e \in Events, HandleEvent(e)
    PROVE  CleanInv'
<1>1. e.user \in {0, Asked} /\ (e.mine \/ e.ts > Asked => Clean(e.text)) /\ Asked \in Nat \ {0}
  BY TurnAssumption
<1>2. minAfter' \in {0, Asked}
  BY <1>1 DEF HandleEvent, CleanInv
<1>3. phase = "collect" /\ best' = best /\ best = Nothing /\ Clean(pending)
  BY DEF HandleEvent, CleanInv
<1>4. Clean(pending')
  <2>1. CASE TakesSnapshot(e, minAfter')
    <3>1. e.mine \/ (minAfter' > 0 /\ e.ts > minAfter')
      BY <2>1 DEF TakesSnapshot, SnapshotBelongs
    <3>2. Clean(e.text)
      BY <1>1, <1>2, <3>1
    <3>3. pending' = Trim(e.text)
      BY <2>1 DEF HandleEvent
    <3> QED BY <3>2, <3>3, EventType, TrimText
  <2>2. CASE ~TakesSnapshot(e, minAfter')
    <3>1. pending' = pending
      BY <2>2 DEF HandleEvent
    <3> QED BY <1>3, <3>1
  <2> QED BY <2>1, <2>2
<1>5. Clean(best'.text) /\ best' = Nothing
  BY <1>3 DEF Nothing, Clean
<1> QED BY <1>2, <1>4, <1>5 DEF CleanInv, NoStaleReply

\* what a poll keeps is newer than the user's message
LEMMA PollClean ==
    ASSUME ChunkInv, CleanInv, NEW expired \in BOOLEAN, PollTranscript(expired)
    PROVE  CleanInv'
<1>1. /\ phase = "lookup" /\ phase' \in {"lookup", "finish"}
      /\ minAfter' = minAfter /\ pending' = pending
  BY DEF PollTranscript, collected
<1>2. ASSUME minAfter > 0 PROVE Clean(best'.text)
  <2>1. written \in 0..Len(Script) /\ Asked \in Nat \ {0} /\ minAfter = Asked /\ Clean(best.text)
    BY <1>2, TurnAssumption DEF ChunkInv, TypeOK, CleanInv
  <2>2. Reading[written].ts > Asked => Clean(Reading[written].found.text)
    BY <2>1, ReadingType
  <2>3. (best' = Reading[written].found /\ Fresh(Reading[written])) \/ best' = best
    <3> HIDE DEF Reading, Fresh
    <3> QED BY DEF PollTranscript
  <2> QED BY <2>1, <2>2, <2>3 DEF Fresh
<1>3. Clean(pending)
  BY <1>1 DEF CleanInv
<1> QED BY <1>1, <1>2, <1>3 DEF CleanInv, NoStaleReply

\* the snapshot of the finished turn is the pending one or the transcript's answer
LEMMA FinishClean ==
    ASSUME ChunkInv, CleanInv, Finish
    PROVE  CleanInv'
<1> DEFINE c0 == Collected(replies, chunkSeq, assembled, pending)
           c1 == MergeTranscript(c0, best.text)
           c2 == MergeSnapshot(c1)
           c  == NonEmpty(c2)
<1>1. phase = "finish" /\ phase' = "done" /\ minAfter' = minAfter /\ best' = best /\ pending' = c.snapshot
  BY DEF Finish, Return
<1>2. Fits(c0) /\ c0.snapshot = pending /\ best.text \in Texts
  BY <1>1, Collecting DEF Collected, ChunkInv, TypeOK, Found
<1> HIDE DEF c0
<1>3. /\ Fits(c1)
      /\ c1 = c0 \/ c1.snapshot = best.text
  BY <1>2, MergeTranscriptFits
<1> HIDE DEF c1
<1>4. Fits(c2) /\ c2.snapshot = c1.snapshot
  BY <1>3, MergeSnapshotFits
<1> HIDE DEF c2
<1>5. c.snapshot = c2.snapshot
  BY <1>4, NonEmptyFits
<1>6. pending' = pending \/ pending' = best.text
  BY <1>1, <1>2, <1>3, <1>4, <1>5
<1>7. Clean(pending) /\ (minAfter > 0 => Clean(best.text))
  BY <1>1 DEF CleanInv
<1> QED BY <1>1, <1>6, <1>7 DEF CleanInv, NoStaleReply

LEMMA NextClean == ChunkInv /\ CleanInv /\ [Next]_vars => CleanInv'
<1> SUFFICES ASSUME ChunkInv, CleanInv, [Next]_vars PROVE CleanInv'
  OBVIOUS
<1> USE DEF CleanInv, NoStaleReply
<1>1. CASE Respond \/ Fails
  BY <1>1 DEF Respond, Fails, Return, collected
<1>2. CASE \E e \in Events : HandleEvent(e)
  BY <1>2, EventClean
<1>3. CASE (\E e \in Events : SkipEvent(e)) \/ WriteTranscript \/ UNCHANGED vars
  BY <1>3 DEF SkipEvent, WriteTranscript, collected, vars
<1>4. CASE \E expired \in BOOLEAN : PollTranscript(expired)
  BY <1>4, PollClean
<1>5. CASE PollFails
  BY <1>5 DEF PollFails, collected, Nothing, Clean
<1>6. CASE Finish
  BY <1>6, FinishClean
<1> QED BY <1>1, <1>2, <1>3, <1>4, <1>5, <1>6 DEF Next, Done

\* Once the time of the user's message is known, the snapshot that may become the
\* reply is of this turn, whatever the order of events, entries and polls.
THEOREM NoStale == Spec => []NoStaleReply
<1>1. CleanInv => NoStaleReply
  BY DEF CleanInv
<1> QED BY InitChunks, NextChunks, InitClean, NextClean, <1>1, PTL DEF Spec
=============================================================================
