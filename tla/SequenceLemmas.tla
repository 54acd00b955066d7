--------------------------- MODULE SequenceLemmas ---------------------------
(***************************************************************************)
(* What removing an element from a sequence leaves of it: the facts about  *)
(* a Vec the proofs of several components cite.                            *)
(***************************************************************************)
EXTENDS Integers, Sequences, SequencesExt, SequenceTheorems, TLAPS

\* RemoveAt, element by element.
LEMMA Removal ==
  ASSUME NEW S, NEW seq \in Seq(S), NEW i \in 1 .. Len(seq)
  PROVE  /\ RemoveAt(seq, i) \in Seq(S)
         /\ Len(RemoveAt(seq, i)) = Len(seq) - 1
         /\ \A j \in 1 .. Len(seq) - 1 : RemoveAt(seq, i)[j] = IF j < i THEN seq[j] ELSE seq[j + 1]
<1> DEFINE a == SubSeq(seq, 1, i - 1)
           b == SubSeq(seq, i + 1, Len(seq))
<1>0. Len(seq) \in Nat /\ \A j \in 1 .. Len(seq) : seq[j] \in S
  BY LenProperties, ElementOfSeq
<1>1. /\ a \in Seq(S) /\ Len(a) = i - 1
      /\ \A j \in 1 .. i - 1 : a[j] = seq[j]
  <2>1. \A j \in 1 .. i - 1 : seq[j] \in S
    BY <1>0
  <2> QED  BY <1>0, <2>1, SubSeqProperties
<1>2. /\ b \in Seq(S) /\ Len(b) = Len(seq) - i
      /\ \A j \in 1 .. Len(seq) - i : b[j] = seq[i + j]
  <2>1. \A j \in i + 1 .. Len(seq) : seq[j] \in S
    BY <1>0
  <2>2. /\ b \in Seq(S) 
        /\ Len(b) = IF i + 1 <= Len(seq) THEN Len(seq) - (i + 1) + 1 ELSE 0
        /\ \A j \in 1 .. Len(seq) - (i + 1) + 1 : b[j] = seq[(i + 1) + j - 1]
    BY <1>0, <2>1, SubSeqProperties
  <2> QED  BY <1>0, <2>2
<1>3. /\ a \o b \in Seq(S) /\ Len(a \o b) = Len(a) + Len(b)
      /\ \A j \in 1 .. Len(a) + Len(b) : (a \o b)[j] = IF j <= Len(a) THEN a[j] ELSE b[j - Len(a)]
  BY <1>1, <1>2, ConcatProperties
<1> HIDE DEF a, b
<1>4. RemoveAt(seq, i) = a \o b
  BY DEF RemoveAt, a, b
<1>5. \A j \in 1 .. Len(seq) - 1 :
        RemoveAt(seq, i)[j] = IF j < i THEN seq[j] ELSE seq[j + 1]
  <2> SUFFICES ASSUME NEW j \in 1 .. Len(seq) - 1
               PROVE  (a \o b)[j] = IF j < i THEN seq[j] ELSE seq[j + 1]
    BY <1>4
  <2>1. Len(a) + Len(b) = Len(seq) - 1
    BY <1>0, <1>1, <1>2
  <2>2. (a \o b)[j] = IF j <= i - 1 THEN a[j] ELSE b[j - (i - 1)]
    BY <1>1, <1>3, <2>1
  <2>3. CASE j < i
    BY <1>0, <1>1, <2>2, <2>3
  <2>4. CASE ~(j < i)
    <3>1. j - (i - 1) \in 1 .. Len(seq) - i /\ i + (j - (i - 1)) = j + 1
      BY <1>0, <2>4
    <3> QED  BY <1>0, <1>2, <2>2, <2>4, <3>1
  <2> QED  BY <2>3, <2>4
<1> QED  BY <1>0, <1>1, <1>2, <1>3, <1>4, <1>5

\* Every other element is still there, one place to the left or where it was.
LEMMA RemovalKeeps ==
  ASSUME NEW S, NEW seq \in Seq(S), NEW i \in DOMAIN seq, NEW k \in DOMAIN seq \ {i}
  PROVE  \E j \in DOMAIN RemoveAt(seq, i) : RemoveAt(seq, i)[j] = seq[k]
<1>1. Len(seq) \in Nat /\ DOMAIN seq = 1 .. Len(seq)
  BY LenProperties
<1> DEFINE s == RemoveAt(seq, i)
<1>2. /\ s \in Seq(S) /\ Len(s) = Len(seq) - 1
      /\ \A j \in 1 .. Len(seq) - 1 : s[j] = IF j < i THEN seq[j] ELSE seq[j + 1]
  BY <1>1, Removal
<1> HIDE DEF s
<1>3. DOMAIN s = 1 .. Len(seq) - 1
  BY <1>2, LenProperties
<1>4. CASE k < i
  BY <1>1, <1>2, <1>3, <1>4 DEF s
<1>5. CASE i < k
  <2>1. k - 1 \in 1 .. Len(seq) - 1 /\ ~(k - 1 < i) /\ (k - 1) + 1 = k
    BY <1>1, <1>5
  <2> QED  BY <1>2, <1>3, <2>1 DEF s
<1> QED  BY <1>1, <1>4, <1>5
=============================================================================
