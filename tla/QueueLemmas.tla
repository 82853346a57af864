---------------------------- MODULE QueueLemmas ----------------------------
(***************************************************************************)
(* What the operations on a queue do to the set of its elements, and to the *)
(* fact that no element is in it twice.                                     *)
(***************************************************************************)
EXTENDS SequencesExt, SequenceTheorems, TLAPS


\* What Append does to the elements of a queue and to "no element twice".
LEMMA AppendRange ==
  ASSUME NEW S, NEW s \in Seq(S), NEW e \in S
  PROVE  /\ Range(Append(s, e)) = Range(s) \cup {e}
         /\ IsInjective(s) /\ e \notin Range(s) => IsInjective(Append(s, e))
<1> DEFINE t == Append(s, e)
<1>1. /\ DOMAIN s = 1..Len(s) /\ Len(s) \in Nat /\ t \in Seq(S)
      /\ DOMAIN t = 1..(Len(s) + 1)
      /\ \A i \in 1..Len(s) : t[i] = s[i]
      /\ t[Len(s) + 1] = e
  BY AppendProperties, LenProperties
<1> HIDE DEF t
<1>2. ASSUME NEW i \in 1..(Len(s) + 1), i # Len(s) + 1
      PROVE  i \in 1..Len(s)
  BY <1>1, <1>2
<1>3. Range(t) = Range(s) \cup {e}
  <2>1. Range(t) \subseteq Range(s) \cup {e}
    BY <1>1, <1>2 DEF Range
  <2>2. Len(s) + 1 \in DOMAIN t /\ DOMAIN s \subseteq DOMAIN t
    BY <1>1
  <2> QED BY <2>1, <2>2, <1>1 DEF Range
<1>4. ASSUME IsInjective(s), e \notin Range(s) PROVE IsInjective(t)
  <2>1. \A i \in 1..Len(s) : s[i] # e
    BY <1>1, <1>4 DEF Range
  <2> QED BY <2>1, <1>1, <1>2, <1>4 DEF IsInjective
<1> QED BY <1>3, <1>4 DEF t

\* The head leaves the queue, the rest stays.
LEMMA TailRange ==
  ASSUME NEW S, NEW s \in Seq(S), s # <<>>
  PROVE  /\ Tail(s) \in Seq(S)
         /\ Head(s) \in Range(s)
         /\ Range(s) = Range(Tail(s)) \cup {Head(s)}
         /\ IsInjective(s) => /\ IsInjective(Tail(s))
                              /\ Head(s) \notin Range(Tail(s))
<1>1. /\ Len(s) \in Nat /\ Len(s) >= 1
      /\ Head(s) = s[1] /\ Tail(s) \in Seq(S)
      /\ DOMAIN s = 1..Len(s)
      /\ DOMAIN Tail(s) = 1..(Len(s) - 1)
      /\ \A i \in 1..(Len(s) - 1) : Tail(s)[i] = s[i + 1]
  OBVIOUS
<1>2. \A i \in 2..Len(s) : s[i] = Tail(s)[i - 1] /\ i - 1 \in 1..(Len(s) - 1)
  BY <1>1
<1>3. Range(s) = Range(Tail(s)) \cup {Head(s)}
  <2>1. ASSUME NEW x \in Range(s) PROVE x \in Range(Tail(s)) \cup {Head(s)}
    <3>1. PICK i \in 1..Len(s) : x = s[i]
      BY <1>1, <2>1 DEF Range
    <3>2. CASE i = 1
      BY <3>1, <3>2, <1>1
    <3>3. CASE i \in 2..Len(s)
      BY <3>1, <3>3, <1>1, <1>2 DEF Range
    <3> QED BY <3>2, <3>3, <1>1
  <2>2. ASSUME NEW x \in Range(Tail(s)) PROVE x \in Range(s)
    <3>1. PICK i \in 1..(Len(s) - 1) : x = Tail(s)[i]
      BY <1>1, <2>2 DEF Range
    <3>2. i + 1 \in 1..Len(s) /\ s[i + 1] = x
      BY <1>1, <3>1
    <3> QED BY <3>2, <1>1 DEF Range
  <2>3. Head(s) \in Range(s)
    BY <1>1 DEF Range
  <2> QED BY <2>1, <2>2, <2>3
<1>4. ASSUME IsInjective(s)
      PROVE  IsInjective(Tail(s)) /\ Head(s) \notin Range(Tail(s))
  <2>1. \A i, j \in 1..Len(s) : s[i] = s[j] => i = j
    BY <1>1, <1>4 DEF IsInjective
  <2>2. IsInjective(Tail(s))
    <3>1. ASSUME NEW i \in 1..(Len(s) - 1), NEW j \in 1..(Len(s) - 1),
                 Tail(s)[i] = Tail(s)[j]
          PROVE  i = j
      <4>1. i + 1 \in 1..Len(s) /\ j + 1 \in 1..Len(s) /\ s[i + 1] = s[j + 1]
        BY <1>1, <3>1
      <4>2. i + 1 = j + 1
        BY <4>1, <2>1
      <4> QED BY <4>2
    <3> QED BY <3>1, <1>1 DEF IsInjective
  <2>3. ASSUME Head(s) \in Range(Tail(s)) PROVE FALSE
    <3>1. PICK i \in 1..(Len(s) - 1) : s[1] = Tail(s)[i]
      BY <1>1, <2>3 DEF Range
    <3>2. i + 1 \in 1..Len(s) /\ s[1] = s[i + 1]
      BY <1>1, <3>1
    <3>3. 1 = i + 1
      BY <3>2, <2>1, <1>1
    <3> QED BY <3>3
  <2> QED BY <2>2, <2>3
<1>5. Head(s) \in Range(s)
  BY <1>1 DEF Range
<1> QED BY <1>1, <1>3, <1>4, <1>5

\* What is left when position i is taken out of a queue.
LEMMA RemoveAtElements ==
  ASSUME NEW S, NEW s \in Seq(S), NEW i \in 1..Len(s)
  PROVE  /\ RemoveAt(s, i) \in Seq(S)
         /\ Len(RemoveAt(s, i)) = Len(s) - 1
         /\ \A j \in 1..(Len(s) - 1) :
              RemoveAt(s, i)[j] = s[IF j < i THEN j ELSE j + 1]
<1> DEFINE t == RemoveAt(s, i)
           before(j) == IF j < i THEN j ELSE j + 1
<1>1. /\ t \in Seq(S)
      /\ Len(t) = Len(s) - 1
      /\ \A j \in 1..(Len(s) - 1) : t[j] = s[before(j)]
  <2>1. /\ SubSeq(s, 1, i - 1) \in Seq(S)
        /\ Len(SubSeq(s, 1, i - 1)) = i - 1
        /\ \A j \in 1..(i - 1) : SubSeq(s, 1, i - 1)[j] = s[j]
    BY ElementOfSeq, LenProperties, SubSeqProperties, Z3
  <2>2. /\ SubSeq(s, i + 1, Len(s)) \in Seq(S)
        /\ Len(SubSeq(s, i + 1, Len(s))) = Len(s) - i
        /\ \A j \in 1..(Len(s) - i) : SubSeq(s, i + 1, Len(s))[j] = s[j + i]
    BY ElementOfSeq, LenProperties, SubSeqProperties, Z3
  <2>3. Len(s) \in Nat
    BY LenProperties
  <2> DEFINE u == SubSeq(s, 1, i - 1)
             v == SubSeq(s, i + 1, Len(s))
  <2>4. t = u \o v
    BY DEF RemoveAt
  <2> HIDE DEF u, v, t
  <2>5. /\ u \o v \in Seq(S)
        /\ Len(u \o v) = Len(s) - 1
        /\ \A j \in 1..(Len(s) - 1) :
             (u \o v)[j] = IF j <= i - 1 THEN u[j] ELSE v[j - (i - 1)]
    <3>1. u \in Seq(S) /\ v \in Seq(S) /\ Len(u) = i - 1 /\ Len(v) = Len(s) - i
      BY <2>1, <2>2 DEF u, v
    <3>2. Len(u) + Len(v) = Len(s) - 1
      BY <3>1, <2>3
    <3>3. /\ u \o v \in Seq(S)
          /\ Len(u \o v) = Len(u) + Len(v)
          /\ \A j \in 1..(Len(u) + Len(v)) :
               (u \o v)[j] = IF j <= Len(u) THEN u[j] ELSE v[j - Len(u)]
      BY <3>1, ConcatProperties, Zenon
    <3> QED BY <3>1, <3>2, <3>3
  <2>6. ASSUME NEW j \in 1..(Len(s) - 1) PROVE t[j] = s[before(j)]
    <3>1. CASE j < i
      BY <3>1, <2>1, <2>3, <2>4, <2>5 DEF u
    <3>2. CASE j >= i
      <4>1. j - (i - 1) \in 1..(Len(s) - i) /\ ~(j <= i - 1)
            /\ j - (i - 1) + i = j + 1
        BY <3>2, <2>3
      <4> QED BY SMTT(20), <4>1, <3>2, <2>2, <2>3, <2>4, <2>5 DEF v
    <3> QED BY <3>1, <3>2, <2>3
  <2> QED BY <2>4, <2>5, <2>6
<1> QED BY <1>1 DEF t

\* Taking position i out of a queue removes its element and no other.
LEMMA RemoveAtRange ==
  ASSUME NEW S, NEW s \in Seq(S), NEW i \in 1..Len(s)
  PROVE  /\ RemoveAt(s, i) \in Seq(S)
         /\ IsInjective(s) => /\ IsInjective(RemoveAt(s, i))
                              /\ Range(RemoveAt(s, i)) = Range(s) \ {s[i]}
<1> DEFINE t == RemoveAt(s, i)
           before(j) == IF j < i THEN j ELSE j + 1
<1>1. /\ t \in Seq(S)
      /\ Len(t) = Len(s) - 1
      /\ \A j \in 1..(Len(s) - 1) : t[j] = s[before(j)]
  BY RemoveAtElements
<1> HIDE DEF t
<1>2. ASSUME IsInjective(s)
      PROVE  IsInjective(t) /\ Range(t) = Range(s) \ {s[i]}
  <2>1. /\ \A j, k \in 1..Len(s) : s[j] = s[k] => j = k
        /\ DOMAIN s = 1..Len(s) /\ DOMAIN t = 1..(Len(s) - 1) /\ Len(s) \in Nat
    BY <1>1, <1>2, LenProperties DEF IsInjective
  <2>2. IsInjective(t)
    BY <2>1, <1>1 DEF IsInjective
  <2>3. ASSUME NEW x \in Range(t) PROVE x \in Range(s) \ {s[i]}
    <3>1. PICK j \in 1..(Len(s) - 1) : x = t[j]
      BY <2>1, <2>3 DEF Range
    <3>2. before(j) \in 1..Len(s) /\ before(j) # i /\ x = s[before(j)]
      BY <3>1, <1>1, <2>1
    <3> HIDE DEF before
    <3> QED BY <3>2, <2>1 DEF Range
  <2>4. ASSUME NEW x \in Range(s) \ {s[i]} PROVE x \in Range(t)
    <3>1. PICK k \in 1..Len(s) : x = s[k] /\ k # i
      BY <2>1, <2>4 DEF Range
    <3>2. CASE k < i
      <4>1. k \in 1..(Len(s) - 1) /\ t[k] = x
        BY <3>1, <3>2, <1>1, <2>1
      <4> QED BY <4>1, <2>1 DEF Range
    <3>3. CASE k > i
      <4>1. k - 1 \in 1..(Len(s) - 1) /\ t[k - 1] = x
        BY <3>1, <3>3, <1>1, <2>1
      <4> QED BY <4>1, <2>1 DEF Range
    <3> QED BY <3>1, <3>2, <3>3, <2>1
  <2> QED BY <2>2, <2>3, <2>4
<1> QED BY <1>1, <1>2 DEF t
\* A queue read backwards has the same elements, each as often.
LEMMA ReverseRange ==
  ASSUME NEW S, NEW s \in Seq(S)
  PROVE  /\ Reverse(s) \in Seq(S)
         /\ Range(Reverse(s)) = Range(s)
         /\ IsInjective(s) => IsInjective(Reverse(s))
<1> DEFINE t == Reverse(s)
<1>1. /\ Len(s) \in Nat /\ DOMAIN s = 1..Len(s) /\ t \in Seq(S)
      /\ DOMAIN t = 1..Len(s)
      /\ \A i \in 1..Len(s) : t[i] = s[Len(s) - i + 1]
  BY LenProperties DEF Reverse
<1> HIDE DEF t
<1>2. \A i \in 1..Len(s) : /\ Len(s) - i + 1 \in 1..Len(s)
                           /\ Len(s) - (Len(s) - i + 1) + 1 = i
  BY <1>1
<1>3. Range(t) = Range(s)
  <2>1. ASSUME NEW i \in 1..Len(s) PROVE t[i] \in Range(s) /\ s[i] \in Range(t)
    <3>1. t[Len(s) - i + 1] = s[i]
      BY <1>1, <1>2
    <3> QED BY <1>1, <1>2, <3>1 DEF Range
  <2> QED BY <1>1, <2>1 DEF Range
<1>4. ASSUME IsInjective(s) PROVE IsInjective(t)
  <2>1. ASSUME NEW i \in 1..Len(s), NEW j \in 1..Len(s), t[i] = t[j] PROVE i = j
    <3>1. s[Len(s) - i + 1] = s[Len(s) - j + 1]
      BY <1>1, <2>1
    <3>2. Len(s) - i + 1 = Len(s) - j + 1
      BY <1>1, <1>2, <1>4, <3>1 DEF IsInjective
    <3> QED BY <1>1, <3>2
  <2> QED BY <1>1, <2>1 DEF IsInjective
<1> QED BY <1>1, <1>3, <1>4 DEF t

---------------------------------------------------------------------------
(* A queue that keeps an order: every element is related by R to those after *)
(* it.                                                                      *)

InOrder(s, R) == \A i, j \in DOMAIN s : i < j => <<s[i], s[j]>> \in R

LEMMA InOrderEmpty == \A R : InOrder(<<>>, R)
BY DEF InOrder

LEMMA AppendInOrder ==
  ASSUME NEW S, NEW s \in Seq(S), NEW e \in S, NEW R, InOrder(s, R),
         \A x \in Range(s) : <<x, e>> \in R
  PROVE  InOrder(Append(s, e), R)
<1> DEFINE t == Append(s, e)
<1>1. /\ DOMAIN s = 1..Len(s) /\ Len(s) \in Nat
      /\ DOMAIN t = 1..(Len(s) + 1)
      /\ \A i \in 1..Len(s) : t[i] = s[i]
      /\ t[Len(s) + 1] = e
  BY AppendProperties, LenProperties
<1> HIDE DEF t
<1>2. ASSUME NEW i \in 1..(Len(s) + 1), NEW j \in 1..(Len(s) + 1), i < j
      PROVE  <<t[i], t[j]>> \in R
  <2>1. i \in 1..Len(s) /\ t[i] \in Range(s)
    BY <1>1, <1>2 DEF Range
  <2>2. CASE j = Len(s) + 1
    BY <1>1, <2>1, <2>2
  <2>3. CASE j \in 1..Len(s)
    BY <1>1, <1>2, <2>1, <2>3 DEF InOrder
  <2> QED BY <1>1, <2>2, <2>3
<1> QED BY <1>1, <1>2 DEF InOrder, t

LEMMA TailInOrder ==
  ASSUME NEW S, NEW s \in Seq(S), s # <<>>, NEW R, InOrder(s, R)
  PROVE  /\ InOrder(Tail(s), R)
         /\ \A x \in Range(Tail(s)) : <<Head(s), x>> \in R
<1> DEFINE t == Tail(s)
<1>1. /\ Len(s) \in Nat /\ Len(s) >= 1 /\ Head(s) = s[1]
      /\ DOMAIN s = 1..Len(s) /\ DOMAIN t = 1..(Len(s) - 1)
      /\ \A i \in 1..(Len(s) - 1) : t[i] = s[i + 1]
  OBVIOUS
<1> HIDE DEF t
<1>2. ASSUME NEW i \in DOMAIN t, NEW j \in DOMAIN t, i < j
      PROVE  <<t[i], t[j]>> \in R
  <2>1. /\ i + 1 \in 1..Len(s) /\ j + 1 \in 1..Len(s) /\ i + 1 < j + 1
        /\ t[i] = s[i + 1] /\ t[j] = s[j + 1]
    BY <1>1, <1>2
  <2> QED BY <1>1, <2>1 DEF InOrder
<1>3. ASSUME NEW x \in Range(t) PROVE <<Head(s), x>> \in R
  <2>1. PICK i \in DOMAIN t : x = t[i]
    BY <1>3 DEF Range
  <2>2. i + 1 \in 1..Len(s) /\ 1 \in 1..Len(s) /\ 1 < i + 1 /\ x = s[i + 1]
    BY <1>1, <2>1
  <2> QED BY <1>1, <2>2 DEF InOrder
<1> QED BY <1>2, <1>3 DEF InOrder, t

LEMMA RemoveAtInOrder ==
  ASSUME NEW S, NEW s \in Seq(S), NEW i \in 1..Len(s), NEW R, InOrder(s, R)
  PROVE  /\ RemoveAt(s, i) \in Seq(S)
         /\ InOrder(RemoveAt(s, i), R)
         /\ Range(RemoveAt(s, i)) \subseteq Range(s)
<1> DEFINE t == RemoveAt(s, i)
           from(j) == IF j < i THEN j ELSE j + 1
<1>1. /\ t \in Seq(S) /\ Len(s) \in Nat /\ DOMAIN s = 1..Len(s)
      /\ DOMAIN t = 1..(Len(s) - 1)
      /\ \A j \in 1..(Len(s) - 1) : t[j] = s[from(j)]
  <2>1. /\ t \in Seq(S) /\ Len(t) = Len(s) - 1
        /\ \A j \in 1..(Len(s) - 1) : t[j] = s[from(j)]
    BY RemoveAtElements
  <2> HIDE DEF t, from
  <2> QED BY <2>1, LenProperties
<1>2. /\ \A j \in DOMAIN t : from(j) \in DOMAIN s
      /\ \A j, k \in DOMAIN t : j < k => from(j) < from(k)
  BY <1>1
<1> HIDE DEF t, from
<1> QED BY <1>1, <1>2 DEF InOrder, Range, t

LEMMA InOrderMonotonic ==
  ASSUME NEW s, NEW R, NEW T, R \subseteq T, InOrder(s, R)
  PROVE  InOrder(s, T)
BY DEF InOrder

---------------------------------------------------------------------------
(* The order in which the elements of a queue without duplicates came in.    *)

Precedes(s, x, y) == \E i, j \in DOMAIN s : i < j /\ s[i] = x /\ s[j] = y

LEMMA PrecedesIsStrict ==
  ASSUME NEW S, NEW s \in Seq(S), IsInjective(s), NEW x, NEW y, Precedes(s, x, y)
  PROVE  x \in Range(s) /\ y \in Range(s) /\ x # y /\ ~Precedes(s, y, x)
<1>1. Len(s) \in Nat /\ DOMAIN s = 1..Len(s)
  BY LenProperties
<1>2. \A i, j \in DOMAIN s : s[i] = s[j] => i = j
  BY DEF IsInjective
<1>3. x \in Range(s) /\ y \in Range(s)
  BY DEF Precedes, Range
<1>4. PICK i, j \in DOMAIN s : i < j /\ s[i] = x /\ s[j] = y
  BY DEF Precedes
<1>5. x # y
  BY <1>1, <1>2, <1>4
<1>6. ASSUME NEW k \in DOMAIN s, NEW n \in DOMAIN s, k < n, s[k] = y, s[n] = x
      PROVE  FALSE
  <2>1. k = j /\ n = i
    BY <1>2, <1>4, <1>6
  <2> QED BY <1>1, <1>4, <1>6, <2>1
<1> QED BY <1>3, <1>5, <1>6 DEF Precedes

LEMMA PrecedesAppend ==
  ASSUME NEW S, NEW s \in Seq(S), NEW e \in S
  PROVE  \A x, y : Precedes(Append(s, e), x, y)
                     <=> Precedes(s, x, y) \/ (x \in Range(s) /\ y = e)
<1> DEFINE t == Append(s, e)
<1>1. /\ DOMAIN s = 1..Len(s) /\ Len(s) \in Nat
      /\ DOMAIN t = 1..(Len(s) + 1)
      /\ \A i \in 1..Len(s) : t[i] = s[i]
      /\ t[Len(s) + 1] = e
  BY AppendProperties, LenProperties
<1> HIDE DEF t
<1>2. ASSUME NEW x, NEW y, Precedes(t, x, y)
      PROVE  Precedes(s, x, y) \/ (x \in Range(s) /\ y = e)
  <2>1. PICK i, j \in DOMAIN t : i < j /\ t[i] = x /\ t[j] = y
    BY <1>2 DEF Precedes
  <2>2. i \in DOMAIN s /\ s[i] = x
    BY <1>1, <2>1
  <2>3. CASE j \in DOMAIN s
    BY <1>1, <2>1, <2>2, <2>3 DEF Precedes
  <2>4. CASE j = Len(s) + 1
    BY <1>1, <2>1, <2>2, <2>4 DEF Range
  <2> QED BY <1>1, <2>3, <2>4
<1>3. ASSUME NEW x, NEW y, Precedes(s, x, y) PROVE Precedes(t, x, y)
  <2>1. DOMAIN s \subseteq DOMAIN t
    BY <1>1
  <2> QED BY <1>1, <1>3, <2>1 DEF Precedes
<1>4. ASSUME NEW x \in Range(s) PROVE Precedes(t, x, e)
  <2>1. PICK i \in DOMAIN s : s[i] = x
    BY <1>4 DEF Range
  <2>2. i \in DOMAIN t /\ Len(s) + 1 \in DOMAIN t /\ i < Len(s) + 1
    BY <1>1
  <2> QED BY <1>1, <2>1, <2>2 DEF Precedes
<1> QED BY <1>2, <1>3, <1>4 DEF t

LEMMA InOrderOfItself ==
  ASSUME NEW S, NEW s \in Seq(S), NEW R,
         \A x, y \in S : Precedes(s, x, y) => <<x, y>> \in R
  PROVE  InOrder(s, R)
<1>1. \A i \in DOMAIN s : s[i] \in S
  BY LenProperties
<1> QED BY <1>1 DEF InOrder, Precedes


---------------------------------------------------------------------------
(* A queue kept in two parts, a front s and a back t.                       *)

\* What enters at the back enters behind both.
LEMMA AppendToBack ==
  ASSUME NEW S, NEW s \in Seq(S), NEW t \in Seq(S), NEW e \in S
  PROVE  s \o Append(t, e) = Append(s \o t, e)
<1>1. <<e>> \in Seq(S) /\ s \o t \in Seq(S)
  BY ConcatProperties
<1>2. Append(t, e) = t \o <<e>> /\ Append(s \o t, e) = (s \o t) \o <<e>>
  BY <1>1, AppendIsConcat
<1> QED BY <1>1, <1>2, ConcatAssociative

\* The head goes from the back to the front.
LEMMA HeadToFront ==
  ASSUME NEW S, NEW s \in Seq(S), NEW t \in Seq(S), t # <<>>
  PROVE  (s \o <<Head(t)>>) \o Tail(t) = s \o t
<1>1. Head(t) \in S /\ Tail(t) \in Seq(S) /\ <<Head(t)>> \in Seq(S)
  BY HeadTailProperties
<1>2. <<Head(t)>> \o Tail(t) = t
  <2>1. /\ <<Head(t)>> \o Tail(t) \in Seq(S)
        /\ Len(<<Head(t)>> \o Tail(t)) = 1 + Len(Tail(t))
        /\ \A i \in 1..(1 + Len(Tail(t))) :
             (<<Head(t)>> \o Tail(t))[i] = IF i <= 1 THEN <<Head(t)>>[i] ELSE Tail(t)[i - 1]
    <3>1. Len(<<Head(t)>>) = 1
      OBVIOUS
    <3> QED BY <1>1, <3>1, ConcatProperties
  <2>2. /\ Len(Tail(t)) = Len(t) - 1 /\ Len(t) \in Nat /\ Head(t) = t[1]
        /\ \A i \in 1..Len(Tail(t)) : Tail(t)[i] = t[i + 1]
    BY HeadTailProperties, LenProperties
  <2>3. ASSUME NEW i \in 1..Len(t) PROVE (<<Head(t)>> \o Tail(t))[i] = t[i]
    <3>1. CASE i = 1
      BY <2>1, <2>2, <3>1
    <3>2. CASE i # 1
      <4>1. i - 1 \in 1..Len(Tail(t)) /\ i \in 1..(1 + Len(Tail(t))) /\ ~(i <= 1)
            /\ (i - 1) + 1 = i
        BY <2>2, <3>2
      <4>2. (<<Head(t)>> \o Tail(t))[i] = Tail(t)[i - 1]
        BY <2>1, <4>1
      <4>3. Tail(t)[i - 1] = t[(i - 1) + 1]
        BY <2>2, <4>1
      <4> QED BY <4>1, <4>2, <4>3
    <3> QED BY <3>1, <3>2
  <2>4. Len(<<Head(t)>> \o Tail(t)) = Len(t)
    BY <2>1, <2>2
  <2> QED BY <2>1, <2>3, <2>4, SeqEqual
<1>3. (s \o <<Head(t)>>) \o Tail(t) = s \o (<<Head(t)>> \o Tail(t))
  BY <1>1, ConcatAssociative
<1> QED BY <1>2, <1>3

\* What leaves at the front leaves the whole.
LEMMA TailOfFront ==
  ASSUME NEW S, NEW s \in Seq(S), NEW t \in Seq(S), s # <<>>
  PROVE  /\ s \o t # <<>>
         /\ Head(s \o t) = Head(s)
         /\ Tail(s \o t) = Tail(s) \o t
<1>1. /\ Tail(s) \in Seq(S) /\ Len(s) \in Nat /\ Len(t) \in Nat /\ Len(s) >= 1
      /\ Len(Tail(s)) = Len(s) - 1
      /\ \A i \in 1..Len(Tail(s)) : Tail(s)[i] = s[i + 1]
  BY HeadTailProperties, LenProperties, EmptySeq
<1> DEFINE u == s \o t
<1>2. /\ u \in Seq(S) /\ Len(u) = Len(s) + Len(t)
      /\ \A i \in 1..(Len(s) + Len(t)) : u[i] = IF i <= Len(s) THEN s[i] ELSE t[i - Len(s)]
  BY ConcatProperties
<1> HIDE DEF u
<1>3. u # <<>>
  BY <1>1, <1>2
<1>4. Head(u) = Head(s)
  BY <1>1, <1>2, <1>3
<1>5. /\ Tail(u) \in Seq(S) /\ Len(Tail(u)) = Len(u) - 1
      /\ \A i \in 1..Len(Tail(u)) : Tail(u)[i] = u[i + 1]
  BY <1>2, <1>3, HeadTailProperties
<1> DEFINE v == Tail(s) \o t
<1>6. /\ v \in Seq(S) /\ Len(v) = Len(Tail(s)) + Len(t)
      /\ \A i \in 1..(Len(Tail(s)) + Len(t)) :
           v[i] = IF i <= Len(Tail(s)) THEN Tail(s)[i] ELSE t[i - Len(Tail(s))]
  BY <1>1, ConcatProperties
<1> HIDE DEF v
<1>7. Len(Tail(u)) = Len(v)
  BY <1>1, <1>2, <1>5, <1>6
<1>8. ASSUME NEW i \in 1..Len(Tail(u)) PROVE Tail(u)[i] = v[i]
  <2>1. /\ i \in 1..(Len(Tail(s)) + Len(t)) /\ i + 1 \in 1..(Len(s) + Len(t))
        /\ Tail(u)[i] = u[i + 1]
    BY <1>1, <1>2, <1>5, <1>6, <1>7
  <2>2. CASE i <= Len(Tail(s))
    BY <1>1, <1>2, <1>6, <2>1, <2>2
  <2>3. CASE ~(i <= Len(Tail(s)))
    <3>1. ~(i + 1 <= Len(s)) /\ (i + 1) - Len(s) = i - Len(Tail(s))
      BY <1>1, <2>3
    <3>2. u[i + 1] = t[(i + 1) - Len(s)]
      BY <1>2, <2>1, <3>1
    <3>3. v[i] = t[i - Len(Tail(s))]
      BY <1>6, <2>1, <2>3
    <3> QED BY <2>1, <3>1, <3>2, <3>3
  <2> QED BY <2>2, <2>3
<1>9. Tail(u) = v
  BY <1>5, <1>6, <1>7, <1>8, SeqEqual
<1> QED BY <1>3, <1>4, <1>9 DEF u, v

\* Position i of the back is position Len(s) + i of the whole.
LEMMA RemoveAtBack ==
  ASSUME NEW S, NEW s \in Seq(S), NEW t \in Seq(S), NEW i \in 1..Len(t)
  PROVE  /\ Len(s) + i \in 1..Len(s \o t)
         /\ RemoveAt(s \o t, Len(s) + i) = s \o RemoveAt(t, i)
<1> DEFINE u == s \o t
           k == Len(s) + i
<1>1. /\ u \in Seq(S) /\ Len(u) = Len(s) + Len(t)
      /\ \A j \in 1..(Len(s) + Len(t)) : u[j] = IF j <= Len(s) THEN s[j] ELSE t[j - Len(s)]
  BY ConcatProperties
<1> HIDE DEF u
<1>2. Len(s) \in Nat /\ Len(t) \in Nat /\ k \in 1..Len(u)
  BY <1>1, LenProperties
<1>3. /\ RemoveAt(u, k) \in Seq(S) /\ Len(RemoveAt(u, k)) = Len(u) - 1
      /\ \A j \in 1..(Len(u) - 1) : RemoveAt(u, k)[j] = u[IF j < k THEN j ELSE j + 1]
  BY <1>1, <1>2, RemoveAtElements
<1>4. /\ RemoveAt(t, i) \in Seq(S) /\ Len(RemoveAt(t, i)) = Len(t) - 1
      /\ \A j \in 1..(Len(t) - 1) : RemoveAt(t, i)[j] = t[IF j < i THEN j ELSE j + 1]
  BY RemoveAtElements
<1> DEFINE v == s \o RemoveAt(t, i)
<1>5. /\ v \in Seq(S) /\ Len(v) = Len(s) + (Len(t) - 1)
      /\ \A j \in 1..(Len(s) + (Len(t) - 1)) :
           v[j] = IF j <= Len(s) THEN s[j] ELSE RemoveAt(t, i)[j - Len(s)]
  <2>1. /\ v \in Seq(S) /\ Len(v) = Len(s) + Len(RemoveAt(t, i))
        /\ \A j \in 1..(Len(s) + Len(RemoveAt(t, i))) :
             v[j] = IF j <= Len(s) THEN s[j] ELSE RemoveAt(t, i)[j - Len(s)]
    BY <1>4, ConcatProperties, Zenon
  <2> QED BY <1>4, <2>1
<1> HIDE DEF v
<1>6. Len(RemoveAt(u, k)) = Len(v)
  BY <1>1, <1>2, <1>3, <1>5
<1>7. ASSUME NEW j \in 1..Len(RemoveAt(u, k)) PROVE RemoveAt(u, k)[j] = v[j]
  <2>1. j \in 1..(Len(u) - 1) /\ j \in 1..(Len(s) + (Len(t) - 1))
    BY <1>1, <1>2, <1>3
  <2>2. CASE j <= Len(s)
    <3>1. j < k /\ j \in 1..(Len(s) + Len(t))
      BY <1>2, <2>1, <2>2
    <3>2. RemoveAt(u, k)[j] = u[j] /\ u[j] = s[j]
      BY <1>1, <1>3, <2>1, <2>2, <3>1
    <3> QED BY <1>5, <2>1, <2>2, <3>2
  <2>3. CASE ~(j <= Len(s)) /\ j < k
    <3>1. /\ j \in 1..(Len(s) + Len(t)) /\ j - Len(s) \in 1..(Len(t) - 1)
          /\ j - Len(s) < i
      BY <1>2, <2>1, <2>3
    <3>2. RemoveAt(u, k)[j] = u[j] /\ u[j] = t[j - Len(s)]
      BY <1>1, <1>3, <2>1, <2>3, <3>1
    <3>3. v[j] = RemoveAt(t, i)[j - Len(s)] /\ RemoveAt(t, i)[j - Len(s)] = t[j - Len(s)]
      BY <1>4, <1>5, <2>1, <2>3, <3>1
    <3> QED BY <3>2, <3>3
  <2>4. CASE ~(j < k)
    <3>1. /\ j + 1 \in 1..(Len(s) + Len(t)) /\ j - Len(s) \in 1..(Len(t) - 1)
          /\ ~(j - Len(s) < i) /\ ~(j <= Len(s)) /\ ~(j + 1 <= Len(s))
          /\ (j + 1) - Len(s) = (j - Len(s)) + 1
      BY <1>2, <2>1, <2>4
    <3>2. RemoveAt(u, k)[j] = u[j + 1] /\ u[j + 1] = t[(j + 1) - Len(s)]
      BY <1>1, <1>3, <2>1, <2>4, <3>1
    <3>3. /\ v[j] = RemoveAt(t, i)[j - Len(s)]
          /\ RemoveAt(t, i)[j - Len(s)] = t[(j - Len(s)) + 1]
      BY <1>4, <1>5, <2>1, <3>1
    <3> QED BY <3>1, <3>2, <3>3
  <2> QED BY <2>2, <2>3, <2>4
<1>8. RemoveAt(u, k) = v
  BY <1>3, <1>5, <1>6, <1>7, SeqEqual
<1> QED BY <1>2, <1>8 DEF u, v
=============================================================================
