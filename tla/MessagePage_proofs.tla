-------------------------- MODULE MessagePage_proofs --------------------------
(***************************************************************************)
(* Proofs about MessagePage, for every number of messages, of requests at    *)
(* the same time, and for every length of the page's lists.                  *)
(***************************************************************************)
EXTENDS MessagePage, QueueLemmas, FiniteSetTheorems

---------------------------------------------------------------------------
(* The lists: every slice the page takes is the last n elements of one.      *)

LastN(s, n) == SubSeq(s, (IF n < Len(s) THEN Len(s) - n ELSE 0) + 1, Len(s))

LEMMA MaxOfTwo == \A a, b \in Int : Max({a, b}) = IF a >= b THEN a ELSE b
<1> SUFFICES ASSUME NEW a \in Int, NEW b \in Int
             PROVE  Max({a, b}) = IF a >= b THEN a ELSE b
  OBVIOUS
<1> DEFINE P(x) == x \in {a, b} /\ \A y \in {a, b} : x >= y
<1>1. P(IF a >= b THEN a ELSE b)
  OBVIOUS
<1>2. \A x : P(x) => x = IF a >= b THEN a ELSE b
  OBVIOUS
<1>3. P(Max({a, b}))
  BY <1>1 DEF Max
<1> QED BY <1>2, <1>3

LEMMA MinOfTwo == \A a, b \in Int : Min({a, b}) = IF a <= b THEN a ELSE b
<1> SUFFICES ASSUME NEW a \in Int, NEW b \in Int
             PROVE  Min({a, b}) = IF a <= b THEN a ELSE b
  OBVIOUS
<1> DEFINE P(x) == x \in {a, b} /\ \A y \in {a, b} : x <= y
<1>1. P(IF a <= b THEN a ELSE b)
  OBVIOUS
<1>2. \A x : P(x) => x = IF a <= b THEN a ELSE b
  OBVIOUS
<1>3. P(Min({a, b}))
  BY <1>1 DEF Min
<1> QED BY <1>2, <1>3

LEMMA LastNElements ==
  ASSUME NEW S, NEW s \in Seq(S), NEW n \in Nat
  PROVE  /\ LastN(s, n) \in Seq(S)
         /\ Len(LastN(s, n)) = IF n < Len(s) THEN n ELSE Len(s)
         /\ \A i \in 1..Len(LastN(s, n)) :
              LastN(s, n)[i] = s[Len(s) - Len(LastN(s, n)) + i]
<1> DEFINE from == (IF n < Len(s) THEN Len(s) - n ELSE 0) + 1
<1>1. Len(s) \in Nat /\ from \in Nat \ {0} /\ \A i \in 1..Len(s) : s[i] \in S
  BY LenProperties, ElementOfSeq
<1>2. /\ SubSeq(s, from, Len(s)) \in Seq(S)
      /\ Len(SubSeq(s, from, Len(s))) = IF from <= Len(s) THEN Len(s) - from + 1 ELSE 0
      /\ \A i \in 1..(Len(s) - from + 1) : SubSeq(s, from, Len(s))[i] = s[from + i - 1]
  <2> HIDE DEF from
  <2>1. \A i \in from..Len(s) : s[i] \in S
    BY <1>1
  <2> QED BY <1>1, <2>1, SubSeqProperties, Z3
<1>3. LastN(s, n) = SubSeq(s, from, Len(s))
  BY DEF LastN
<1>4. Len(LastN(s, n)) = IF n < Len(s) THEN n ELSE Len(s)
  BY <1>1, <1>2, <1>3
<1>5. /\ Len(LastN(s, n)) = Len(s) - from + 1
      /\ \A i \in 1..Len(LastN(s, n)) : from + i - 1 = Len(s) - Len(LastN(s, n)) + i
  BY <1>1, <1>4
<1> QED BY <1>2, <1>3, <1>4, <1>5

LEMMA LastNRange ==
  ASSUME NEW S, NEW s \in Seq(S), NEW n \in Nat
  PROVE  Range(LastN(s, n)) = {s[i] : i \in {j \in 1..Len(s) : j > Len(s) - n}}
<1> DEFINE t == LastN(s, n)
<1>1. /\ t \in Seq(S) /\ Len(s) \in Nat
      /\ Len(t) = IF n < Len(s) THEN n ELSE Len(s)
      /\ \A i \in 1..Len(t) : t[i] = s[Len(s) - Len(t) + i]
  BY LastNElements, LenProperties
<1> HIDE DEF t
<1>2. Range(t) = {t[i] : i \in 1..Len(t)}
  BY <1>1, RangeEquality
<1>3. ASSUME NEW i \in 1..Len(t)
      PROVE  \E j \in 1..Len(s) : j > Len(s) - n /\ t[i] = s[j]
  <2>1. Len(s) - Len(t) + i \in 1..Len(s) /\ Len(s) - Len(t) + i > Len(s) - n
    <3>1. Len(t) \in Nat
      BY <1>1
    <3>2. CASE n < Len(s)
      BY <1>1, <3>1, <3>2
    <3>3. CASE ~(n < Len(s))
      BY <1>1, <3>1, <3>3
    <3> QED BY <3>2, <3>3
  <2> QED BY <1>1, <2>1
<1>4. ASSUME NEW j \in 1..Len(s), j > Len(s) - n
      PROVE  \E i \in 1..Len(t) : s[j] = t[i]
  <2>1. j - (Len(s) - Len(t)) \in 1..Len(t)
        /\ Len(s) - Len(t) + (j - (Len(s) - Len(t))) = j
    <3>1. Len(t) \in Nat
      BY <1>1
    <3>2. CASE n < Len(s)
      BY <1>1, <1>4, <3>1, <3>2
    <3>3. CASE ~(n < Len(s))
      BY <1>1, <1>4, <3>1, <3>3
    <3> QED BY <3>2, <3>3
  <2> QED BY <1>1, <2>1
<1>5. Range(t) \subseteq {s[i] : i \in {j \in 1..Len(s) : j > Len(s) - n}}
  BY <1>2, <1>3
<1>6. {s[i] : i \in {j \in 1..Len(s) : j > Len(s) - n}} \subseteq Range(t)
  BY <1>2, <1>4
<1>7. Range(t) = {s[i] : i \in {j \in 1..Len(s) : j > Len(s) - n}}
  BY <1>5, <1>6
<1> QED BY <1>7 DEF t

\* Array.slice with either sign of the index.
LEMMA SliceIsLastN ==
  ASSUME NEW S, NEW s \in Seq(S), NEW from \in Int, from <= Len(s)
  PROVE  Slice(s, from) = LastN(s, IF from >= 0 THEN Len(s) - from ELSE -from)
<1>1. Len(s) \in Nat
  BY LenProperties
<1>2. CASE from >= 0
  <2>1. (IF Len(s) - from < Len(s) THEN Len(s) - (Len(s) - from) ELSE 0) + 1 = from + 1
    BY <1>1, <1>2
  <2> QED BY <1>2, <2>1 DEF Slice, LastN
<1>3. CASE ~(from >= 0)
  <2>1. Max({1, Len(s) + from + 1})
          = (IF -from < Len(s) THEN Len(s) - (-from) ELSE 0) + 1
    BY <1>1, <1>3, MaxOfTwo
  <2> QED BY <1>3, <2>1 DEF Slice, LastN
<1> QED BY <1>2, <1>3

\* The whole list.
LEMMA LastNWhole ==
  ASSUME NEW S, NEW s \in Seq(S), NEW n \in Nat, n >= Len(s)
  PROVE  LastN(s, n) = s
<1>1. /\ LastN(s, n) \in Seq(S) /\ Len(s) \in Nat /\ Len(LastN(s, n)) = Len(s)
      /\ \A i \in 1..Len(s) : LastN(s, n)[i] = s[Len(s) - Len(s) + i]
  BY LastNElements, LenProperties
<1>2. \A i \in 1..Len(s) : LastN(s, n)[i] = s[i]
  BY <1>1
<1> QED BY <1>1, <1>2, SeqEqual

LEMMA LatestIsLastN ==
  ASSUME cachedList \in Seq(Message), NEW n \in Nat
  PROVE  LastestList(n) = LastN(cachedList, n)
<1> DEFINE from == Max({0, Len(cachedList) - n})
<1>1. Len(cachedList) \in Nat
  BY LenProperties
<1>2. from = IF n < Len(cachedList) THEN Len(cachedList) - n ELSE 0
  BY <1>1, MaxOfTwo
<1>3. LastestList(n) = SubSeq(cachedList, from + 1, Len(cachedList))
  <2>1. LastestList(n) = Slice(cachedList, from) /\ from >= 0
    BY <1>1, <1>2 DEF LastestList
  <2> HIDE DEF from
  <2> QED BY <2>1 DEF Slice
<1> QED BY <1>2, <1>3 DEF LastN

LEMMA BlogIsLastN ==
  ASSUME NEW s \in Seq(Message)
  PROVE  Blog(s) = Range(LastN(s, maxKeep))
<1> DEFINE from == Max({0, Len(s) - maxKeep})
<1>1. Len(s) \in Nat /\ maxKeep \in Nat
  BY LenProperties, PageAssumption
<1>2. from = IF maxKeep < Len(s) THEN Len(s) - maxKeep ELSE 0
  BY <1>1, MaxOfTwo
<1>3. Blog(s) = Range(SubSeq(s, from + 1, Len(s)))
  <2>1. Blog(s) = Range(Slice(s, from)) /\ from >= 0
    BY <1>1, <1>2 DEF Blog
  <2> HIDE DEF from
  <2> QED BY <2>1 DEF Slice
<1> QED BY <1>2, <1>3 DEF LastN
---------------------------------------------------------------------------
(* append: what it keeps of the cache, and what it takes of the answer.      *)

\* How many of the cached messages stay when an answer has len messages.
Kept(cached, len) ==
  IF len < maxKeep /\ maxKeep - len < Len(cached) THEN maxKeep - len
  ELSE IF len < maxKeep THEN Len(cached) ELSE 0

\* How many of the answer are taken: the room that is left, and when the answer
\* does not fill it, what is left of the room after the answer: the slip of
\* append.
Taken(cached, len) ==
  LET room == maxKeep - Kept(cached, len)
  IN IF len >= room THEN room ELSE room - len

LEMMA KeptType ==
  ASSUME NEW cached \in Seq(Message), NEW list \in Seq(Message)
  PROVE  /\ Kept(cached, Len(list)) \in 0..Len(cached)
         /\ Kept(cached, Len(list)) \in 0..maxKeep
         /\ Taken(cached, Len(list)) \in 0..(maxKeep - Kept(cached, Len(list)))
         /\ Len(cached) \in Nat /\ Len(list) \in Nat
BY LenProperties, PageAssumption DEF Kept, Taken

LEMMA AppendedIs ==
  ASSUME NEW cached \in Seq(Message), NEW list \in Seq(Message)
  PROVE  Appended(cached, list) = LastN(cached, Kept(cached, Len(list)))
                                    \o LastN(list, Taken(cached, Len(list)))
<1> DEFINE C == Len(cached)
           L == Len(list)
           k == Kept(cached, L)
           n == Taken(cached, L)
           shrinkMax == Max({0, maxKeep - L})
           kept == Slice(cached, C - Min({shrinkMax, C}))
           cancatSize == maxKeep - Len(kept)
           all == kept \o Slice(list, L - cancatSize)
<1>1. /\ C \in Nat /\ L \in Nat /\ maxKeep \in Nat /\ k \in 0..C /\ k \in 0..maxKeep
      /\ n \in 0..(maxKeep - k)
  BY KeptType, PageAssumption
<1>2. Min({shrinkMax, C}) = k
  <2>1. shrinkMax = IF L < maxKeep THEN maxKeep - L ELSE 0
    BY <1>1, MaxOfTwo
  <2>2. Min({shrinkMax, C}) = IF shrinkMax <= C THEN shrinkMax ELSE C
    <3>1. shrinkMax \in Int /\ C \in Int
      BY <1>1, <2>1
    <3> HIDE DEF shrinkMax, C
    <3> QED BY <3>1, MinOfTwo
  <2> QED BY <1>1, <2>1, <2>2 DEF Kept
<1>3. kept = LastN(cached, k) /\ Len(kept) = k /\ kept \in Seq(Message)
  <2>1. kept = Slice(cached, C - k)
    BY <1>2
  <2>2. C - k \in Int /\ C - k <= C /\ C - k >= 0 /\ C - (C - k) = k
    BY <1>1
  <2>3. Slice(cached, C - k) = LastN(cached, k)
    BY <2>2, SliceIsLastN
  <2>4. LastN(cached, k) \in Seq(Message) /\ Len(LastN(cached, k)) = k
    BY <1>1, LastNElements
  <2> QED BY <2>1, <2>3, <2>4
<1>4. Slice(list, L - cancatSize) = LastN(list, n)
  <2>1. cancatSize = maxKeep - k
    BY <1>3
  <2>2. L - (maxKeep - k) \in Int /\ L - (maxKeep - k) <= L
    BY <1>1
  <2>3. Slice(list, L - (maxKeep - k))
          = LastN(list, IF L - (maxKeep - k) >= 0 THEN L - (L - (maxKeep - k))
                                                  ELSE -(L - (maxKeep - k)))
    BY <2>2, SliceIsLastN
  <2>4. (IF L - (maxKeep - k) >= 0 THEN L - (L - (maxKeep - k))
                                   ELSE -(L - (maxKeep - k))) = n
    BY <1>1 DEF Taken
  <2> QED BY <2>1, <2>3, <2>4
<1>5. LastN(list, n) \in Seq(Message) /\ Len(LastN(list, n)) <= n
  BY <1>1, LastNElements
<1>6. all \in Seq(Message) /\ Len(all) <= maxKeep
  <2>1. all = kept \o LastN(list, n)
    BY <1>4
  <2>2. /\ kept \o LastN(list, n) \in Seq(Message)
        /\ Len(kept \o LastN(list, n)) = Len(kept) + Len(LastN(list, n))
    BY <1>3, <1>5, ConcatProperties
  <2>3. Len(LastN(list, n)) \in Nat
    BY <1>5, LenProperties
  <2>4. Len(kept) + Len(LastN(list, n)) <= maxKeep
    BY <1>1, <1>3, <1>5, <2>3
  <2> QED BY <2>1, <2>2, <2>4
<1>7. Appended(cached, list) = SubSeq(all, 1, Min({maxKeep, Len(all)}))
  BY DEF Appended
<1> HIDE DEF all
<1>8. Min({maxKeep, Len(all)}) = Len(all) /\ Len(all) \in Nat
  BY SMTT(20), <1>1, <1>6, LenProperties, MinOfTwo
<1>9. SubSeq(all, 1, Len(all)) = all
  <2>1. Len(all) >= Len(all) /\ LastN(all, Len(all)) = SubSeq(all, 1, Len(all))
    BY <1>8 DEF LastN
  <2> QED BY <1>6, <1>8, <2>1, LastNWhole
<1> QED BY <1>3, <1>4, <1>7, <1>8, <1>9 DEF all

\* What append leaves: no more than maxKeep, all of it cached or just answered.
LEMMA AppendedType ==
  ASSUME NEW cached \in Seq(Message), NEW list \in Seq(Message)
  PROVE  /\ Appended(cached, list) \in Seq(Message)
         /\ Len(Appended(cached, list)) <= maxKeep
         /\ Range(Appended(cached, list)) \subseteq Range(cached) \cup Range(list)
<1> DEFINE k == Kept(cached, Len(list))
           n == Taken(cached, Len(list))
           a == LastN(cached, k)
           b == LastN(list, n)
<1>1. /\ k \in Nat /\ n \in Nat /\ maxKeep \in Nat /\ n <= maxKeep - k
  BY KeptType, PageAssumption
<1> HIDE DEF k, n
<1>2. /\ a \in Seq(Message) /\ b \in Seq(Message) /\ Len(a) <= k /\ Len(b) <= n
      /\ Len(a) \in Nat /\ Len(b) \in Nat
  <2>1. /\ a \in Seq(Message) /\ Len(a) = IF k < Len(cached) THEN k ELSE Len(cached)
        /\ b \in Seq(Message) /\ Len(b) = IF n < Len(list) THEN n ELSE Len(list)
    BY <1>1, LastNElements
  <2>2. Len(cached) \in Nat /\ Len(list) \in Nat
    BY LenProperties
  <2> QED BY <1>1, <2>1, <2>2
<1>3. Range(a) \subseteq Range(cached) /\ Range(b) \subseteq Range(list)
  <2>1. Range(cached) = {cached[i] : i \in 1..Len(cached)}
    BY RangeEquality
  <2>2. Range(list) = {list[i] : i \in 1..Len(list)}
    BY RangeEquality
  <2>3. Range(a) = {cached[i] : i \in {j \in 1..Len(cached) : j > Len(cached) - k}}
    BY <1>1, LastNRange
  <2>4. Range(b) = {list[i] : i \in {j \in 1..Len(list) : j > Len(list) - n}}
    BY <1>1, LastNRange
  <2> HIDE DEF a, b
  <2> QED BY <2>1, <2>2, <2>3, <2>4
<1>4. Appended(cached, list) = a \o b
  BY AppendedIs DEF k, n
<1> HIDE DEF a, b
<1>5. /\ a \o b \in Seq(Message) /\ Len(a \o b) = Len(a) + Len(b)
      /\ Range(a \o b) = Range(a) \cup Range(b)
  BY <1>2, ConcatProperties, RangeConcatenation
<1> QED BY <1>1, <1>2, <1>3, <1>4, <1>5

\* What the lazy list would show after an answer is what it would have shown
\* before, or what the answer shows.
LEMMA AppendedLatest ==
  ASSUME NEW cached \in Seq(Message), NEW list \in Seq(Message), NEW d \in Nat
  PROVE  Range(LastN(Appended(cached, list), d))
           \subseteq Range(LastN(cached, d)) \cup Range(LastN(list, maxKeep))
<1> DEFINE C == Len(cached)
           k == Kept(cached, Len(list))
           n == Taken(cached, Len(list))
           a == LastN(cached, k)
           b == LastN(list, n)
           all == a \o b
<1>1. /\ k \in 0..C /\ n \in Nat /\ maxKeep \in Nat /\ n <= maxKeep /\ C \in Nat
      /\ Len(list) \in Nat
  BY SMTT(20), KeptType, PageAssumption
<1> HIDE DEF k, n
<1>2. /\ a \in Seq(Message) /\ Len(a) = k /\ b \in Seq(Message) /\ Len(b) \in Nat
      /\ \A i \in 1..k : a[i] = cached[C - k + i]
  <2>1. /\ a \in Seq(Message) /\ Len(a) = IF k < C THEN k ELSE C
        /\ \A i \in 1..Len(a) : a[i] = cached[C - Len(a) + i]
        /\ b \in Seq(Message)
    BY <1>1, LastNElements
  <2>2. Len(a) = k /\ Len(b) \in Nat
    BY <1>1, <2>1, LenProperties
  <2> QED BY <2>1, <2>2
<1>3. Range(b) \subseteq Range(LastN(list, maxKeep))
  <2>1. Range(b) = {list[i] : i \in {j \in 1..Len(list) : j > Len(list) - n}}
    BY <1>1, LastNRange
  <2>2. Range(LastN(list, maxKeep))
          = {list[i] : i \in {j \in 1..Len(list) : j > Len(list) - maxKeep}}
    BY <1>1, LastNRange
  <2>3. \A j \in 1..Len(list) : j > Len(list) - n => j > Len(list) - maxKeep
    BY <1>1
  <2> HIDE DEF b
  <2> QED BY <2>1, <2>2, <2>3
<1>4. Range(LastN(cached, d)) = {cached[i] : i \in {j \in 1..C : j > C - d}}
  BY LastNRange
<1>5. Appended(cached, list) = all
  BY AppendedIs DEF k, n
<1> HIDE DEF a, b, C
<1>6. /\ all \in Seq(Message) /\ Len(all) = k + Len(b)
      /\ \A j \in 1..(k + Len(b)) : all[j] = IF j <= k THEN a[j] ELSE b[j - k]
  BY <1>2, ConcatProperties
<1> HIDE DEF all
<1>7. Range(LastN(all, d)) = {all[i] : i \in {j \in 1..Len(all) : j > Len(all) - d}}
  BY <1>6, LastNRange
<1>8. ASSUME NEW j \in 1..Len(all), j > Len(all) - d
      PROVE  all[j] \in Range(LastN(cached, d)) \cup Range(b)
  <2>1. CASE j <= k
    <3>1. C - k + j \in 1..C /\ C - k + j > C - d /\ j \in 1..k
      BY <1>1, <1>2, <1>6, <1>8, <2>1
    <3>2. all[j] = cached[C - k + j]
      BY <1>2, <1>6, <2>1, <3>1
    <3> QED BY <1>4, <3>1, <3>2
  <2>2. CASE ~(j <= k)
    <3>1. j - k \in 1..Len(b) /\ all[j] = b[j - k]
      BY <1>1, <1>2, <1>6, <2>2
    <3>2. Range(b) = {b[i] : i \in 1..Len(b)}
      BY <1>2, RangeEquality
    <3> QED BY <3>1, <3>2
  <2> QED BY <2>1, <2>2
<1> QED BY <1>3, <1>5, <1>7, <1>8

\* A list has no more different messages than places.
LEMMA RangeIsFinite ==
  ASSUME NEW s \in Seq(Message)
  PROVE  IsFiniteSet(Range(s)) /\ Cardinality(Range(s)) <= Len(s) /\ Len(s) \in Nat
<1>1. Len(s) \in Nat /\ IsFiniteSet(1..Len(s)) /\ Cardinality(1..Len(s)) = Len(s)
  <2>1. Len(s) \in Nat
    BY LenProperties
  <2>2. IsFiniteSet(1..Len(s)) /\ Cardinality(1..Len(s)) = IF 1 > Len(s) THEN 0 ELSE Len(s) - 1 + 1
    BY SMTT(20), <2>1, FS_Interval
  <2> QED BY <2>1, <2>2
<1>2. Range(s) = {s[i] : i \in 1..Len(s)}
  BY RangeEquality
<1>3. s \in Surjection(1..Len(s), Range(s))
  <2>1. s \in [1..Len(s) -> Range(s)]
    <3>1. s \in [1..Len(s) -> Message]
      BY LenProperties
    <3> QED BY <1>2, <3>1
  <2> QED BY <1>2, <2>1 DEF Surjection
<1> QED BY <1>1, <1>3, FS_Surjection
---------------------------------------------------------------------------
(* Types: the page never keeps more than maxKeep messages.                   *)

RequestRecord == [at : {"none", "timer", "sent", "answered"},
                  inner : PollType \cup {"none"}, type : PollType,
                  success : BOOLEAN, detail : Seq(Message)]

LEMMA NoRequestType == NoRequest \in RequestRecord
BY EmptySeq DEF NoRequest, RequestRecord, PollType

LEMMA AnswerType ==
  ASSUME request \in [Request -> RequestRecord], NEW r \in Request,
         NEW success \in BOOLEAN, NEW detail \in Seq(Message),
         Answer(r, success, detail)
  PROVE  request' \in [Request -> RequestRecord]
<1> DEFINE new == [request[r] EXCEPT !.at = "answered", !.success = success,
                                     !.detail = detail]
<1>1. new \in RequestRecord
  BY DEF RequestRecord
<1>2. request' = [request EXCEPT ![r] = new]
  BY DEF Answer
<1> QED BY <1>1, <1>2

LEMMA PollOnceType ==
  ASSUME request \in [Request -> RequestRecord], NEW type \in PollType, PollOnce(type)
  PROVE  request' \in [Request -> RequestRecord]
<1>1. [NoRequest EXCEPT !.at = "sent", !.inner = type, !.type = type] \in RequestRecord
  BY NoRequestType DEF RequestRecord
<1> QED BY <1>1 DEF PollOnce, Request

LEMMA CompletedType ==
  ASSUME request \in [Request -> RequestRecord], NEW r \in Request, Completed(r)
  PROVE  request' \in [Request -> RequestRecord]
<1>1. [NoRequest EXCEPT !.at = "timer"] \in RequestRecord
  BY NoRequestType DEF RequestRecord
<1> QED BY <1>1, NoRequestType DEF Completed

\* The lists that are shown hold messages.
LEMMA ShownType ==
  ASSUME cachedList \in Seq(Message)
  PROVE  /\ \A n \in Nat : Range(LastestList(n)) \subseteq Range(cachedList)
         /\ Range(cachedList) \subseteq Message
         /\ \A s \in Seq(Message) : Blog(s) \subseteq Range(s) /\ Range(s) \subseteq Message
<1>1. ASSUME NEW s \in Seq(Message), NEW n \in Nat
      PROVE  Range(LastN(s, n)) \subseteq Range(s) /\ Range(s) \subseteq Message
  <2>1. Range(LastN(s, n)) = {s[i] : i \in {j \in 1..Len(s) : j > Len(s) - n}}
    BY LastNRange
  <2>2. Range(s) = {s[i] : i \in 1..Len(s)}
    BY RangeEquality
  <2> QED BY <2>1, <2>2, RangeOfSeq
<1>2. maxKeep \in Nat
  BY PageAssumption
<1> QED BY <1>1, <1>2, LatestIsLastN, BlogIsLastN

LEMMA TypeInit == Init => TypeOK
<1> SUFFICES ASSUME Init PROVE TypeOK
  OBVIOUS
<1>1. [NoRequest EXCEPT !.at = "timer", !.inner = "HISTORY"] \in RequestRecord
  BY NoRequestType DEF RequestRecord, PollType
<1>2. request \in [Request -> RequestRecord]
  BY <1>1, NoRequestType DEF Init
<1>3. cachedList \in Seq(Message) /\ Len(cachedList) <= maxKeep /\ waiting \in Seq(Message)
  BY PageAssumption, EmptySeq DEF Init
<1>4. /\ posted \in 0..MaxPosted /\ errors \in 0..MaxErrors /\ unread \in Nat
      /\ listening \in BOOLEAN /\ logined \in BOOLEAN /\ autoLoad \in BOOLEAN
      /\ refreshDisabled \in BOOLEAN /\ popupUnread \in BOOLEAN
      /\ currentMode \in {"LAZY", "EAGER"}
      /\ lazyShown \subseteq Message /\ chatShown \subseteq Message
  <2>1. posted \in 0..MaxPosted /\ errors \in 0..MaxErrors /\ unread \in Nat
    BY PageAssumption DEF Init
  <2>2. /\ listening \in BOOLEAN /\ logined \in BOOLEAN /\ autoLoad \in BOOLEAN
        /\ refreshDisabled \in BOOLEAN /\ popupUnread \in BOOLEAN
    BY DEF Init
  <2> QED BY <2>1, <2>2 DEF Init
<1> QED BY <1>2, <1>3, <1>4 DEF TypeOK, RequestRecord

LEMMA TypeStep == TypeOK /\ [Next]_vars => TypeOK'
<1> SUFFICES ASSUME TypeOK, [Next]_vars PROVE TypeOK'
  OBVIOUS
<1>1. /\ request \in [Request -> RequestRecord] /\ waiting \in Seq(Message)
      /\ cachedList \in Seq(Message) /\ posted \in 0..MaxPosted /\ MaxPosted \in Nat
      /\ errors \in 0..MaxErrors /\ MaxErrors \in Nat /\ "loop" \in Request
      /\ Len(cachedList) <= maxKeep /\ unread \in Nat
      /\ DisplayLimit \in Nat /\ maxKeep \in Nat
      /\ currentMode \in {"LAZY", "EAGER"}
      /\ listening \in BOOLEAN /\ logined \in BOOLEAN /\ autoLoad \in BOOLEAN
      /\ refreshDisabled \in BOOLEAN /\ popupUnread \in BOOLEAN
      /\ lazyShown \subseteq Message /\ chatShown \subseteq Message
  BY PageAssumption DEF TypeOK, RequestRecord, Request
<1> DEFINE ServerOK == /\ posted \in 0..MaxPosted /\ waiting \in Seq(Message)
                       /\ errors \in 0..MaxErrors /\ listening \in BOOLEAN
           PollOK == logined \in BOOLEAN /\ request \in [Request -> RequestRecord]
           ModeOK == /\ currentMode \in {"LAZY", "EAGER"}
                     /\ autoLoad \in BOOLEAN /\ refreshDisabled \in BOOLEAN
           ListOK == /\ cachedList \in Seq(Message) /\ Len(cachedList) <= maxKeep
                     /\ unread \in Nat /\ popupUnread \in BOOLEAN
                     /\ lazyShown \subseteq Message /\ chatShown \subseteq Message
<1>2. ServerOK /\ PollOK /\ ModeOK /\ ListOK
  BY <1>1
<1>3. ServerOK' /\ PollOK' /\ ModeOK' /\ ListOK' => TypeOK'
  BY DEF TypeOK, RequestRecord
<1>4. /\ UNCHANGED serverVars => ServerOK'
      /\ UNCHANGED pollVars => PollOK'
      /\ UNCHANGED modeVars => ModeOK'
      /\ UNCHANGED listVars => ListOK'
  BY <1>2 DEF serverVars, pollVars, modeVars, listVars
<1>5. \A set \in BOOLEAN : AutoLoad(set, currentMode) /\ UNCHANGED currentMode => ModeOK'
  BY <1>1 DEF AutoLoad
<1>6. ClearAndFillLazyList => lazyShown' \subseteq Message
  BY <1>1, ShownType DEF ClearAndFillLazyList
<1>7. CASE Post
  BY <1>1, <1>3, <1>4, <1>7 DEF Post, Message
<1>8. CASE Login
  BY <1>1, <1>3, <1>4, <1>8 DEF Login
<1>9. CASE Impl
  <2>1. request' \in [Request -> RequestRecord]
    <3> DEFINE inner == request["loop"].inner
               type == IF inner = "none" THEN currentMode ELSE inner
    <3>1. inner \in PollType \cup {"none"} /\ type \in PollType
      BY <1>1 DEF RequestRecord, PollType
    <3>2. /\ [NoRequest EXCEPT !.at = "sent", !.inner = inner, !.type = type] \in RequestRecord
          /\ [NoRequest EXCEPT !.at = "timer", !.inner = type] \in RequestRecord
      BY <3>1, NoRequestType DEF RequestRecord
    <3>3. request' = [request EXCEPT !["loop"] =
             IF logined THEN [NoRequest EXCEPT !.at = "sent", !.inner = inner, !.type = type]
                        ELSE [NoRequest EXCEPT !.at = "timer", !.inner = type]]
      BY <1>9 DEF Impl
    <3> QED BY <1>1, <3>2, <3>3
  <2> QED BY <1>1, <1>3, <1>4, <1>9, <2>1 DEF Impl
<1>10. ASSUME NEW r \in Request, Serve(r) PROVE TypeOK'
  <2>1. [m \in 1 .. posted |-> m] \in Seq(Message)
    BY <1>1 DEF Message
  <2>2. request' \in [Request -> RequestRecord]
    BY <1>1, <1>10, <2>1, AnswerType, EmptySeq DEF Serve
  <2>3. waiting' \in Seq(Message)
    BY <1>1, <1>10, EmptySeq DEF Serve
  <2> QED BY <1>1, <1>3, <1>4, <1>10, <2>2, <2>3 DEF Serve
<1>11. ASSUME NEW r \in Request, ServeError(r) PROVE TypeOK'
  <2>1. request' \in [Request -> RequestRecord]
    BY <1>1, <1>11, AnswerType, EmptySeq DEF ServeError
  <2> QED BY <1>1, <1>3, <1>4, <1>11, <2>1 DEF ServeError
<1>12. ASSUME NEW r \in Request, Success(r) PROVE TypeOK'
  <2>1. request' \in [Request -> RequestRecord]
    BY <1>1, <1>12, CompletedType DEF Success
  <2>2. PollOK' /\ ServerOK'
    BY <1>1, <1>4, <1>12, <2>1 DEF Success
  <2>3. ModeOK' /\ ListOK'
    <3>1. CASE LoadMessagesResults(request[r].detail)
      <4> DEFINE list == request[r].detail
      <4>1. list \in Seq(Message)
        BY <1>1 DEF RequestRecord
      <4> HIDE DEF list
      <4>2. LoadMessagesResults(list)
        BY <3>1 DEF list
      <4>3. /\ cachedList' = Appended(cachedList, list)
            /\ cachedList' \in Seq(Message) /\ Len(cachedList') <= maxKeep
        BY <1>1, <4>1, <4>2, AppendedType DEF LoadMessagesResults
      <4>4. /\ Range(list) \subseteq Message /\ Blog(list) \subseteq Message
            /\ Len(list) \in Nat
        BY <1>1, <4>1, ShownType, LenProperties
      <4>5. /\ unread' \in Nat /\ popupUnread' \in BOOLEAN
            /\ lazyShown' \subseteq Message /\ chatShown' \subseteq Message
        <5>1. CASE currentMode = "EAGER"
          BY <1>1, <4>2, <4>4, <5>1 DEF LoadMessagesResults
        <5>2. CASE currentMode = "LAZY" /\ autoLoad
          BY <1>1, <4>2, <4>4, <5>2 DEF LoadMessagesResults
        <5>3. CASE currentMode = "LAZY" /\ ~autoLoad
          <6>1. /\ unread' = unread + Len(list) /\ popupUnread' = TRUE
                /\ UNCHANGED <<lazyShown, chatShown>>
            BY <4>2, <5>3 DEF LoadMessagesResults
          <6>2. unread' \in Nat
            BY <1>1, <4>4, <6>1
          <6> QED BY <1>1, <6>1, <6>2
        <5> QED BY <1>1, <5>1, <5>2, <5>3
      <4>6. ModeOK'
        BY <1>4, <1>5, <4>2 DEF LoadMessagesResults
      <4> QED BY <4>3, <4>5, <4>6
    <3>2. CASE AutoLoad(FALSE, currentMode) /\ UNCHANGED currentMode /\ UNCHANGED listVars
      BY <1>4, <1>5, <3>2
    <3>3. CASE UNCHANGED modeVars /\ UNCHANGED listVars
      BY <1>4, <3>3
    <3> QED BY <1>12, <3>1, <3>2, <3>3 DEF Success
  <2> QED BY <1>3, <2>2, <2>3
<1>13. ASSUME NEW r \in Request, Error(r) PROVE TypeOK'
  <2>1. request' \in [Request -> RequestRecord]
    BY <1>1, <1>13, CompletedType DEF Error
  <2> QED BY <1>1, <1>3, <1>4, <1>13, <2>1 DEF Error
<1>14. CASE OnButtonRefreshClicked
  <2>1. request' \in [Request -> RequestRecord]
    BY <1>1, <1>14, PollOnceType DEF OnButtonRefreshClicked, PollType
  <2>2. ModeOK'
    BY <1>4, <1>5, <1>14 DEF OnButtonRefreshClicked
  <2>3. lazyShown' \subseteq Message
    BY <1>1, <1>6, <1>14 DEF OnButtonRefreshClicked
  <2> QED BY <1>1, <1>3, <1>4, <1>14, <2>1, <2>2, <2>3 DEF OnButtonRefreshClicked
<1>15. CASE TalkSucceeded
  <2>1. request' \in [Request -> RequestRecord]
    BY <1>1, <1>15, PollOnceType DEF TalkSucceeded, PollType
  <2>2. ModeOK'
    BY <1>5, <1>15 DEF TalkSucceeded
  <2> QED BY <1>1, <1>3, <1>4, <1>15, <2>1, <2>2 DEF TalkSucceeded
<1>16. CASE OnButtonViewClicked
  BY <1>1, <1>3, <1>4, <1>6, <1>16 DEF OnButtonViewClicked
<1>17. CASE OnButtonLaterClicked
  BY <1>1, <1>3, <1>4, <1>17 DEF OnButtonLaterClicked
<1>18. CASE OnButtonPollSwitchClicked
  <2>1. request' \in [Request -> RequestRecord]
    BY <1>1, <1>18, PollOnceType
    DEF OnButtonPollSwitchClicked, SwitchToEager, SwitchToLazy, PollType
  <2>2. lazyShown' \subseteq Message /\ chatShown' \subseteq Message
    BY <1>1, <1>6, <1>18, ShownType
    DEF OnButtonPollSwitchClicked, SwitchToEager, SwitchToLazy
  <2>3. ModeOK'
    BY <1>1, <1>18 DEF OnButtonPollSwitchClicked, SwitchToEager, SwitchToLazy
  <2> QED BY <1>1, <1>3, <1>4, <1>18, <2>1, <2>2, <2>3 DEF OnButtonPollSwitchClicked
<1>19. CASE PageShow
  BY <1>1, <1>3, <1>4, <1>5, <1>19 DEF PageShow
<1>20. CASE UNCHANGED vars
  BY <1>3, <1>4, <1>20 DEF vars
<1> QED BY <1>7, <1>8, <1>9, <1>10, <1>11, <1>12, <1>13, <1>14, <1>15, <1>16, <1>17,
           <1>18, <1>19, <1>20 DEF Next

\* Every variable of the page has values of its type, whatever the answers are
\* and in whatever order they come: no list grows beyond maxKeep.
THEOREM PageTypeCorrect == Spec => []TypeOK
BY TypeInit, TypeStep, PTL DEF Spec
---------------------------------------------------------------------------
(* What is shown and what is counted.                                        *)

\* The newest messages the lazy list would show and does not.
Hidden == Range(LastN(cachedList, DisplayLimit)) \ lazyShown

LEMMA HiddenIsFinite ==
  TypeOK => IsFiniteSet(Hidden) /\ Cardinality(Hidden) \in Nat
<1> SUFFICES ASSUME TypeOK PROVE IsFiniteSet(Hidden)
  BY FS_CardinalityType
<1>1. LastN(cachedList, DisplayLimit) \in Seq(Message)
  BY PageAssumption, LastNElements DEF TypeOK
<1> QED BY <1>1, RangeIsFinite, FS_Subset DEF Hidden

LEMMA NewestIsLastN ==
  TypeOK => LastestList(DisplayLimit) = LastN(cachedList, DisplayLimit)
BY PageAssumption, LatestIsLastN DEF TypeOK

LEMMA UnreadMeaning ==
  TypeOK => (UnreadCovers <=> (currentMode = "LAZY" => Cardinality(Hidden) <= unread))
BY NewestIsLastN DEF UnreadCovers, Hidden

\* An answer that is shown hides nothing more, one that is not counts for as
\* many messages as it has.
LEMMA LoadKeepsUnread ==
  ASSUME TypeOK, TypeOK', UnreadCovers, NEW list \in Seq(Message),
         LoadMessagesResults(list)
  PROVE  UnreadCovers'
<1>1. /\ cachedList \in Seq(Message) /\ DisplayLimit \in Nat /\ maxKeep \in Nat
      /\ unread \in Nat /\ Len(list) \in Nat
  BY PageAssumption, LenProperties DEF TypeOK
<1>2. /\ IsFiniteSet(Hidden) /\ Cardinality(Hidden) \in Nat
      /\ IsFiniteSet(Hidden') /\ Cardinality(Hidden') \in Nat
  <2>1. IsFiniteSet(Hidden) /\ Cardinality(Hidden) \in Nat
    BY HiddenIsFinite
  <2>2. LastN(cachedList', DisplayLimit) \in Seq(Message)
    BY <1>1, LastNElements DEF TypeOK
  <2>3. IsFiniteSet(Hidden')
    BY <2>2, RangeIsFinite, FS_Subset DEF Hidden
  <2> QED BY <2>1, <2>3, FS_CardinalityType
<1>3. Range(LastN(cachedList', DisplayLimit))
        \subseteq Range(LastN(cachedList, DisplayLimit)) \cup Blog(list)
  BY <1>1, AppendedLatest, BlogIsLastN DEF LoadMessagesResults
<1>4. currentMode = "LAZY" => Cardinality(Hidden) <= unread
  BY UnreadMeaning
<1>8. Cardinality(Hidden') <= unread' => UnreadCovers'
  <2>1. LastestList(DisplayLimit)' = LastN(cachedList', DisplayLimit)
    <3>1. (TypeOK => LastestList(DisplayLimit) = LastN(cachedList, DisplayLimit))'
      BY NewestIsLastN, PTL
    <3> QED BY <3>1
  <2> QED BY <2>1 DEF UnreadCovers, Hidden
<1>5. CASE currentMode = "EAGER"
  BY <1>5 DEF LoadMessagesResults, modeVars, UnreadCovers
<1>6. CASE currentMode = "LAZY" /\ autoLoad
  <2>1. lazyShown' = lazyShown \cup Blog(list) /\ unread' = unread
    BY <1>6 DEF LoadMessagesResults
  <2>2. Hidden' \subseteq Hidden
    BY <1>3, <2>1 DEF Hidden
  <2>3. Cardinality(Hidden') <= Cardinality(Hidden)
    BY <1>2, <2>2, FS_Subset
  <2>4. Cardinality(Hidden') <= unread'
    BY <1>1, <1>2, <1>4, <1>6, <2>1, <2>3
  <2> QED BY <1>8, <2>4
<1>7. CASE currentMode = "LAZY" /\ ~autoLoad
  <2>1. lazyShown' = lazyShown /\ unread' = unread + Len(list)
    BY <1>7 DEF LoadMessagesResults
  <2>2. Hidden' \subseteq Hidden \cup Range(list)
    <3>1. Blog(list) \subseteq Range(list)
      BY <1>1, ShownType
    <3> QED BY <1>3, <2>1, <3>1 DEF Hidden
  <2>3. IsFiniteSet(Range(list)) /\ Cardinality(Range(list)) <= Len(list)
        /\ Cardinality(Range(list)) \in Nat
    BY RangeIsFinite, FS_CardinalityType
  <2>4. /\ IsFiniteSet(Hidden \cup Range(list))
        /\ Cardinality(Hidden \cup Range(list)) <= Cardinality(Hidden) + Cardinality(Range(list))
    <3>1. Cardinality(Hidden \cap Range(list)) \in Nat
      BY <1>2, FS_Subset, FS_CardinalityType
    <3>2. /\ IsFiniteSet(Hidden \cup Range(list))
          /\ Cardinality(Hidden \cup Range(list))
               = Cardinality(Hidden) + Cardinality(Range(list))
                 - Cardinality(Hidden \cap Range(list))
      BY <1>2, <2>3, FS_Union
    <3> QED BY <1>2, <2>3, <3>1, <3>2
  <2>5. Cardinality(Hidden') <= Cardinality(Hidden \cup Range(list))
        /\ Cardinality(Hidden \cup Range(list)) \in Nat
    BY <2>2, <2>4, FS_Subset, FS_CardinalityType
  <2>6. Cardinality(Hidden') <= unread'
    BY <1>1, <1>2, <1>4, <1>7, <2>1, <2>3, <2>4, <2>5
  <2> QED BY <1>8, <2>6
<1> QED BY <1>5, <1>6, <1>7 DEF TypeOK

\* The list filled anew hides nothing.
LEMMA FillKeepsUnread ==
  ASSUME TypeOK, UNCHANGED cachedList, ClearAndFillLazyList, unread' \in Nat
  PROVE  UnreadCovers'
<1>1. LastestList(DisplayLimit)' = LastestList(DisplayLimit)
  BY DEF LastestList
<1>2. Range(LastestList(DisplayLimit)') \ lazyShown' = {}
  BY <1>1 DEF ClearAndFillLazyList
<1> QED BY <1>2, FS_EmptySet DEF UnreadCovers

LEMMA UnreadStep == TypeOK /\ UnreadCovers /\ [Next]_vars => UnreadCovers'
<1> SUFFICES ASSUME TypeOK, UnreadCovers, [Next]_vars PROVE UnreadCovers'
  OBVIOUS
<1>1. TypeOK'
  BY TypeStep
<1>2. request \in [Request -> RequestRecord] /\ unread' \in Nat
  BY <1>1 DEF TypeOK, RequestRecord
<1>3. CASE UNCHANGED <<cachedList, lazyShown, unread, currentMode>>
  BY <1>3 DEF UnreadCovers, LastestList
<1>4. ASSUME NEW r \in Request, Success(r), LoadMessagesResults(request[r].detail)
      PROVE  UnreadCovers'
  <2>1. request[r].detail \in Seq(Message)
    BY <1>2 DEF RequestRecord
  <2> QED BY <1>1, <1>4, <2>1, LoadKeepsUnread
<1>5. CASE UNCHANGED cachedList /\ ClearAndFillLazyList
  BY <1>2, <1>5, FillKeepsUnread
<1>6. CASE currentMode' = "EAGER"
  BY <1>6 DEF UnreadCovers
<1>7. \/ UNCHANGED <<cachedList, lazyShown, unread, currentMode>>
      \/ \E r \in Request : Success(r) /\ LoadMessagesResults(request[r].detail)
      \/ UNCHANGED cachedList /\ ClearAndFillLazyList
      \/ currentMode' = "EAGER"
  <2>1. ASSUME NEW r \in Request, Success(r)
        PROVE  \/ UNCHANGED <<cachedList, lazyShown, unread, currentMode>>
               \/ LoadMessagesResults(request[r].detail)
    BY <2>1 DEF Success, modeVars, listVars
  <2>2. CASE OnButtonPollSwitchClicked
    BY <2>2 DEF OnButtonPollSwitchClicked, SwitchToEager, SwitchToLazy
  <2> QED BY <2>1, <2>2
          DEF Next, Post, Login, Impl, Serve, ServeError, Error, OnButtonRefreshClicked,
              TalkSucceeded, OnButtonViewClicked, OnButtonLaterClicked, PageShow, vars,
              modeVars, listVars
<1> QED BY <1>3, <1>4, <1>5, <1>6, <1>7

\* In the lazy mode no recent message is both hidden and uncounted, for every
\* length of the lists: neither the answers that overtake each other nor the
\* changes of the mode lose count of one.
THEOREM UnreadAlwaysCovers == Spec => []UnreadCovers
<1>1. Init => UnreadCovers
  <2> SUFFICES ASSUME Init PROVE UnreadCovers
    OBVIOUS
  <2>1. TypeOK /\ cachedList = <<>> /\ unread = 0
    BY TypeInit DEF Init
  <2>2. DisplayLimit \in Nat
    BY PageAssumption
  <2>3. Range(LastN(cachedList, DisplayLimit)) \subseteq Range(cachedList)
    BY <2>1, <2>2, ShownType, LatestIsLastN DEF TypeOK
  <2>4. Hidden = {}
    BY <2>1, <2>3 DEF Hidden, Range
  <2> QED BY <2>1, <2>4, UnreadMeaning, FS_EmptySet
<1> QED BY <1>1, UnreadStep, PageTypeCorrect, PTL DEF Spec

LEMMA ChatStep == TypeOK /\ ChatShowsAll /\ [Next]_vars => ChatShowsAll'
<1> SUFFICES ASSUME TypeOK, ChatShowsAll, [Next]_vars PROVE ChatShowsAll'
  OBVIOUS
<1>1. /\ cachedList \in Seq(Message) /\ Len(cachedList) <= maxKeep /\ maxKeep \in Nat
      /\ request \in [Request -> RequestRecord] /\ currentMode \in {"LAZY", "EAGER"}
  BY PageAssumption DEF TypeOK, RequestRecord
<1>2. CASE UNCHANGED <<cachedList, chatShown, currentMode>>
  BY <1>2 DEF ChatShowsAll
<1>3. ASSUME NEW r \in Request, LoadMessagesResults(request[r].detail)
      PROVE  ChatShowsAll'
  <2> DEFINE list == request[r].detail
  <2>1. list \in Seq(Message)
    BY <1>1 DEF RequestRecord
  <2>2. Range(cachedList') \subseteq Range(cachedList) \cup Range(list)
    BY <1>1, <1>3, <2>1, AppendedType DEF LoadMessagesResults
  <2>3. CASE currentMode = "EAGER"
    BY <1>3, <2>2, <2>3 DEF LoadMessagesResults, ChatShowsAll
  <2>4. CASE currentMode = "LAZY"
    BY <1>3, <2>4 DEF LoadMessagesResults, ChatShowsAll, modeVars
  <2> QED BY <1>1, <2>3, <2>4
<1>4. CASE SwitchToEager /\ UNCHANGED cachedList
  <2>1. LastestList(maxKeep) = cachedList
    BY <1>1, LatestIsLastN, LastNWhole
  <2> QED BY <1>4, <2>1 DEF SwitchToEager, ChatShowsAll
<1>5. CASE currentMode' = "LAZY"
  BY <1>5 DEF ChatShowsAll
<1>6. \/ UNCHANGED <<cachedList, chatShown, currentMode>>
      \/ \E r \in Request : LoadMessagesResults(request[r].detail)
      \/ SwitchToEager /\ UNCHANGED cachedList
      \/ currentMode' = "LAZY"
  <2>1. ASSUME NEW r \in Request, Success(r)
        PROVE  \/ UNCHANGED <<cachedList, chatShown, currentMode>>
               \/ LoadMessagesResults(request[r].detail)
    BY <2>1 DEF Success, modeVars, listVars
  <2>2. CASE OnButtonPollSwitchClicked
    BY <2>2 DEF OnButtonPollSwitchClicked, SwitchToLazy
  <2> QED BY <2>1, <2>2
          DEF Next, Post, Login, Impl, Serve, ServeError, Error, OnButtonRefreshClicked,
              TalkSucceeded, OnButtonViewClicked, OnButtonLaterClicked, PageShow, vars,
              modeVars, listVars
<1> QED BY <1>2, <1>3, <1>4, <1>5, <1>6

\* The chat shows every message the page keeps: the change of the mode leaves
\* none behind, and an answer that comes after it adds its own.
THEOREM ChatAlwaysShowsAll == Spec => []ChatShowsAll
<1>1. Init => ChatShowsAll
  BY DEF Init, ChatShowsAll
<1> QED BY <1>1, ChatStep, PageTypeCorrect, PTL DEF Spec
---------------------------------------------------------------------------
(* What an answer leaves of the cache.                                       *)

LEMMA LastIsSuffix ==
  ASSUME NEW S, NEW t \in Seq(S), t # <<>>
  PROVE  IsSuffix(<<t[Len(t)]>>, t)
<1> DEFINE x == t[Len(t)]
           u == Reverse(t)
           v == Reverse(<<x>>)
<1>1. Len(t) \in Nat /\ Len(t) >= 1 /\ x \in S
  BY EmptySeq, LenProperties, ElementOfSeq
<1> HIDE DEF x
<1>2. u \in Seq(S) /\ Len(u) = Len(t) /\ u[1] = x
  BY <1>1 DEF Reverse, x
<1>3. <<x>> \in Seq(S) /\ Len(<<x>>) = 1 /\ v \in Seq(S) /\ Len(v) = 1 /\ v[1] = x
  BY <1>1 DEF Reverse
<1> HIDE DEF u, v
<1>4. SubSeq(v, 1, 1) = SubSeq(u, 1, 1)
  <2>1. /\ SubSeq(v, 1, 1) \in Seq(S) /\ Len(SubSeq(v, 1, 1)) = 1 /\ SubSeq(v, 1, 1)[1] = x
    BY <1>1, <1>3
  <2>2. /\ SubSeq(u, 1, 1) \in Seq(S) /\ Len(SubSeq(u, 1, 1)) = 1 /\ SubSeq(u, 1, 1)[1] = x
    BY <1>1, <1>2
  <2>3. \A i \in 1..Len(SubSeq(v, 1, 1)) : SubSeq(v, 1, 1)[i] = SubSeq(u, 1, 1)[i]
    BY <2>1, <2>2
  <2> QED BY <2>1, <2>2, <2>3, SeqEqual
<1> QED BY <1>1, <1>2, <1>3, <1>4 DEF IsSuffix, IsPrefix, u, v, x

\* An answer that fills the cache leaves the newest maxKeep of both.
LEMMA FullAppend ==
  ASSUME NEW cached \in Seq(Message), NEW list \in Seq(Message),
         Len(cached) <= maxKeep, Len(cached) + Len(list) >= maxKeep
  PROVE  Appended(cached, list) = LastN(cached \o list, maxKeep)
<1> DEFINE C == Len(cached)
           L == Len(list)
           K == maxKeep
           k == Kept(cached, L)
           n == Taken(cached, L)
           a == LastN(cached, k)
           b == LastN(list, n)
           all == cached \o list
           new == a \o b
           last == LastN(all, K)
<1>1. C \in Nat /\ L \in Nat /\ K \in Nat /\ C <= K /\ C + L >= K
  BY LenProperties, PageAssumption
<1>2. /\ n = (IF L < K THEN L ELSE K) /\ k = K - n /\ k \in 0..C /\ n \in 0..L
  <2>1. n = IF L >= K - k THEN K - k ELSE (K - k) - L
    BY DEF Taken
  <2>2. k = IF L < K /\ K - L < C THEN K - L ELSE IF L < K THEN C ELSE 0
    BY DEF Kept
  <2> HIDE DEF k, n, C, L, K
  <2>3. CASE L >= K
    <3>1. k = 0 /\ n = K
      BY <1>1, <2>1, <2>2, <2>3
    <3> QED BY <1>1, <2>3, <3>1
  <2>4. CASE L < K
    <3>1. k = K - L
      BY <1>1, <2>2, <2>4
    <3>2. n = L
      BY <1>1, <2>1, <3>1
    <3> QED BY <1>1, <2>4, <3>1, <3>2
  <2> QED BY <1>1, <2>3, <2>4
<1>3. Appended(cached, list) = new
  BY AppendedIs
<1> HIDE DEF k, n
<1>4. /\ a \in Seq(Message) /\ Len(a) = k /\ \A i \in 1..k : a[i] = cached[C - k + i]
  <2>1. /\ a \in Seq(Message) /\ Len(a) = (IF k < C THEN k ELSE C)
        /\ \A i \in 1..Len(a) : a[i] = cached[C - Len(a) + i]
    <3>1. k \in Nat
      BY <1>1, <1>2
    <3> QED BY <3>1, LastNElements
  <2> HIDE DEF a, C, L, K
  <2>2. Len(a) = k
    BY <1>1, <1>2, <2>1
  <2> QED BY <2>1, <2>2
<1>5. /\ b \in Seq(Message) /\ Len(b) = n /\ \A i \in 1..n : b[i] = list[L - n + i]
  <2>1. /\ b \in Seq(Message) /\ Len(b) = (IF n < L THEN n ELSE L)
        /\ \A i \in 1..Len(b) : b[i] = list[L - Len(b) + i]
    <3>1. n \in Nat
      BY <1>1, <1>2
    <3> QED BY <3>1, LastNElements
  <2> HIDE DEF b, C, L, K
  <2>2. Len(b) = n
    BY <1>1, <1>2, <2>1
  <2> QED BY <2>1, <2>2
<1> HIDE DEF a, b
<1>6. /\ new \in Seq(Message) /\ Len(new) = k + n
      /\ \A i \in 1..(k + n) : new[i] = IF i <= k THEN a[i] ELSE b[i - k]
  <2>1. /\ new \in Seq(Message) /\ Len(new) = Len(a) + Len(b)
        /\ \A i \in 1..(Len(a) + Len(b)) : new[i] = IF i <= Len(a) THEN a[i] ELSE b[i - Len(a)]
    <3>1. a \in Seq(Message) /\ b \in Seq(Message)
      BY <1>4, <1>5
    <3> QED BY <3>1, ConcatProperties
  <2> HIDE DEF new
  <2> QED BY <1>4, <1>5, <2>1
<1>7. /\ all \in Seq(Message) /\ Len(all) = C + L
      /\ \A i \in 1..(C + L) : all[i] = IF i <= C THEN cached[i] ELSE list[i - C]
  BY ConcatProperties
<1> HIDE DEF new, all
<1>8. /\ last \in Seq(Message) /\ Len(last) = K
      /\ \A i \in 1..K : last[i] = all[C + L - K + i]
  <2>1. /\ last \in Seq(Message) /\ Len(last) = (IF K < Len(all) THEN K ELSE Len(all))
        /\ \A i \in 1..Len(last) : last[i] = all[Len(all) - Len(last) + i]
    BY <1>1, <1>7, LastNElements
  <2> HIDE DEF last, C, L, K
  <2>2. Len(last) = K /\ Len(all) = C + L
    BY <1>1, <1>7, <2>1
  <2>3. \A i \in 1..K : \A p : p = C + L - K + i => last[i] = all[p]
    <3> SUFFICES ASSUME NEW i \in 1..K, NEW p, p = C + L - K + i
                 PROVE  last[i] = all[p]
      OBVIOUS
    <3>1. p = Len(all) - Len(last) + i /\ i \in 1..Len(last)
      BY <1>1, <2>2
    <3>2. last[i] = all[Len(all) - Len(last) + i]
      BY <2>1, <3>1, Zenon
    <3> QED BY <3>1, <3>2, Zenon
  <2> QED BY <2>1, <2>2, <2>3
<1> HIDE DEF last, C, L, K
<1>9. k + n = K
  BY <1>1, <1>2
<1>10. ASSUME NEW i \in 1..K PROVE new[i] = last[i]
  <2>1. C + L - K + i \in 1..(C + L) /\ last[i] = all[C + L - K + i]
    BY <1>1, <1>8
  <2>2. CASE i <= k
    <3>1. /\ C + L - K + i <= C /\ C + L - K + i = C - k + i /\ i \in 1..k
      BY <1>1, <1>2, <2>2
    <3>2. new[i] = cached[C - k + i]
      BY <1>4, <1>6, <1>9, <2>2, <3>1
    <3>3. last[i] = cached[C + L - K + i]
      <4>1. \A p : p = C + L - K + i
                     => all[p] = IF p <= C THEN cached[p] ELSE list[p - C]
        BY <1>7, <2>1
      <4> QED BY <2>1, <3>1, <4>1
    <3> QED BY <3>1, <3>2, <3>3
  <2>3. CASE ~(i <= k)
    <3>1. /\ ~(C + L - K + i <= C) /\ i - k \in 1..n
          /\ C + L - K + i - C = L - n + (i - k)
      BY <1>1, <1>2, <2>3
    <3>2. new[i] = list[L - n + (i - k)]
      BY <1>5, <1>6, <1>9, <2>3, <3>1
    <3>3. last[i] = list[C + L - K + i - C]
      <4>1. \A p : p = C + L - K + i
                     => all[p] = list[p - C]
        BY <1>7, <2>1, <3>1
      <4> QED BY <1>1, <1>2, <2>1, <3>1, <4>1
    <3> QED BY <3>1, <3>2, <3>3
  <2> QED BY <2>2, <2>3
<1>11. new = last
  BY <1>6, <1>8, <1>9, <1>10, SeqEqual
<1> QED BY <1>3, <1>11 DEF last, all, K

\* One that does not is added, but for its oldest messages when there are more of
\* them than half of the room.
LEMMA PartAppend ==
  ASSUME NEW cached \in Seq(Message), NEW list \in Seq(Message), list # <<>>,
         Len(cached) + Len(list) < maxKeep
  PROVE  \/ Appended(cached, list) = cached \o list
         \/ /\ Len(cached \o list) + Len(list) > maxKeep
            /\ Appended(cached, list) # <<>>
            /\ IsSuffix(<<Last(cached \o list)>>, Appended(cached, list))
<1> DEFINE C == Len(cached)
           L == Len(list)
           n == Taken(cached, L)
           b == LastN(list, n)
           all == cached \o list
           new == cached \o b
<1>1. C \in Nat /\ L \in Nat /\ maxKeep \in Nat /\ L >= 1 /\ C + L < maxKeep
  BY LenProperties, PageAssumption, EmptySeq
<1>2. Kept(cached, L) = C /\ n = maxKeep - C - L /\ n \in Nat
  BY <1>1 DEF Kept, Taken
<1>3. Appended(cached, list) = new
  <2>1. LastN(cached, C) = cached
    BY <1>1, LastNWhole
  <2> QED BY <1>2, <2>1, AppendedIs
<1> HIDE DEF n
<1>4. /\ all \in Seq(Message) /\ Len(all) = C + L
      /\ \A i \in 1..(C + L) : all[i] = IF i <= C THEN cached[i] ELSE list[i - C]
  BY ConcatProperties
<1>5. CASE n >= L
  <2>1. b = list
    BY <1>1, <1>2, <1>5, LastNWhole
  <2> QED BY <1>3, <2>1
<1>6. CASE n < L
  <2>1. /\ b \in Seq(Message) /\ Len(b) = n /\ \A i \in 1..n : b[i] = list[L - n + i]
    <3>1. /\ b \in Seq(Message) /\ Len(b) = (IF n < L THEN n ELSE L)
          /\ \A i \in 1..Len(b) : b[i] = list[L - Len(b) + i]
      BY <1>2, LastNElements
    <3> HIDE DEF b, L
    <3>2. Len(b) = n
      BY <1>6, <3>1
    <3> QED BY <3>1, <3>2
  <2> HIDE DEF b, all
  <2>2. /\ new \in Seq(Message) /\ Len(new) = C + n
        /\ \A i \in 1..(C + n) : new[i] = IF i <= C THEN cached[i] ELSE b[i - C]
    <3>1. /\ new \in Seq(Message) /\ Len(new) = C + Len(b)
          /\ \A i \in 1..(C + Len(b)) : new[i] = IF i <= C THEN cached[i] ELSE b[i - C]
      BY <2>1, ConcatProperties
    <3> HIDE DEF new
    <3> QED BY <2>1, <3>1
  <2> HIDE DEF new, C, L
  <2>3. n >= 1
    BY <1>1, <1>2
  <2>4. new[C + n] = list[L]
    <3>1. C + n \in 1..(C + n) /\ ~(C + n <= C) /\ C + n - C = n /\ n \in 1..n
          /\ L - n + n = L
      BY <1>1, <1>2, <2>3
    <3>2. new[C + n] = b[C + n - C]
      <4>1. \A p : p = C + n => new[p] = b[p - C]
        BY <2>2, <3>1
      <4> QED BY <1>1, <1>2, <3>1, <4>1
    <3>3. b[n] = list[L - n + n]
      BY <2>1, <3>1
    <3> QED BY <3>1, <3>2, <3>3
  <2>5. all[C + L] = list[L]
    <3>1. C + L \in 1..(C + L) /\ ~(C + L <= C) /\ C + L - C = L
      BY <1>1
    <3>2. \A p : p = C + L => all[p] = list[p - C]
      BY <1>4, <3>1
    <3> QED BY <1>1, <3>1, <3>2
  <2>6. new # <<>> /\ new[Len(new)] = Last(all)
    <3>1. C + n >= 1
      BY <1>1, <1>2, <2>3
    <3> QED BY <1>4, <2>2, <2>4, <2>5, <3>1 DEF Last
  <2>7. IsSuffix(<<Last(all)>>, new)
    BY <2>2, <2>6, LastIsSuffix
  <2>8. Len(all) + L > maxKeep
    BY <1>1, <1>2, <1>4, <1>6
  <2> QED BY <1>3, <2>6, <2>7, <2>8 DEF all, L
<1> QED BY <1>1, <1>2, <1>5, <1>6

\* The newest maxKeep messages of a list that is shorter are all of it.
LEMMA NewestOf ==
  ASSUME NEW all \in Seq(Message)
  PROVE  /\ Len(all) >= maxKeep => Slice(all, Max({0, Len(all) - maxKeep})) = LastN(all, maxKeep)
         /\ Len(all) < maxKeep => Slice(all, Max({0, Len(all) - maxKeep})) = all
<1>1. Len(all) \in Nat /\ maxKeep \in Nat
  BY LenProperties, PageAssumption
<1>2. CASE Len(all) >= maxKeep
  <2>1. Max({0, Len(all) - maxKeep}) = Len(all) - maxKeep
    BY <1>1, <1>2, MaxOfTwo
  <2>2. /\ Len(all) - maxKeep \in Int /\ Len(all) - maxKeep <= Len(all)
        /\ Len(all) - maxKeep >= 0 /\ Len(all) - (Len(all) - maxKeep) = maxKeep
    BY <1>1, <1>2
  <2>3. Slice(all, Len(all) - maxKeep) = LastN(all, maxKeep)
    BY <2>2, SliceIsLastN
  <2> QED BY <1>1, <1>2, <2>1, <2>3
<1>3. CASE Len(all) < maxKeep
  <2>1. Max({0, Len(all) - maxKeep}) = 0
    BY <1>1, <1>3, MaxOfTwo
  <2>2. 0 <= Len(all) /\ Len(all) - 0 = Len(all) /\ Len(all) >= Len(all)
    BY <1>1
  <2>3. Slice(all, 0) = LastN(all, Len(all))
    BY <2>2, SliceIsLastN
  <2> QED BY <1>1, <1>3, <2>1, <2>2, <2>3, LastNWhole
<1> QED BY <1>1, <1>2, <1>3

\* An answer leaves the newest maxKeep messages in the page's cache; only when it
\* does not fill it, and has more messages than half of the room, are its own
\* oldest dropped, and never its newest.
THEOREM AppendsTheNewest == Spec => AppendKeepsNewest
<1> DEFINE LeavesNewest(r) ==
             LET all == cachedList \o request[r].detail
                 dropped == all # cachedList' /\ Len(all) < maxKeep
             IN /\ request[r].at = "answered"
                /\ IF dropped THEN /\ Len(all) + Len(request[r].detail) > maxKeep
                                   /\ cachedList' # <<>> /\ IsSuffix(<<Last(all)>>, cachedList')
                              ELSE cachedList' = Slice(all, Max({0, Len(all) - maxKeep}))
           A == cachedList' # cachedList => \E r \in Request : LeavesNewest(r)
<1>1. TypeOK /\ [Next]_vars => [A]_vars
  <2> SUFFICES ASSUME TypeOK, Next, cachedList' # cachedList
               PROVE  \E r \in Request : LeavesNewest(r)
    BY DEF vars, listVars
  <2>1. /\ cachedList \in Seq(Message) /\ Len(cachedList) <= maxKeep
        /\ request \in [Request -> RequestRecord]
    BY DEF TypeOK, RequestRecord
  <2>2. PICK r \in Request : Success(r) /\ LoadMessagesResults(request[r].detail)
                              /\ request[r].detail # <<>>
    <3>1. \E r \in Request : Success(r)
      BY DEF Next, Post, Login, Impl, Serve, ServeError, Error, OnButtonRefreshClicked,
             TalkSucceeded, OnButtonViewClicked, OnButtonLaterClicked,
             OnButtonPollSwitchClicked, PageShow, listVars
    <3> QED BY <3>1 DEF Success, listVars
  <2> DEFINE list == request[r].detail
             all == cachedList \o list
  <2>3. list \in Seq(Message) /\ list # <<>> /\ cachedList' = Appended(cachedList, list)
        /\ request[r].at = "answered"
    BY <2>1, <2>2 DEF RequestRecord, LoadMessagesResults, Success
  <2> HIDE DEF list
  <2>4. all \in Seq(Message) /\ Len(all) = Len(cachedList) + Len(list) /\ Len(all) \in Nat
    BY <2>1, <2>3, ConcatProperties, LenProperties
  <2>5. /\ Len(all) >= maxKeep => Slice(all, Max({0, Len(all) - maxKeep})) = LastN(all, maxKeep)
        /\ Len(all) < maxKeep => Slice(all, Max({0, Len(all) - maxKeep})) = all
    BY <2>4, NewestOf
  <2>6. Len(all) >= maxKeep => cachedList' = LastN(all, maxKeep)
    BY <2>1, <2>3, <2>4, FullAppend
  <2>7. Len(all) < maxKeep => \/ cachedList' = all
                              \/ /\ Len(all) + Len(list) > maxKeep /\ cachedList' # <<>>
                                 /\ IsSuffix(<<Last(all)>>, cachedList')
    BY <2>1, <2>3, <2>4, PartAppend
  <2>8. maxKeep \in Nat
    BY PageAssumption
  <2> HIDE DEF all
  <2>9. IF all # cachedList' /\ Len(all) < maxKeep
        THEN /\ Len(all) + Len(list) > maxKeep
             /\ cachedList' # <<>> /\ IsSuffix(<<Last(all)>>, cachedList')
        ELSE cachedList' = Slice(all, Max({0, Len(all) - maxKeep}))
    <3>1. CASE Len(all) < maxKeep
      BY <2>5, <2>7, <3>1
    <3>2. CASE ~(Len(all) < maxKeep)
      <4>1. Len(all) >= maxKeep
        BY <2>4, <2>8, <3>2
      <4> QED BY <2>5, <2>6, <3>2, <4>1
    <3> QED BY <3>1, <3>2
  <2> QED BY <2>3, <2>9 DEF all, list
<1> HIDE DEF A
<1>2. Spec => [][A]_vars
  BY <1>1, PageTypeCorrect, PTL DEF Spec
<1> QED BY <1>2 DEF AppendKeepsNewest, A
=============================================================================
