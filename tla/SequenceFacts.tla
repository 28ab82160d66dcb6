---------------------------- MODULE SequenceFacts -----------------------------
(***************************************************************************)
(* Facts about sequences that the proofs of several components rest on:    *)
(* what a sequence contains, whether once and at which places, what the    *)
(* removal of an element leaves, and what its parts are.                   *)
(***************************************************************************)
EXTENDS Integers, SequencesExt, Filter, SequenceTheorems, WellFoundedInduction, FiniteSetTheorems, TLAPS

\* What a sequence contains, element by element.
LEMMA ElementsOf ==
    ASSUME NEW S, NEW s \in Seq(S)
    PROVE  /\ ToSet(s) \subseteq S
           /\ \A x : x \in ToSet(s) <=> \E i \in 1..Len(s) : s[i] = x
<1>1. DOMAIN s = 1..Len(s) /\ \A i \in 1..Len(s) : s[i] \in S
  BY LenProperties
<1> QED
  BY <1>1 DEF ToSet

\* Append adds one element, and keeps the others apart if it is a new one.
LEMMA ElementsOfAppend ==
    ASSUME NEW S, NEW s \in Seq(S), NEW x \in S
    PROVE  /\ ToSet(Append(s, x)) = ToSet(s) \union {x}
           /\ IsInjective(s) /\ x \notin ToSet(s) => IsInjective(Append(s, x))
<1> DEFINE t == Append(s, x)
<1>1. /\ t \in Seq(S) /\ Len(t) = Len(s) + 1 /\ Len(s) \in Nat
      /\ \A i \in 1..Len(s) : t[i] = s[i]
      /\ t[Len(s) + 1] = x
  BY AppendProperties, LenProperties
<1>2. DOMAIN t = 1..Len(s) + 1 /\ DOMAIN s = 1..Len(s)
  BY <1>1, LenProperties
<1> HIDE DEF t
<1>3. ToSet(t) = ToSet(s) \union {x}
  <2>1. \A y : y \in ToSet(t) <=> \E i \in 1..Len(s) + 1 : t[i] = y
    BY <1>1, ElementsOf
  <2>2. \A y : y \in ToSet(s) <=> \E i \in 1..Len(s) : s[i] = y
    BY ElementsOf
  <2>3. ASSUME NEW y PROVE y \in ToSet(t) <=> y \in ToSet(s) \union {x}
    <3>1. ASSUME NEW i \in 1..Len(s) + 1, t[i] = y PROVE y \in ToSet(s) \union {x}
      <4>1. CASE i = Len(s) + 1
        BY <1>1, <3>1, <4>1
      <4>2. CASE i # Len(s) + 1
        <5>1. i \in 1..Len(s)
          BY <1>1, <4>2
        <5> QED
          BY <1>1, <2>2, <3>1, <5>1
      <4> QED
        BY <4>1, <4>2
    <3>2. ASSUME NEW i \in 1..Len(s), s[i] = y PROVE y \in ToSet(t)
      <4>1. i \in 1..Len(s) + 1 /\ t[i] = y
        BY <1>1, <3>2
      <4> QED
        BY <2>1, <4>1
    <3>3. x \in ToSet(t)
      <4>1. Len(s) + 1 \in 1..Len(s) + 1
        BY <1>1
      <4> QED
        BY <1>1, <2>1, <4>1
    <3> QED
      BY <2>1, <2>2, <3>1, <3>2, <3>3
  <2> QED
    BY <2>3
<1>4. ASSUME IsInjective(s), x \notin ToSet(s) PROVE IsInjective(t)
  <2>1. \A i \in 1..Len(s) : s[i] # x
    BY <1>4, ElementsOf
  <2>2. SUFFICES ASSUME NEW a \in 1..Len(s) + 1, NEW b \in 1..Len(s) + 1, t[a] = t[b]
                 PROVE  a = b
    BY <1>2 DEF IsInjective
  <2>3. CASE a \in 1..Len(s) /\ b \in 1..Len(s)
    BY <1>1, <1>2, <1>4, <2>2, <2>3 DEF IsInjective
  <2>4. CASE a = Len(s) + 1 /\ b # Len(s) + 1
    <3>1. b \in 1..Len(s)
      BY <1>1, <2>4
    <3> QED
      BY <1>1, <2>1, <2>2, <2>4, <3>1
  <2>5. CASE a # Len(s) + 1 /\ b = Len(s) + 1
    <3>1. a \in 1..Len(s)
      BY <1>1, <2>5
    <3> QED
      BY <1>1, <2>1, <2>2, <2>5, <3>1
  <2> QED
    BY <1>1, <2>3, <2>4, <2>5
<1> QED
  BY <1>3, <1>4 DEF t

\* The head of a sequence and what is behind it.
LEMMA ElementsOfTail ==
    ASSUME NEW S, NEW s \in Seq(S), s # <<>>
    PROVE  /\ Head(s) \in S /\ Tail(s) \in Seq(S)
           /\ ToSet(s) = {Head(s)} \union ToSet(Tail(s))
           /\ IsInjective(s) => IsInjective(Tail(s)) /\ Head(s) \notin ToSet(Tail(s))
<1> DEFINE t == Tail(s)
<1>1. /\ Head(s) = s[1] /\ Head(s) \in S /\ t \in Seq(S) /\ Len(t) = Len(s) - 1
      /\ \A i \in 1..Len(t) : t[i] = s[i + 1]
      /\ Len(s) \in Nat \ {0}
  BY HeadTailProperties, LenProperties, EmptySeq
<1>2. DOMAIN t = 1..Len(t) /\ DOMAIN s = 1..Len(s) /\ Len(t) \in Nat
  BY <1>1, LenProperties
<1> HIDE DEF t
<1>3. \A y : y \in ToSet(t) <=> \E i \in 1..Len(t) : t[i] = y
  BY <1>1, ElementsOf
<1>4. \A y : y \in ToSet(s) <=> \E i \in 1..Len(s) : s[i] = y
  BY ElementsOf
<1>5. ASSUME NEW y PROVE y \in ToSet(s) <=> y = s[1] \/ y \in ToSet(t)
  <2>1. ASSUME NEW i \in 1..Len(s), s[i] = y PROVE y = s[1] \/ y \in ToSet(t)
    <3>1. CASE i = 1
      BY <2>1, <3>1
    <3>2. CASE i # 1
      <4>1. i - 1 \in 1..Len(t) /\ t[i - 1] = y
        BY <1>1, <2>1, <3>2
      <4> QED
        BY <1>3, <4>1
    <3> QED
      BY <3>1, <3>2
  <2>2. ASSUME NEW i \in 1..Len(t), t[i] = y PROVE y \in ToSet(s)
    <3>1. i + 1 \in 1..Len(s) /\ s[i + 1] = y
      BY <1>1, <2>2
    <3> QED
      BY <1>4, <3>1
  <2>3. s[1] \in ToSet(s)
    BY <1>1, <1>4
  <2> QED
    BY <1>3, <1>4, <2>1, <2>2, <2>3
<1>6. ASSUME IsInjective(s) PROVE IsInjective(t) /\ s[1] \notin ToSet(t)
  <2>1. ASSUME NEW a \in 1..Len(t), NEW b \in 1..Len(t), t[a] = t[b] PROVE a = b
    <3>1. a + 1 \in DOMAIN s /\ b + 1 \in DOMAIN s /\ s[a + 1] = s[b + 1]
      BY <1>1, <1>2, <2>1
    <3>2. a + 1 = b + 1
      BY <1>6, <3>1 DEF IsInjective
    <3> QED
      BY <1>2, <3>2
  <2>2. ASSUME NEW a \in 1..Len(t), t[a] = s[1] PROVE FALSE
    <3>1. a + 1 \in DOMAIN s /\ 1 \in DOMAIN s /\ s[a + 1] = s[1]
      BY <1>1, <1>2, <2>2
    <3>2. a + 1 = 1
      BY <1>6, <3>1 DEF IsInjective
    <3> QED
      BY <1>2, <3>2
  <2> QED
    BY <1>2, <1>3, <2>1, <2>2 DEF IsInjective
<1> QED
  BY <1>1, <1>5, <1>6 DEF t

\* A concatenation holds what its parts hold, once if neither repeats itself or
\* the other.
LEMMA ElementsOfConcat ==
    ASSUME NEW S, NEW s \in Seq(S), NEW t \in Seq(S)
    PROVE  /\ s \o t \in Seq(S)
           /\ ToSet(s \o t) = ToSet(s) \union ToSet(t)
           /\ IsInjective(s) /\ IsInjective(t) /\ ToSet(s) \cap ToSet(t) = {}
              => IsInjective(s \o t)
<1> DEFINE u == s \o t
           n == Len(s)
<1>1. /\ u \in Seq(S) /\ Len(u) = n + Len(t) /\ n \in Nat /\ Len(t) \in Nat
      /\ \A i \in 1..n + Len(t) : u[i] = IF i <= n THEN s[i] ELSE t[i - n]
  BY ConcatProperties, LenProperties
<1>2. DOMAIN u = 1..n + Len(t) /\ DOMAIN s = 1..n /\ DOMAIN t = 1..Len(t)
  BY <1>1, LenProperties
<1>3. /\ \A y : y \in ToSet(u) <=> \E i \in 1..n + Len(t) : u[i] = y
      /\ \A y : y \in ToSet(s) <=> \E i \in 1..n : s[i] = y
      /\ \A y : y \in ToSet(t) <=> \E i \in 1..Len(t) : t[i] = y
  BY <1>1, ElementsOf
<1> HIDE DEF u, n
<1>4. ASSUME NEW y PROVE y \in ToSet(u) <=> y \in ToSet(s) \union ToSet(t)
  <2>1. ASSUME NEW i \in 1..n + Len(t), u[i] = y PROVE y \in ToSet(s) \union ToSet(t)
    <3>1. CASE i <= n
      BY <1>1, <1>3, <2>1, <3>1
    <3>2. CASE ~(i <= n)
      <4>1. i - n \in 1..Len(t) /\ t[i - n] = y
        BY <1>1, <2>1, <3>2
      <4> QED
        BY <1>3, <4>1
    <3> QED
      BY <3>1, <3>2
  <2>2. ASSUME NEW i \in 1..n, s[i] = y PROVE y \in ToSet(u)
    <3>1. i \in 1..n + Len(t) /\ u[i] = y
      BY <1>1, <2>2
    <3> QED
      BY <1>3, <3>1
  <2>3. ASSUME NEW i \in 1..Len(t), t[i] = y PROVE y \in ToSet(u)
    <3>1. i + n \in 1..n + Len(t) /\ ~(i + n <= n) /\ i + n - n = i
      BY <1>1, <2>3
    <3>2. u[i + n] = y
      BY <1>1, <2>3, <3>1
    <3> QED
      BY <1>3, <3>1, <3>2
  <2> QED
    BY <1>3, <2>1, <2>2, <2>3
<1>5. ASSUME IsInjective(s), IsInjective(t), ToSet(s) \cap ToSet(t) = {}
      PROVE  IsInjective(u)
  <2>1. SUFFICES ASSUME NEW a \in 1..n + Len(t), NEW b \in 1..n + Len(t), u[a] = u[b]
                 PROVE  a = b
    BY <1>2 DEF IsInjective
  <2>2. ASSUME NEW i \in 1..n, NEW j \in 1..Len(t) PROVE s[i] # t[j]
    BY <1>3, <1>5
  <2>3. CASE a <= n /\ b <= n
    <3>1. a \in 1..n /\ b \in 1..n /\ s[a] = s[b]
      BY <1>1, <2>1, <2>3
    <3> QED
      BY <1>2, <1>5, <3>1 DEF IsInjective
  <2>4. CASE ~(a <= n) /\ ~(b <= n)
    <3>1. a - n \in 1..Len(t) /\ b - n \in 1..Len(t) /\ t[a - n] = t[b - n]
      BY <1>1, <2>1, <2>4
    <3>2. a - n = b - n
      BY <1>2, <1>5, <3>1 DEF IsInjective
    <3> QED
      BY <1>1, <3>2
  <2>5. CASE a <= n /\ ~(b <= n)
    <3>1. a \in 1..n /\ b - n \in 1..Len(t) /\ s[a] = t[b - n]
      BY <1>1, <2>1, <2>5
    <3> QED
      BY <2>2, <3>1
  <2>6. CASE ~(a <= n) /\ b <= n
    <3>1. b \in 1..n /\ a - n \in 1..Len(t) /\ s[b] = t[a - n]
      BY <1>1, <2>1, <2>6
    <3> QED
      BY <2>2, <3>1
  <2> QED
    BY <1>1, <2>3, <2>4, <2>5, <2>6
<1> QED
  BY <1>1, <1>4, <1>5 DEF u

\* The empty sequence, and a sequence of one element.
LEMMA ElementsOfNothing ==
    /\ ToSet(<<>>) = {} /\ IsInjective(<<>>)
    /\ \A x : ToSet(<<x>>) = {x} /\ IsInjective(<<x>>)
<1>1. DOMAIN <<>> = {}
  OBVIOUS
<1>2. ASSUME NEW x PROVE ToSet(<<x>>) = {x} /\ IsInjective(<<x>>)
  <2>1. DOMAIN <<x>> = {1} /\ <<x>>[1] = x
    OBVIOUS
  <2> QED
    BY <2>1 DEF ToSet, IsInjective
<1> QED
  BY <1>1, <1>2 DEF ToSet, IsInjective

\* A set of naturals that is not empty has a least element, which Min chooses.
LEMMA LeastElement ==
  ASSUME NEW I, I \subseteq Nat, I # {}
  PROVE  Min(I) \in I /\ \A i \in I : Min(I) <= i
<1> DEFINE R == {p \in Nat \X Nat : p[1] < p[2]}
<1>1. IsWellFoundedOn(R, Nat)
  BY NatLessThanWellFounded, Zenon DEF OpToRel
<1>2. PICK x \in I : \A y \in I : ~ (<<y, x>> \in R)
  BY <1>1, WFMin, Zenon
<1>3. \A y \in I : x <= y
  <2> SUFFICES ASSUME NEW y \in I PROVE x <= y
    OBVIOUS
  <2>1. x \in Nat /\ y \in Nat
    OBVIOUS
  <2>2. <<y, x>> \in Nat \X Nat => (<<y, x>> \in R <=> y < x)
    OBVIOUS
  <2> QED
    BY <1>2, <2>1, <2>2
<1> QED
  BY <1>3 DEF Min

\* A sequence without the element at k: the others, in their order.
LEMMA RemovedAt ==
  ASSUME NEW S, NEW s \in Seq(S), NEW k \in DOMAIN s
  PROVE  /\ RemoveAt(s, k) \in Seq(S)
         /\ Len(RemoveAt(s, k)) = Len(s) - 1
         /\ \A i \in DOMAIN RemoveAt(s, k) :
              /\ (IF i < k THEN i ELSE i + 1) \in DOMAIN s
              /\ RemoveAt(s, k)[i] = s[IF i < k THEN i ELSE i + 1]
<1>1. PICK n \in Nat : n = Len(s) /\ DOMAIN s = 1..n /\ k \in 1..n
  BY LenProperties
<1>k. n \in Int /\ k \in Int /\ 1 <= k /\ k <= n
  BY <1>1
<1> DEFINE a == SubSeq(s, 1, k - 1)
           b == SubSeq(s, k + 1, n)
<1>2. a \in Seq(S) /\ Len(a) = k - 1 /\ \A i \in 1..(k - 1) : a[i] = s[i]
  BY <1>1, SubSeqProperties
<1>3. b \in Seq(S) /\ Len(b) = n - k /\ \A i \in 1..(n - k) : b[i] = s[k + i]
  <2>1. CASE k = n
    <3>1. b = <<>>
      BY <1>1, <2>1, SubSeqEmpty
    <3>2. QED
      BY <1>1, <2>1, <3>1
  <2>2. CASE k < n
    BY <1>1, <2>2, SubSeqProperties
  <2>3. QED
    BY <1>1, <2>1, <2>2
<1>4. RemoveAt(s, k) = a \o b
  BY <1>1 DEF RemoveAt
<1> HIDE DEF a, b
<1>5. /\ a \o b \in Seq(S) /\ Len(a \o b) = n - 1
      /\ \A i \in 1..(n - 1) : (a \o b)[i] = IF i <= k - 1 THEN a[i] ELSE b[i - (k - 1)]
  <2>1. /\ a \o b \in Seq(S) /\ Len(a \o b) = Len(a) + Len(b)
        /\ \A i \in 1..(Len(a) + Len(b)) : (a \o b)[i] = IF i <= Len(a) THEN a[i] ELSE b[i - Len(a)]
    BY <1>2, <1>3, ConcatProperties
  <2>2. Len(a) + Len(b) = n - 1
    <3>1. Len(a) = k - 1 /\ Len(b) = n - k
      BY <1>2, <1>3
    <3>2. QED
      BY <1>k, <3>1
  <2>3. QED
    BY <1>2, <2>1, <2>2
<1>6. ASSUME NEW i \in 1..(n - 1)
      PROVE  (IF i < k THEN i ELSE i + 1) \in 1..n /\ (a \o b)[i] = s[IF i < k THEN i ELSE i + 1]
  <2>1. CASE i < k
    BY <1>1, <1>2, <1>5, <1>6, <2>1
  <2>2. CASE i >= k
    <3>1. i - (k - 1) \in 1..(n - k) /\ k + (i - (k - 1)) = i + 1
      BY <1>1, <1>6, <2>2
    <3>2. (a \o b)[i] = b[i - (k - 1)]
      BY <1>1, <1>5, <1>6, <2>2
    <3>3. b[i - (k - 1)] = s[i + 1]
      BY <1>3, <3>1
    <3>4. QED
      BY <1>1, <1>6, <2>2, <3>2, <3>3
  <2>3. i \in Int /\ (i < k \/ i >= k)
    BY <1>k
  <2>4. QED
    BY <2>1, <2>2, <2>3
<1>7. DOMAIN (a \o b) = 1..(n - 1)
  BY <1>1, <1>5
<1>8. QED
  BY <1>1, <1>4, <1>5, <1>6, <1>7

\* What is left contains what the sequence did but for the element, and still
\* nothing twice.
LEMMA ElementsOfRemoved ==
  ASSUME NEW S, NEW s \in Seq(S), NEW k \in DOMAIN s
  PROVE  /\ RemoveAt(s, k) \in Seq(S)
         /\ ToSet(RemoveAt(s, k)) \subseteq ToSet(s)
         /\ IsInjective(s) => /\ IsInjective(RemoveAt(s, k))
                              /\ ToSet(RemoveAt(s, k)) = ToSet(s) \ {s[k]}
<1> DEFINE t == RemoveAt(s, k)
           at(i) == IF i < k THEN i ELSE i + 1
<1>1. PICK n \in Nat : n = Len(s) /\ DOMAIN s = 1..n /\ k \in 1..n
  BY LenProperties
<1>2. t \in Seq(S) /\ Len(t) = n - 1 /\ \A i \in DOMAIN t : at(i) \in DOMAIN s /\ t[i] = s[at(i)]
  BY <1>1, RemovedAt
<1> HIDE DEF t
<1>3. DOMAIN t = 1..n - 1
  BY <1>2, LenProperties
<1>4. ToSet(t) \subseteq ToSet(s)
  BY <1>2 DEF ToSet
<1>5. ASSUME IsInjective(s) PROVE IsInjective(t) /\ ToSet(t) = ToSet(s) \ {s[k]}
  <2>1. ASSUME NEW i \in DOMAIN t, NEW j \in DOMAIN t, t[i] = t[j] PROVE i = j
    <3>1. at(i) = at(j)
      BY <1>2, <1>5, <2>1 DEF IsInjective
    <3> QED
      BY <1>1, <1>3, <3>1
  <2>2. ASSUME NEW i \in DOMAIN t PROVE t[i] # s[k]
    <3>1. at(i) # k
      BY <1>1, <1>3
    <3> QED
      BY <1>1, <1>2, <1>5, <3>1 DEF IsInjective
  <2>3. ASSUME NEW i \in DOMAIN s, i # k PROVE s[i] \in ToSet(t)
    <3> DEFINE j == IF i < k THEN i ELSE i - 1
    <3>1. j \in DOMAIN t /\ at(j) = i
      BY <1>1, <1>3, <2>3
    <3> HIDE DEF j
    <3> QED
      BY <1>2, <3>1 DEF ToSet
  <2> QED
    BY <1>4, <2>1, <2>2, <2>3 DEF ToSet, IsInjective
<1> QED
  BY <1>2, <1>4, <1>5 DEF t

\* RemoveFirst takes an element out where it stands first, if it is there.
LEMMA RemoveFirstAt ==
  ASSUME NEW S, NEW s \in Seq(S), NEW e
  PROVE  /\ e \notin ToSet(s) => RemoveFirst(s, e) = s
         /\ e \in ToSet(s) =>
              \E k \in DOMAIN s : /\ s[k] = e /\ \A j \in DOMAIN s : j < k => s[j] # e
                                /\ RemoveFirst(s, e) = RemoveAt(s, k)
<1> DEFINE I == {i \in 1..Len(s) : s[i] = e}
<1>1. Len(s) \in Nat /\ DOMAIN s = 1..Len(s)
  BY LenProperties
<1>2. e \in ToSet(s) <=> I # {}
  BY <1>1 DEF ToSet
<1>3. CASE I = {}
  BY <1>2, <1>3 DEF RemoveFirst
<1>4. CASE I # {}
  <2>1. I \subseteq Nat /\ I \subseteq 1..Len(s)
    BY <1>1
  <2>2. Min(I) \in I /\ \A i \in I : Min(I) <= i
    BY <1>4, <2>1, LeastElement, Zenon
  <2>3. RemoveFirst(s, e) = RemoveAt(s, Min(I))
    BY <1>4 DEF RemoveFirst, SelectInSeq
  <2>4. PICK k : k = Min(I)
    OBVIOUS
  <2>5. k \in I /\ (\A i \in I : k <= i) /\ RemoveFirst(s, e) = RemoveAt(s, k)
    BY <2>2, <2>3, <2>4, Zenon
  <2>6. k \in DOMAIN s /\ s[k] = e
    BY <1>1, <2>5
  <2>7. \A j \in DOMAIN s : j < k => s[j] # e
    BY <1>1, <2>1, <2>5
  <2> QED
    BY <1>2, <1>4, <2>5, <2>6, <2>7
<1> QED
  BY <1>3, <1>4

\* What is left without the first occurrence of an element, if there is one.
LEMMA RemoveFirstInSeq ==
  ASSUME NEW S, NEW s \in Seq(S), NEW e
  PROVE  RemoveFirst(s, e) \in Seq(S)
BY RemoveFirstAt, RemovedAt

\* Without an element that a sequence holds once, it holds the others, once.
LEMMA ElementsOfRemoveFirst ==
  ASSUME NEW S, NEW s \in Seq(S), IsInjective(s), NEW e
  PROVE  /\ RemoveFirst(s, e) \in Seq(S) /\ IsInjective(RemoveFirst(s, e))
         /\ ToSet(RemoveFirst(s, e)) = ToSet(s) \ {e}
BY RemoveFirstAt, ElementsOfRemoved

\* An element that a sequence holds at most once.
AtMostOnce(s, x) == \A i, j \in DOMAIN s : s[i] = x /\ s[j] = x => i = j

\* RemoveFirst brings in nothing new, repeats nothing more, and leaves no
\* occurrence of an element that was there at most once.
LEMMA RemoveFirstKeeps ==
  ASSUME NEW S, NEW s \in Seq(S), NEW e
  PROVE  /\ RemoveFirst(s, e) \in Seq(S) /\ Len(RemoveFirst(s, e)) <= Len(s)
         /\ ToSet(RemoveFirst(s, e)) \subseteq ToSet(s)
         /\ \A x : AtMostOnce(s, x) => AtMostOnce(RemoveFirst(s, e), x)
         /\ \A x : x # e => (x \in ToSet(RemoveFirst(s, e)) <=> x \in ToSet(s))
         /\ AtMostOnce(s, e) => e \notin ToSet(RemoveFirst(s, e))
<1> DEFINE t == RemoveFirst(s, e)
<1>1. CASE e \notin ToSet(s)
  <2>1. t = s /\ Len(s) \in Nat
    BY <1>1, RemoveFirstAt, LenProperties
  <2> HIDE DEF t
  <2> QED
    BY <1>1, <2>1 DEF t
<1>2. CASE e \in ToSet(s)
  <2>1. PICK k \in DOMAIN s : s[k] = e /\ t = RemoveAt(s, k)
    BY <1>2, RemoveFirstAt
  <2> DEFINE at(i) == IF i < k THEN i ELSE i + 1
  <2>2. PICK n \in Nat : n = Len(s) /\ DOMAIN s = 1..n /\ k \in 1..n
    BY LenProperties
  <2>3. /\ t \in Seq(S) /\ Len(t) = n - 1
        /\ \A i \in DOMAIN t : at(i) \in DOMAIN s /\ t[i] = s[at(i)]
    <3>1. /\ RemoveAt(s, k) \in Seq(S) /\ Len(RemoveAt(s, k)) = n - 1
          /\ \A i \in DOMAIN RemoveAt(s, k) : at(i) \in DOMAIN s /\ RemoveAt(s, k)[i] = s[at(i)]
      BY <2>2, RemovedAt
    <3> HIDE DEF t, at
    <3> QED
      BY <2>1, <3>1
  <2> HIDE DEF t
  <2>4. DOMAIN t = 1..n - 1
    BY <2>3, LenProperties
  <2>5. ToSet(t) \subseteq ToSet(s)
    BY <2>3 DEF ToSet
  <2>6. \A x : AtMostOnce(s, x) => AtMostOnce(t, x)
    <3> SUFFICES ASSUME NEW x, AtMostOnce(s, x), NEW i \in DOMAIN t, NEW j \in DOMAIN t, t[i] = x, t[j] = x
                 PROVE  i = j
      BY DEF AtMostOnce
    <3>1. at(i) = at(j)
      BY <2>3 DEF AtMostOnce
    <3> QED
      BY <2>2, <2>4, <3>1
  <2>7. ASSUME NEW x \in ToSet(s), x # e PROVE x \in ToSet(t)
    <3>1. PICK i \in DOMAIN s : s[i] = x /\ i # k
      BY <2>1, <2>7 DEF ToSet
    <3> DEFINE j == IF i < k THEN i ELSE i - 1
    <3>2. j \in DOMAIN t /\ at(j) = i
      BY <2>2, <2>4, <3>1
    <3> HIDE DEF j
    <3> QED
      BY <2>3, <3>1, <3>2 DEF ToSet
  <2>8. ASSUME AtMostOnce(s, e), NEW i \in DOMAIN t PROVE t[i] # e
    <3>1. at(i) # k
      BY <2>2, <2>4
    <3> QED
      BY <2>1, <2>3, <2>8, <3>1 DEF AtMostOnce
  <2>9. AtMostOnce(s, e) => e \notin ToSet(t)
    BY <2>8 DEF ToSet
  <2>10. t \in Seq(S) /\ Len(t) <= Len(s)
    BY <2>2, <2>3
  <2>11. \A x : x # e => (x \in ToSet(t) <=> x \in ToSet(s))
    BY <2>5, <2>7
  <2> QED
    BY <2>5, <2>6, <2>9, <2>10, <2>11 DEF t
<1> QED
  BY <1>1, <1>2

\* Append puts an element behind the others.
LEMMA AppendKeeps ==
  ASSUME NEW S, NEW s \in Seq(S), NEW e \in S
  PROVE  /\ Append(s, e) \in Seq(S) /\ Len(Append(s, e)) = Len(s) + 1
         /\ ToSet(Append(s, e)) = ToSet(s) \union {e}
         /\ \A x : x # e /\ AtMostOnce(s, x) => AtMostOnce(Append(s, e), x)
         /\ e \notin ToSet(s) => AtMostOnce(Append(s, e), e)
<1> DEFINE t == Append(s, e)
<1>1. PICK n \in Nat : n = Len(s) /\ DOMAIN s = 1..n
  BY LenProperties
<1>2. /\ t \in Seq(S) /\ Len(t) = n + 1 /\ t[n + 1] = e
      /\ \A i \in 1..n : t[i] = s[i]
  BY <1>1, AppendProperties
<1>3. DOMAIN t = 1..n + 1
  BY <1>2, LenProperties
<1>4. ToSet(t) = ToSet(s) \union {e}
  BY ElementsOfAppend
<1> HIDE DEF t
<1>5. \A x : x # e /\ AtMostOnce(s, x) => AtMostOnce(t, x)
  <2> SUFFICES ASSUME NEW x, x # e, AtMostOnce(s, x), NEW i \in 1..n + 1, NEW j \in 1..n + 1, t[i] = x, t[j] = x
               PROVE  i = j
    BY <1>3 DEF AtMostOnce
  <2>1. i \in 1..n /\ j \in 1..n
    BY <1>2
  <2> QED
    BY <1>1, <1>2, <2>1 DEF AtMostOnce
<1>6. ASSUME e \notin ToSet(s) PROVE AtMostOnce(t, e)
  <2>1. \A i \in 1..n : t[i] # e
    BY <1>1, <1>2, <1>6 DEF ToSet
  <2>2. \A i \in 1..n + 1 : t[i] = e => i = n + 1
    BY <2>1
  <2> QED
    BY <1>3, <2>2 DEF AtMostOnce
<1> QED
  BY <1>1, <1>2, <1>4, <1>5, <1>6 DEF t

\* What is behind the head.
LEMMA TailKeeps ==
  ASSUME NEW S, NEW s \in Seq(S), s # <<>>
  PROVE  /\ Tail(s) \in Seq(S) /\ Head(s) \in ToSet(s) /\ ToSet(Tail(s)) \subseteq ToSet(s)
         /\ \A x : AtMostOnce(s, x) => AtMostOnce(Tail(s), x)
         /\ AtMostOnce(s, Head(s)) => Head(s) \notin ToSet(Tail(s))
<1> DEFINE t == Tail(s)
<1>1. PICK n \in Nat : n = Len(s) /\ DOMAIN s = 1..n /\ n >= 1
  <2>1. Len(s) \in Nat /\ DOMAIN s = 1..Len(s) /\ Len(s) # 0
    BY LenProperties, EmptySeq
  <2>2. Len(s) >= 1
    BY <2>1
  <2> QED
    BY <2>1, <2>2
<1>2. /\ Head(s) = s[1] /\ t \in Seq(S) /\ Len(t) = n - 1
      /\ \A i \in 1..n - 1 : t[i] = s[i + 1]
  BY <1>1, HeadTailProperties
<1> HIDE DEF t
<1>3. DOMAIN t = 1..n - 1
  BY <1>2, LenProperties
<1>4. \A i \in DOMAIN t : i + 1 \in DOMAIN s /\ t[i] = s[i + 1] /\ i + 1 # 1
  BY <1>1, <1>2, <1>3
<1>5. Head(s) \in ToSet(s) /\ ToSet(t) \subseteq ToSet(s)
  BY <1>1, <1>2, <1>4 DEF ToSet
<1>6. ASSUME NEW x, AtMostOnce(s, x), NEW i \in DOMAIN t, NEW j \in DOMAIN t, t[i] = x, t[j] = x
      PROVE  i = j
  <2>1. i + 1 = j + 1
    BY <1>4, <1>6 DEF AtMostOnce
  <2> QED
    BY <1>3, <2>1
<1>7. ASSUME AtMostOnce(s, Head(s)), NEW i \in DOMAIN t PROVE t[i] # Head(s)
  BY <1>1, <1>2, <1>4, <1>7 DEF AtMostOnce
<1>8. AtMostOnce(s, Head(s)) => Head(s) \notin ToSet(t)
  BY <1>7 DEF ToSet
<1> QED
  BY <1>2, <1>5, <1>6, <1>8 DEF AtMostOnce, t

\* All but the last.
LEMMA FrontOf ==
  ASSUME NEW S, NEW s \in Seq(S), s # <<>>
  PROVE  /\ Len(s) \in Nat /\ Len(s) >= 1 /\ s[Len(s)] \in S
         /\ Front(s) \in Seq(S) /\ Len(Front(s)) = Len(s) - 1
         /\ \A i \in 1..Len(s) - 1 : Front(s)[i] = s[i]
<1>1. PICK n \in Nat : n = Len(s) /\ n >= 1
  <2>1. Len(s) \in Nat /\ Len(s) # 0
    BY LenProperties, EmptySeq
  <2>2. Len(s) >= 1
    BY <2>1
  <2> QED
    BY <2>1, <2>2
<1>2. Front(s) = SubSeq(s, 1, n - 1)
  BY <1>1 DEF Front
<1>3. \A i \in 1..n : s[i] \in S
  BY <1>1, LenProperties
<1>4. SubSeq(s, 1, n - 1) \in Seq(S) /\ Len(SubSeq(s, 1, n - 1)) = n - 1
      /\ \A i \in 1..n - 1 : SubSeq(s, 1, n - 1)[i] = s[i]
  BY <1>1, SubSeqProperties
<1> QED
  BY <1>1, <1>2, <1>3, <1>4

\* Another element in place of the last.
LEMMA LastReplaced ==
  ASSUME NEW S, NEW s \in Seq(S), s # <<>>, NEW e \in S
  PROVE  LET t == Append(Front(s), e) IN
         /\ t \in Seq(S) /\ Len(t) = Len(s) /\ t[Len(s)] = e
         /\ \A i \in 1..Len(s) - 1 : t[i] = s[i]
<1> DEFINE f == Front(s)
<1>1. PICK n \in Nat : n = Len(s) /\ n >= 1
  BY FrontOf
<1>2. f \in Seq(S) /\ Len(f) = n - 1 /\ \A i \in 1..n - 1 : f[i] = s[i]
  BY <1>1, FrontOf
<1> HIDE DEF f
<1>3. /\ Append(f, e) \in Seq(S) /\ Len(Append(f, e)) = n
      /\ Append(f, e)[n] = e /\ \A i \in 1..n - 1 : Append(f, e)[i] = f[i]
  <2>1. /\ Append(f, e) \in Seq(S) /\ Len(Append(f, e)) = Len(f) + 1
        /\ Append(f, e)[Len(f) + 1] = e /\ \A i \in 1..Len(f) : Append(f, e)[i] = f[i]
    BY <1>2, AppendProperties
  <2>2. Len(f) + 1 = n /\ Len(f) = n - 1
    BY <1>1, <1>2
  <2> QED
    BY <2>1, <2>2
<1> QED
  BY <1>1, <1>2, <1>3 DEF f

\* A sequence that repeats nothing is no longer than what it is drawn from.
LEMMA InjectiveLength ==
  ASSUME NEW S, IsFiniteSet(S), NEW s \in Seq(S), IsInjective(s)
  PROVE  Len(s) <= Cardinality(S)
<1>1. Len(s) \in Nat /\ s \in [1..Len(s) -> S]
  BY LenProperties
<1>2. s \in Injection(1..Len(s), S)
  BY <1>1 DEF Injection
<1>3. Cardinality(1..Len(s)) <= Cardinality(S)
  BY <1>2, FS_Injection
<1>4. Cardinality(1..Len(s)) = IF 1 > Len(s) THEN 0 ELSE Len(s) - 1 + 1
  BY <1>1, FS_Interval
<1>5. Cardinality(S) \in Nat
  BY FS_CardinalityType
<1> QED
  BY <1>1, <1>3, <1>4, <1>5

\* SetToSeq orders a finite set: all of its elements, each once.
LEMMA SequenceOfSet ==
  ASSUME NEW S, IsFiniteSet(S)
  PROVE  SetToSeq(S) \in Seq(S) /\ IsInjective(SetToSeq(S)) /\ ToSet(SetToSeq(S)) = S
<1> DEFINE n == Cardinality(S)
           g == SetToSeq(S)
<1>1. n \in Nat /\ ExistsBijection(1..n, S)
  BY FS_CardinalityType
<1>2. PICK f : f \in Bijection(1..n, S)
  BY <1>1 DEF ExistsBijection
<1>3. f \in [1..n -> S] /\ IsInjective(f)
  BY <1>2 DEF Bijection, Injection
<1>4. g \in [1..n -> S] /\ IsInjective(g)
  BY <1>3 DEF SetToSeq
<1>5. g \in Injection(1..n, S)
  BY <1>4 DEF Injection
<1>6. Cardinality(1..n) = n
  BY <1>1, FS_Interval
<1> HIDE DEF g
<1>7. g \in Surjection(1..n, S)
  BY <1>5, <1>6, FS_Injection
<1>8. \A x \in S : \E i \in 1..n : g[i] = x
  BY <1>7 DEF Surjection
<1>9. g \in Seq(S) /\ DOMAIN g = 1..n
  BY <1>1, <1>4
<1> QED
  BY <1>4, <1>8, <1>9 DEF ToSet, g

\* What stands before and behind a place of a sequence.
LEMMA ElementsOfParts ==
  ASSUME NEW S, NEW s \in Seq(S), NEW n \in 0..Len(s)
  PROVE  /\ SubSeq(s, 1, n) \in Seq(S) /\ SubSeq(s, n + 1, Len(s)) \in Seq(S)
         /\ ToSet(s) = ToSet(SubSeq(s, 1, n)) \union ToSet(SubSeq(s, n + 1, Len(s)))
         /\ n = Len(s) => SubSeq(s, 1, n) = s
<1> DEFINE a == SubSeq(s, 1, n)
           b == SubSeq(s, n + 1, Len(s))
<1>1. Len(s) \in Nat /\ \A i \in 1..Len(s) : s[i] \in S
  BY LenProperties
<1>2. a \in Seq(S)
  BY <1>1, SubSeqProperties
<1>3. b \in Seq(S)
  BY <1>1, SubSeqProperties
<1>4. a \o b = s
  <2>1. SubSeq(s, 1, Len(s)) = s
    BY SubSeqFull
  <2>2. 1 \in 1..Len(s) + 1 /\ n \in 1 - 1..Len(s) /\ Len(s) \in n..Len(s)
    BY <1>1
  <2>3. a \o b = SubSeq(s, 1, Len(s))
    BY <2>2, ConcatAdjacentSubSeq
  <2> QED
    BY <2>1, <2>3
<1>5. n = Len(s) => a = s
  BY SubSeqFull
<1> HIDE DEF a, b
<1>6. ToSet(a \o b) = ToSet(a) \union ToSet(b)
  BY <1>2, <1>3, ElementsOfConcat
<1> QED
  BY <1>2, <1>3, <1>4, <1>5, <1>6 DEF a, b

\* A sequence that begins another.
LEMMA PrefixOf ==
  ASSUME NEW S, NEW s \in Seq(S), NEW t \in Seq(S), Len(s) <= Len(t), \A i \in 1..Len(s) : s[i] = t[i]
  PROVE  IsPrefix(s, t)
<1> DEFINE n == Len(s)
<1>1. n \in Nat /\ Len(t) \in Nat /\ n <= Len(t)
  BY LenProperties
<1>2. (\A i \in 1..n : s[i] \in S) /\ \A i \in 1..n : t[i] \in S
  BY <1>1, LenProperties
<1>3. 1 \in Int /\ n \in Int /\ n - 1 + 1 = n /\ (IF 1 <= n THEN n - 1 + 1 ELSE 0) = n
      /\ \A i \in 1..n : 1 + i - 1 = i
  BY <1>1
<1>4. /\ SubSeq(s, 1, n) \in Seq(S) /\ Len(SubSeq(s, 1, n)) = n
      /\ \A i \in 1..n : SubSeq(s, 1, n)[i] = s[i]
  <2>1. /\ SubSeq(s, 1, n) \in Seq(S) /\ Len(SubSeq(s, 1, n)) = (IF 1 <= n THEN n - 1 + 1 ELSE 0)
        /\ \A i \in 1..(n - 1 + 1) : SubSeq(s, 1, n)[i] = s[1 + i - 1]
    BY <1>2, <1>3, SubSeqProperties
  <2> QED
    BY <2>1, <1>3
<1>5. /\ SubSeq(t, 1, n) \in Seq(S) /\ Len(SubSeq(t, 1, n)) = n
      /\ \A i \in 1..n : SubSeq(t, 1, n)[i] = t[i]
  <2>1. /\ SubSeq(t, 1, n) \in Seq(S) /\ Len(SubSeq(t, 1, n)) = (IF 1 <= n THEN n - 1 + 1 ELSE 0)
        /\ \A i \in 1..(n - 1 + 1) : SubSeq(t, 1, n)[i] = t[1 + i - 1]
    BY <1>2, <1>3, SubSeqProperties
  <2> QED
    BY <2>1, <1>3
<1>6. SubSeq(s, 1, n) = SubSeq(t, 1, n)
  BY <1>4, <1>5, SeqEqual
<1> QED
  BY <1>1, <1>6 DEF IsPrefix

\* The elements of a sequence and of what is put behind it.
LEMMA ConcatParts ==
  ASSUME NEW S, NEW s \in Seq(S), NEW t \in Seq(S)
  PROVE  /\ s \o t \in Seq(S) /\ Len(s \o t) = Len(s) + Len(t)
         /\ \A i \in 1..Len(s) : (s \o t)[i] = s[i]
         /\ \A i \in 1..Len(t) : (s \o t)[Len(s) + i] = t[i]
<1>1. PICK m \in Nat : m = Len(s)
  BY LenProperties
<1>2. PICK n \in Nat : n = Len(t)
  BY LenProperties
<1>3. PICK u : u = s \o t
  OBVIOUS
<1>4. /\ u \in Seq(S) /\ Len(u) = m + n
      /\ \A i \in 1..(m + n) : u[i] = IF i <= m THEN s[i] ELSE t[i - m]
  <2>1. /\ s \o t \in Seq(S) /\ Len(s \o t) = Len(s) + Len(t)
        /\ \A i \in 1..(Len(s) + Len(t)) : (s \o t)[i] = IF i <= Len(s) THEN s[i] ELSE t[i - Len(s)]
    BY ConcatProperties
  <2> QED
    BY <2>1, <1>1, <1>2, <1>3, Zenon
<1>5. \A i \in 1..m : u[i] = s[i]
  <2>1. \A i \in 1..m : i \in 1..(m + n) /\ i <= m
    OBVIOUS
  <2> QED
    BY <2>1, <1>4
<1>6. \A i \in 1..n : u[m + i] = t[i]
  <2>1. \A i \in 1..n : m + i \in 1..(m + n) /\ ~ (m + i <= m) /\ m + i - m = i
    OBVIOUS
  <2> QED
    BY <2>1, <1>4
<1> QED
  BY <1>1, <1>2, <1>3, <1>4, <1>5, <1>6, Zenon

\* The part of a sequence from after one place up to another.
LEMMA PartOf ==
  ASSUME NEW S, NEW s \in Seq(S), NEW a \in Nat, NEW b \in Nat, a <= b, b <= Len(s)
  PROVE  /\ SubSeq(s, a + 1, b) \in Seq(S) /\ Len(SubSeq(s, a + 1, b)) = b - a
         /\ \A i \in 1..(b - a) : SubSeq(s, a + 1, b)[i] = s[a + i]
<1>1. Len(s) \in Nat /\ \A i \in 1..Len(s) : s[i] \in S
  BY LenProperties
<1>2. a + 1 \in Int /\ b \in Int /\ \A i \in (a + 1)..b : s[i] \in S
  BY <1>1
<1>3. /\ SubSeq(s, a + 1, b) \in Seq(S)
      /\ Len(SubSeq(s, a + 1, b)) = (IF a + 1 <= b THEN b - (a + 1) + 1 ELSE 0)
      /\ \A i \in 1..(b - (a + 1) + 1) : SubSeq(s, a + 1, b)[i] = s[a + 1 + i - 1]
  BY <1>2, SubSeqProperties
<1>4. /\ (IF a + 1 <= b THEN b - (a + 1) + 1 ELSE 0) = b - a /\ b - (a + 1) + 1 = b - a
      /\ \A i \in 1..(b - a) : a + 1 + i - 1 = a + i
  OBVIOUS
<1> QED
  BY <1>3, <1>4

\* A sequence with one more element, at p.
LEMMA InsertedAt ==
  ASSUME NEW S, NEW s \in Seq(S), NEW e \in S, NEW p \in 1..(Len(s) + 1)
  PROVE  /\ InsertAt(s, p, e) \in Seq(S) /\ Len(InsertAt(s, p, e)) = Len(s) + 1
         /\ InsertAt(s, p, e)[p] = e
         /\ \A i \in 1..(p - 1) : InsertAt(s, p, e)[i] = s[i]
         /\ \A i \in p..Len(s) : InsertAt(s, p, e)[i + 1] = s[i]
<1>1. PICK n \in Nat : n = Len(s)
  BY LenProperties
<1>2. p \in Nat /\ p >= 1 /\ p <= n + 1 /\ 0 <= p - 1 /\ p - 1 <= n /\ p - 1 \in Nat /\ 0 \in Nat
  BY <1>1
<1> DEFINE a == SubSeq(s, 1, p - 1)
           b == SubSeq(s, p, n)
<1>3. a \in Seq(S) /\ Len(a) = p - 1 /\ \A i \in 1..(p - 1) : a[i] = s[i]
  BY <1>1, <1>2, SubSeqProperties
<1>4. b \in Seq(S) /\ Len(b) = n - (p - 1) /\ \A i \in 1..(n - (p - 1)) : b[i] = s[(p - 1) + i]
  <2>1. p = p - 1 + 1 /\ n <= Len(s) /\ n \in Nat
    BY <1>1, <1>2
  <2> QED
    BY <2>1, <1>1, <1>2, PartOf
<1>5. PICK u : u = a \o <<e>>
  OBVIOUS
<1>6. PICK v : v = u \o b
  OBVIOUS
<1>7. InsertAt(s, p, e) = v
  BY <1>1, <1>5, <1>6 DEF InsertAt
<1> HIDE DEF a, b
<1>8. <<e>> \in Seq(S) /\ Len(<<e>>) = 1 /\ <<e>>[1] = e
  OBVIOUS
<1>9. /\ u \in Seq(S) /\ Len(u) = p /\ u[p] = e
      /\ \A i \in 1..(p - 1) : u[i] = s[i]
  <2>1. /\ u \in Seq(S) /\ Len(u) = Len(a) + Len(<<e>>)
        /\ \A i \in 1..Len(a) : u[i] = a[i]
        /\ \A i \in 1..Len(<<e>>) : u[Len(a) + i] = <<e>>[i]
    BY <1>3, <1>5, <1>8, ConcatParts
  <2>2. u[Len(a) + 1] = e /\ Len(u) = Len(a) + 1
    BY <2>1, <1>8
  <2>3. Len(a) + 1 = p
    BY <1>2, <1>3
  <2> QED
    BY <2>1, <2>2, <2>3, <1>3
<1>10. /\ v \in Seq(S) /\ Len(v) = Len(u) + Len(b)
       /\ \A i \in 1..Len(u) : v[i] = u[i]
       /\ \A i \in 1..Len(b) : v[Len(u) + i] = b[i]
  BY <1>4, <1>6, <1>9, ConcatParts
<1>11. Len(v) = n + 1
  <2>1. p + (n - (p - 1)) = n + 1
    BY <1>2
  <2> QED
    BY <2>1, <1>4, <1>9, <1>10
<1>12. v[p] = e /\ \A i \in 1..(p - 1) : v[i] = s[i]
  <2>1. p \in 1..p /\ \A i \in 1..(p - 1) : i \in 1..p
    BY <1>2
  <2> QED
    BY <2>1, <1>9, <1>10
<1>13. \A i \in p..n : v[i + 1] = s[i]
  <2> TAKE i \in p..n
  <2>1. i - p + 1 \in 1..(n - (p - 1)) /\ p + (i - p + 1) = i + 1 /\ (p - 1) + (i - p + 1) = i
    BY <1>2
  <2>2. PICK j : j = i - p + 1
    OBVIOUS
  <2>3. j \in 1..Len(b) /\ Len(u) + j = i + 1 /\ (p - 1) + j = i
    BY <2>1, <2>2, <1>4, <1>9
  <2>4. v[i + 1] = b[j] /\ b[j] = s[i]
    BY <2>3, <1>4, <1>10
  <2> QED
    BY <2>4
<1> QED
  BY <1>1, <1>7, <1>10, <1>11, <1>12, <1>13

\* What holds of 0, and of each number with the one before it, holds up to any.
LEMMA StepByStep ==
  ASSUME NEW N \in Nat, NEW P, 0 \in P, \A n \in 1..N : n - 1 \in P => n \in P
  PROVE  \A n \in 0..N : n \in P
<1> DEFINE Out == {n \in 0..N : n \notin P}
<1> SUFFICES ASSUME Out # {} PROVE FALSE
  OBVIOUS
<1>1. PICK n \in Out : \A x \in Out : n <= x
  <2>1. Out \subseteq Nat
    OBVIOUS
  <2> QED
    BY <2>1, LeastElement
<1>2. n \in 1..N /\ n - 1 \in 0..N /\ n - 1 \notin Out
  BY <1>1
<1> QED
  BY <1>1, <1>2

\* A function may be given by what each of its values makes of the one before.
Iterates(g, start, step, N) == g[0] = start /\ \A i \in 1..N : g[i] = step[i][g[i - 1]]

LEMMA Recursion ==
  ASSUME NEW V, NEW start \in V, NEW N \in Nat, NEW step \in [1..N -> [V -> V]]
  PROVE  \E g \in [0..N -> V] : Iterates(g, start, step, N)
<1> DEFINE Up(n) == {g \in [0..n -> V] : g[0] = start /\ \A i \in 1..n : g[i] = step[i][g[i - 1]]}
           P == {n \in 0..N : Up(n) # {}}
<1>1. 0 \in P
  <2>1. [i \in 0..0 |-> start] \in Up(0)
    OBVIOUS
  <2> QED
    BY <2>1
<1>2. ASSUME NEW n \in 1..N, n - 1 \in P PROVE n \in P
  <2>1. PICK g \in [0..n - 1 -> V] : g[0] = start /\ \A i \in 1..n - 1 : g[i] = step[i][g[i - 1]]
    BY <1>2
  <2>2. PICK v \in V : v = step[n][g[n - 1]]
    <3>1. step[n] \in [V -> V] /\ g[n - 1] \in V
      BY <2>1
    <3> QED
      BY <3>1
  <2> DEFINE h == [i \in 0..n |-> IF i = n THEN v ELSE g[i]]
  <2>3. h \in [0..n -> V] /\ h[0] = start /\ h[n] = v /\ \A i \in 0..n - 1 : h[i] = g[i]
    BY <2>1
  <2> HIDE DEF h
  <2>4. ASSUME NEW i \in 1..n PROVE h[i] = step[i][h[i - 1]]
    <3>1. CASE i = n
      BY <2>2, <2>3, <3>1
    <3>2. CASE i # n
      <4>1. i \in 1..n - 1 /\ i \in 0..n - 1 /\ i - 1 \in 0..n - 1
        BY <3>2
      <4> QED
        BY <2>1, <2>3, <4>1
    <3> QED
      BY <3>1, <3>2
  <2>5. h \in Up(n)
    BY <2>3, <2>4
  <2> QED
    BY <2>5
<1> HIDE DEF P
<1>3. N \in P
  <2>1. \A n \in 1..N : n - 1 \in P => n \in P
    BY <1>2
  <2>2. \A n \in 0..N : n \in P
    BY <1>1, <2>1, StepByStep
  <2> QED
    BY <2>2
<1> QED
  BY <1>3 DEF P, Iterates

-----------------------------------------------------------------------------
\* How many numbers of a set are at most i.
Rank(I, i) == Cardinality({j \in I : j <= i})

\* Ranks tell the numbers of a finite set apart.
LEMMA RankTells ==
  ASSUME NEW I, I \subseteq Nat, IsFiniteSet(I), NEW i \in I, NEW j \in I, Rank(I, i) = Rank(I, j)
  PROVE  i = j
<1>1. ASSUME NEW a \in I, NEW b \in I, a < b PROVE Rank(I, a) # Rank(I, b)
  <2> DEFINE A == {x \in I : x <= a}
             B == {x \in I : x <= b}
  <2>0. a \in Nat /\ b \in Nat /\ \A x \in I : x \in Nat
    OBVIOUS
  <2>1. A \in SUBSET B /\ b \in B /\ b \notin A
    <3>1. \A x \in I : x <= a => x <= b
      BY <2>0, <1>1
    <3>2. b <= b /\ ~ b <= a
      BY <2>0, <1>1
    <3> QED
      BY <3>1, <3>2
  <2>2. IsFiniteSet(B)
    BY FS_Subset
  <2>3. Cardinality(A) # Cardinality(B)
    BY <2>1, <2>2, FS_Subset
  <2> QED
    BY <2>3 DEF Rank
<1>2. i \in Nat /\ j \in Nat
  OBVIOUS
<1>3. ~ i < j /\ ~ j < i
  BY <1>1
<1> QED
  BY <1>2, <1>3

\* Every number up to the size of a finite set is the rank of one of its elements.
LEMMA RankExists ==
  ASSUME NEW I, I \subseteq Nat, IsFiniteSet(I), NEW k \in 1..Cardinality(I)
  PROVE  \E i \in I : Rank(I, i) = k
<1>1. Cardinality(I) \in Nat
  BY FS_CardinalityType
<1> DEFINE Unranked == {n \in 1..Cardinality(I) : ~ \E i \in I : Rank(I, i) = n}
<1> SUFFICES ASSUME Unranked # {} PROVE FALSE
  OBVIOUS
<1>2. PICK n \in Unranked : \A x \in Unranked : n <= x
  <2>1. Unranked \subseteq Nat
    BY <1>1
  <2> QED
    BY <2>1, LeastElement
<1> HIDE DEF Unranked
<1>3. n \in 1..Cardinality(I) /\ n \in Nat /\ ~ \E i \in I : Rank(I, i) = n
  BY <1>1, <1>2 DEF Unranked
<1>4. CASE n = 1
  <2>1. I # {}
    BY <1>1, <1>3, FS_EmptySet
  <2>2. PICK i \in I : \A j \in I : i <= j
    BY <2>1, LeastElement
  <2>3. {j \in I : j <= i} = {i}
    <3>1. ASSUME NEW j \in I, j <= i PROVE j = i
      <4>1. j \in Nat /\ i \in Nat /\ i <= j
        BY <2>2
      <4> QED
        BY <4>1, <3>1
    <3>2. i <= i
      OBVIOUS
    <3> QED
      BY <3>1, <3>2
  <2>4. Rank(I, i) = 1
    BY <2>3, FS_Singleton DEF Rank
  <2> QED
    BY <2>4, <1>3, <1>4
<1>5. CASE n # 1
  <2>1. PICK i \in I : Rank(I, i) = n - 1
    <3>1. n - 1 \in 1..Cardinality(I)
      BY <1>1, <1>3, <1>5
    <3>2. n - 1 \notin Unranked
      BY <1>2, <1>3
    <3> QED
      BY <3>1, <3>2 DEF Unranked
  <2> DEFINE Below == {j \in I : j <= i}
             Above == {j \in I : j > i}
  <2>2. Above # {}
    <3> SUFFICES ASSUME Above = {} PROVE FALSE
      OBVIOUS
    <3>1. Below = I
      <4>1. ASSUME NEW x \in I PROVE x <= i
        <5>1. x \in Nat /\ i \in Nat /\ ~ x > i
          OBVIOUS
        <5> QED
          BY <5>1
      <4> QED
        BY <4>1
    <3>2. Cardinality(I) = n - 1
      BY <2>1, <3>1 DEF Rank
    <3> QED
      BY <3>2, <1>1, <1>3
  <2>3. PICK j \in Above : \A x \in Above : j <= x
    <3>1. Above \subseteq Nat
      OBVIOUS
    <3> QED
      BY <2>2, <3>1, LeastElement
  <2>4. {x \in I : x <= j} = Below \union {j}
    <3>1. ASSUME NEW x \in I, x <= j, x # j PROVE x <= i
      <4>1. x \in Nat /\ i \in Nat /\ j \in Nat
        OBVIOUS
      <4>2. x > i => j <= x
        BY <2>3
      <4> QED
        BY <4>1, <4>2, <3>1
    <3>2. j \in I /\ j <= j /\ \A x \in Below : x <= j
      OBVIOUS
    <3> QED
      BY <3>1, <3>2
  <2>5. IsFiniteSet(Below) /\ j \notin Below
    BY FS_Subset
  <2>6. Cardinality(Below \union {j}) = Cardinality(Below) + 1
    BY <2>5, FS_AddElement
  <2>7. Rank(I, j) = n
    <3>1. Cardinality(Below) = n - 1
      BY <2>1 DEF Rank
    <3>2. Rank(I, j) = Cardinality(Below) + 1
      BY <2>4, <2>6 DEF Rank
    <3> QED
      BY <3>1, <3>2, <1>3
  <2> QED
    BY <2>7, <1>3
<1> QED
  BY <1>4, <1>5

\* The k-th of n numbers in ascending order has rank k.
LEMMA RankOfAscending ==
  ASSUME NEW n \in Nat, NEW f \in [1..n -> Nat], \A i, j \in 1..n : i < j => f[i] < f[j],
         NEW I, \A x : x \in I <=> \E i \in 1..n : f[i] = x
  PROVE  /\ I \subseteq Nat /\ IsFiniteSet(I) /\ Cardinality(I) = n
         /\ \A k \in 1..n : f[k] \in I /\ Rank(I, f[k]) = k
<1>0. I = {f[i] : i \in 1..n}
  OBVIOUS
<1>1. \A k \in 1..n : k \in Nat /\ f[k] \in Nat
  OBVIOUS
<1>2. ASSUME NEW k \in Nat, k <= n
      PROVE  LET J == {f[i] : i \in 1..k} IN IsFiniteSet(J) /\ Cardinality(J) = k
  <2> DEFINE J == {f[i] : i \in 1..k}
             g == [i \in 1..k |-> f[i]]
  <2>1. IsFiniteSet(1..k) /\ Cardinality(1..k) = k
    BY <1>2, FS_Interval
  <2>2. \A i, j \in 1..k : g[i] = g[j] => i = j
    <3> SUFFICES ASSUME NEW i \in 1..k, NEW j \in 1..k, g[i] = g[j] PROVE i = j
      OBVIOUS
    <3>1. i \in 1..n /\ j \in 1..n /\ i \in Nat /\ j \in Nat
      BY <1>2
    <3>2. f[i] = f[j] /\ f[i] \in Nat /\ f[j] \in Nat
      BY <3>1
    <3>3. ~ i < j /\ ~ j < i
      BY <3>1, <3>2
    <3> QED
      BY <3>1, <3>3
  <2>3. g \in [1..k -> J] /\ \A y \in J : \E i \in 1..k : g[i] = y
    OBVIOUS
  <2>4. g \in Surjection(1..k, J) /\ g \in Injection(1..k, J)
    BY <2>2, <2>3 DEF Surjection, Injection, IsInjective
  <2> QED
    BY <2>1, <2>4, FS_Surjection
<1>3. ASSUME NEW k \in 1..n PROVE f[k] \in I /\ Rank(I, f[k]) = k
  <2>1. {y \in I : y <= f[k]} = {f[i] : i \in 1..k}
    <3>1. ASSUME NEW i \in 1..n PROVE f[i] <= f[k] <=> i <= k
      <4>1. i \in Nat /\ k \in Nat /\ f[i] \in Nat /\ f[k] \in Nat
        OBVIOUS
      <4>2. (i < k => f[i] < f[k]) /\ (k < i => f[k] < f[i])
        OBVIOUS
      <4> QED
        BY <4>1, <4>2
    <3>2. 1..k \subseteq 1..n
      OBVIOUS
    <3>3. \A i \in 1..n : i <= k <=> i \in 1..k
      OBVIOUS
    <3> QED
      BY <3>1, <3>2, <3>3
  <2>2. k \in Nat /\ k <= n
    OBVIOUS
  <2> QED
    BY <1>2, <2>1, <2>2 DEF Rank
<1>4. IsFiniteSet(I) /\ Cardinality(I) = n
  <2>1. n \in Nat /\ n <= n
    OBVIOUS
  <2> QED
    BY <1>2, <2>1
<1> QED
  BY <1>1, <1>3, <1>4

\* What a filter leaves: what the sequence holds of the set, as often and no more.
LEMMA ElementsOfFiltered ==
  ASSUME NEW T, NEW s \in Seq(T), NEW S
  PROVE  /\ Filtered(s, S) \in Seq(T)
         /\ ToSet(Filtered(s, S)) = ToSet(s) \intersect S
         /\ IsInjective(s) => IsInjective(Filtered(s, S))
<1> DEFINE kept == {i \in DOMAIN s : s[i] \in S}
           n == Cardinality(kept)
           Kept(k) == CHOOSE i \in kept : Cardinality({j \in kept : j <= i}) = k
<1>1. DOMAIN s = 1..Len(s) /\ Len(s) \in Nat /\ \A i \in 1..Len(s) : s[i] \in T
  BY LenProperties
<1>2. kept \subseteq Nat /\ kept \subseteq DOMAIN s /\ IsFiniteSet(kept) /\ n \in Nat
  <2>1. kept \subseteq DOMAIN s /\ kept \subseteq Nat /\ IsFiniteSet(DOMAIN s)
    BY <1>1, FS_Interval
  <2> QED
    BY <2>1, FS_Subset, FS_CardinalityType
<1>3. \A i \in kept : s[i] \in S
  OBVIOUS
<1>4. \A i \in DOMAIN s : s[i] \in S => i \in kept
  OBVIOUS
<1>5. Filtered(s, S) = [k \in 1..n |-> s[Kept(k)]]
  BY DEF Filtered
<1> HIDE DEF kept
<1>6. ASSUME NEW k \in 1..n PROVE Kept(k) \in kept /\ Rank(kept, Kept(k)) = k
  <2>1. \E i \in kept : Cardinality({j \in kept : j <= i}) = k
    BY <1>2, RankExists DEF Rank
  <2> QED
    BY <2>1 DEF Rank
<1>7. ASSUME NEW i \in kept PROVE \E k \in 1..n : Kept(k) = i
  <2> DEFINE A == {j \in kept : j <= i}
  <2>1. i \in Nat
    BY <1>2
  <2>2. A \subseteq kept /\ i \in A
    BY <2>1
  <2>3. IsFiniteSet(A) /\ Cardinality(A) <= n
    BY <1>2, <2>2, FS_Subset
  <2>4. Cardinality(A) \in Nat /\ Cardinality(A) # 0
    BY <2>2, <2>3, FS_CardinalityType, FS_EmptySet
  <2>5. PICK k \in 1..n : k = Rank(kept, i)
    <3>1. Rank(kept, i) = Cardinality(A)
      BY DEF Rank
    <3> HIDE DEF A, n
    <3>2. Cardinality(A) \in 1..n
      BY <1>2, <2>3, <2>4
    <3> QED
      BY <3>1, <3>2
  <2>6. Kept(k) \in kept /\ Rank(kept, Kept(k)) = Rank(kept, i)
    BY <1>6, <2>5
  <2>7. Kept(k) = i
    BY <1>2, <2>6, RankTells
  <2> QED
    BY <2>7
<1> DEFINE f == Filtered(s, S)
<1>8. f \in Seq(T) /\ DOMAIN f = 1..n /\ \A k \in 1..n : f[k] = s[Kept(k)]
  <2>1. \A k \in 1..n : Kept(k) \in DOMAIN s /\ s[Kept(k)] \in T
    BY <1>1, <1>2, <1>6
  <2> HIDE DEF Kept, n
  <2>2. f \in [1..n -> T] /\ \A k \in 1..n : f[k] = s[Kept(k)]
    BY <1>5, <2>1
  <2> HIDE DEF f
  <2>3. f \in Seq(T) /\ DOMAIN f = 1..n
    BY <1>2, <2>2
  <2> QED
    BY <2>2, <2>3
<1> HIDE DEF f, Kept, n
<1>9. ToSet(f) = ToSet(s) \intersect S
  <2>1. ASSUME NEW x \in ToSet(f) PROVE x \in ToSet(s) \intersect S
    <3>1. PICK k \in 1..n : f[k] = x
      BY <1>8 DEF ToSet
    <3>2. PICK i \in kept : i = Kept(k)
      BY <1>6
    <3> QED
      BY <1>2, <1>3, <1>8, <3>1, <3>2 DEF ToSet
  <2>2. ASSUME NEW x \in ToSet(s) \intersect S PROVE x \in ToSet(f)
    <3>1. PICK i \in DOMAIN s : s[i] = x
      BY DEF ToSet
    <3>2. i \in kept
      BY <1>4, <3>1
    <3>3. PICK k \in 1..n : Kept(k) = i
      BY <1>7, <3>2
    <3> QED
      BY <1>8, <3>1, <3>3 DEF ToSet
  <2> QED
    BY <2>1, <2>2
<1>10. ASSUME IsInjective(s) PROVE IsInjective(f)
  <2> SUFFICES ASSUME NEW j \in 1..n, NEW k \in 1..n, f[j] = f[k] PROVE j = k
    BY <1>8 DEF IsInjective
  <2>1. Kept(j) \in DOMAIN s /\ Kept(k) \in DOMAIN s /\ s[Kept(j)] = s[Kept(k)]
    BY <1>2, <1>6, <1>8
  <2>2. Kept(j) = Kept(k)
    BY <1>10, <2>1 DEF IsInjective
  <2> QED
    BY <1>6, <2>2
<1> QED
  BY <1>8, <1>9, <1>10 DEF f

\* Where a sequence holds something.
Places(s, x) == {k \in DOMAIN s : s[k] = x}

LEMMA PlacesAreFinite ==
  ASSUME NEW S, NEW s \in Seq(S), NEW x
  PROVE  /\ IsFiniteSet(Places(s, x)) /\ Cardinality(Places(s, x)) \in Nat
         /\ Cardinality(Places(s, x)) = 0 <=> x \notin ToSet(s)
<1>1. DOMAIN s = 1..Len(s) /\ Len(s) \in Nat
  BY LenProperties
<1>2. IsFiniteSet(DOMAIN s) /\ Places(s, x) \in SUBSET DOMAIN s
  BY <1>1, FS_Interval DEF Places
<1>3. IsFiniteSet(Places(s, x))
  BY <1>2, FS_Subset
<1>4. Cardinality(Places(s, x)) = 0 <=> Places(s, x) = {}
  BY <1>3, FS_EmptySet
<1> QED
  BY <1>3, <1>4, FS_CardinalityType DEF Places, ToSet

\* Append adds one place to those of what it adds.
LEMMA PlacesOfAppend ==
  ASSUME NEW S, NEW s \in Seq(S), NEW e \in S, NEW x
  PROVE  Cardinality(Places(Append(s, e), x)) =
           IF x = e THEN Cardinality(Places(s, x)) + 1 ELSE Cardinality(Places(s, x))
<1> DEFINE t == Append(s, e)
<1>1. PICK n \in Nat : /\ n = Len(s) /\ DOMAIN s = 1..n /\ DOMAIN t = 1..(n + 1)
                       /\ (\A i \in 1..n : t[i] = s[i]) /\ t[n + 1] = e
  BY AppendProperties, LenProperties
<1>2. CASE x # e
  <2>1. Places(t, x) = Places(s, x)
    BY <1>1, <1>2 DEF Places
  <2> QED
    BY <1>2, <2>1
<1>3. CASE x = e
  <2>1. Places(t, x) = Places(s, x) \union {n + 1} /\ n + 1 \notin Places(s, x)
    BY <1>1, <1>3 DEF Places
  <2> QED
    BY <1>3, <2>1, PlacesAreFinite, FS_AddElement
<1> QED
  BY <1>2, <1>3

\* RemoveAt takes one place of what it removes.
LEMMA PlacesOfRemoved ==
  ASSUME NEW S, NEW s \in Seq(S), NEW k \in DOMAIN s, NEW x
  PROVE  Cardinality(Places(RemoveAt(s, k), x)) =
           IF x = s[k] THEN Cardinality(Places(s, x)) - 1 ELSE Cardinality(Places(s, x))
<1> DEFINE t == RemoveAt(s, k)
           P == Places(s, x) \ {k}
           g == [i \in Places(t, x) |-> IF i < k THEN i ELSE i + 1]
<1>1. PICK n \in Nat : n = Len(s) /\ DOMAIN s = 1..n /\ k \in 1..n
  BY LenProperties
<1>2. /\ t \in Seq(S) /\ Len(t) = n - 1 /\ DOMAIN t = 1..(n - 1)
      /\ \A i \in 1..(n - 1) : t[i] = s[IF i < k THEN i ELSE i + 1]
  <2>1. t \in Seq(S) /\ Len(t) = n - 1
    BY <1>1, RemovedAt
  <2>2. DOMAIN t = 1..(n - 1)
    BY <2>1, LenProperties
  <2> QED
    BY <2>1, <2>2, RemovedAt
<1>3. ASSUME NEW i \in Places(t, x) PROVE g[i] \in P
  <2>1. i \in 1..(n - 1) /\ t[i] = x
    BY <1>2 DEF Places
  <2>2. (IF i < k THEN i ELSE i + 1) \in 1..n /\ (IF i < k THEN i ELSE i + 1) # k
    BY <2>1, <1>1
  <2> QED
    BY <2>1, <2>2, <1>1, <1>2 DEF Places
<1>4. ASSUME NEW j \in P PROVE \E i \in Places(t, x) : g[i] = j
  <2>1. j \in 1..n /\ j # k /\ s[j] = x
    BY <1>1 DEF Places
  <2> DEFINE i == IF j < k THEN j ELSE j - 1
  <2>2. i \in 1..(n - 1) /\ (IF i < k THEN i ELSE i + 1) = j
    BY <2>1, <1>1
  <2>3. i \in Places(t, x)
    BY <2>1, <2>2, <1>2 DEF Places
  <2> QED
    BY <2>2, <2>3
<1>5. \A i, j \in Places(t, x) : g[i] = g[j] => i = j
  <2>1. \A i \in Places(t, x) : i \in Nat
    BY <1>2 DEF Places
  <2> QED
    BY <2>1, <1>1
<1>6. g \in Surjection(Places(t, x), P) /\ g \in Injection(Places(t, x), P)
  BY <1>3, <1>4, <1>5 DEF Surjection, Injection, IsInjective
<1>7. Cardinality(Places(t, x)) = Cardinality(P)
  BY <1>2, <1>6, PlacesAreFinite, FS_Surjection
<1>8. k \in Places(s, x) <=> x = s[k]
  BY <1>1 DEF Places
<1> QED
  BY <1>7, <1>8, PlacesAreFinite, FS_RemoveElement

\* RemoveFirst takes one place of what it removes, and leaves the others.
LEMMA PlacesOfRemoveFirst ==
  ASSUME NEW S, NEW s \in Seq(S), NEW e \in ToSet(s), NEW x
  PROVE  /\ Len(RemoveFirst(s, e)) = Len(s) - 1
         /\ Cardinality(Places(RemoveFirst(s, e), x)) =
              IF x = e THEN Cardinality(Places(s, x)) - 1 ELSE Cardinality(Places(s, x))
<1>1. PICK k \in DOMAIN s : s[k] = e /\ RemoveFirst(s, e) = RemoveAt(s, k)
  BY RemoveFirstAt
<1> QED
  BY <1>1, RemovedAt, PlacesOfRemoved
=============================================================================
