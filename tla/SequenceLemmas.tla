--------------------------- MODULE SequenceLemmas ---------------------------
(***************************************************************************)
(* Lemmas about the sequence operators that the modules are built from.    *)
(***************************************************************************)
EXTENDS Integers, SequencesExt, SequenceTheorems, FiniteSetTheorems, FunctionTheorems, TLAPS

\* splice(i, 1): the elements behind position i move up by one.
LEMMA RemoveAtShifts ==
    ASSUME NEW S, NEW s \in Seq(S), NEW i \in 1 .. Len(s)
    PROVE  /\ RemoveAt(s, i) \in Seq(S)
           /\ Len(RemoveAt(s, i)) = Len(s) - 1
           /\ \A j \in 1 .. Len(s) - 1 :
                RemoveAt(s, i)[j] = IF j < i THEN s[j] ELSE s[j + 1]
<1> DEFINE a == SubSeq(s, 1, i - 1)
           b == SubSeq(s, i + 1, Len(s))
<1>1. /\ a \in Seq(S) /\ Len(a) = i - 1
      /\ \A j \in 1 .. i - 1 : a[j] = s[j]
  OBVIOUS
<1>2. /\ b \in Seq(S) /\ Len(b) = Len(s) - i
      /\ \A j \in 1 .. Len(s) - i : b[j] = s[i + j]
  OBVIOUS
<1>3. RemoveAt(s, i) = a \o b
  BY DEF RemoveAt
<1> HIDE DEF a, b
<1>4. /\ a \o b \in Seq(S)
      /\ Len(a \o b) = Len(s) - 1
      /\ \A j \in 1 .. Len(s) - 1 :
           (a \o b)[j] = IF j <= i - 1 THEN a[j] ELSE b[j - (i - 1)]
  <2>1. Len(a) + Len(b) = Len(s) - 1
    BY <1>1, <1>2
  <2>2. /\ a \o b \in Seq(S)
        /\ Len(a \o b) = Len(a) + Len(b)
        /\ \A j \in 1 .. Len(a) + Len(b) :
             (a \o b)[j] = IF j <= Len(a) THEN a[j] ELSE b[j - Len(a)]
    BY <1>1, <1>2, ConcatProperties, Zenon
  <2> QED
    BY <1>1, <2>1, <2>2, Zenon
<1>5. \A j \in 1 .. Len(s) - 1 : ~(j < i) =>
          /\ j - (i - 1) \in 1 .. Len(s) - i
          /\ i + (j - (i - 1)) = j + 1
  OBVIOUS
<1> QED
  BY <1>1, <1>2, <1>3, <1>4, <1>5

\* Removing a position keeps what holds of every element, and keeps elements
\* apart that were apart: position k stems from position from[k].
LEMMA RemoveAtStems ==
    ASSUME NEW S, NEW s \in Seq(S), NEW i \in DOMAIN s
    PROVE  \E from \in [DOMAIN RemoveAt(s, i) -> DOMAIN s \ {i}] :
             /\ \A k \in DOMAIN RemoveAt(s, i) : RemoveAt(s, i)[k] = s[from[k]]
             /\ \A k, l \in DOMAIN RemoveAt(s, i) : from[k] = from[l] => k = l
<1> DEFINE r == RemoveAt(s, i)
           from == [k \in 1 .. Len(s) - 1 |-> IF k < i THEN k ELSE k + 1]
<1>1. i \in 1 .. Len(s) /\ DOMAIN s = 1 .. Len(s) /\ Len(s) \in Nat
  OBVIOUS
<1>2. /\ r \in Seq(S) /\ Len(r) = Len(s) - 1
      /\ \A k \in 1 .. Len(s) - 1 : r[k] = IF k < i THEN s[k] ELSE s[k + 1]
  BY <1>1, RemoveAtShifts
<1> HIDE DEF r
<1>3. DOMAIN r = 1 .. Len(s) - 1
  BY <1>2
<1>4. from \in [DOMAIN r -> DOMAIN s \ {i}]
  BY <1>1, <1>3
<1>5. \A k \in DOMAIN r : r[k] = s[from[k]]
  BY <1>2, <1>3
<1>6. \A k, l \in DOMAIN r : from[k] = from[l] => k = l
  BY <1>1, <1>3
<1> HIDE DEF from
<1> QED
  BY <1>4, <1>5, <1>6, Zenon DEF r

-----------------------------------------------------------------------------
\* The elements of s come in ascending order.
Ascends(s) == \A i, j \in DOMAIN s : i < j => s[i] < s[j]

\* A shift takes out the least element, the head.
LEMMA TailAscends ==
    ASSUME NEW s \in Seq(Nat), s # <<>>, Ascends(s)
    PROVE  /\ Tail(s) \in Seq(Nat) /\ Ascends(Tail(s))
           /\ Head(s) \in Range(s) /\ \A o \in Range(s) : Head(s) <= o
           /\ Range(Tail(s)) = Range(s) \ {Head(s)}
<1>1. /\ Tail(s) \in Seq(Nat) /\ Len(Tail(s)) = Len(s) - 1
      /\ Len(s) \in Nat \ {0} /\ DOMAIN s = 1 .. Len(s) /\ Head(s) = s[1]
      /\ DOMAIN Tail(s) = 1 .. Len(s) - 1
      /\ \A i \in 1 .. Len(s) - 1 : Tail(s)[i] = s[i + 1]
      /\ \A i \in 1 .. Len(s) : s[i] \in Nat
  BY HeadTailProperties, EmptySeq, LenProperties
<1>2. Ascends(Tail(s))
  BY <1>1 DEF Ascends
<1>3. 1 \in DOMAIN s /\ \A i \in DOMAIN s : i = 1 \/ (i - 1 \in DOMAIN Tail(s) /\ s[1] < s[i])
  BY <1>1 DEF Ascends
<1>4. Head(s) \in Range(s) /\ \A o \in Range(s) : Head(s) <= o
  BY <1>1, <1>3 DEF Range
<1>5. ASSUME NEW o \in Range(Tail(s)) PROVE o \in Range(s) \ {Head(s)}
  <2>1. PICK i \in 1 .. Len(s) - 1 : o = s[i + 1]
    BY <1>1 DEF Range
  <2>2. i + 1 \in DOMAIN s /\ i + 1 # 1
    BY <1>1
  <2>3. s[1] < s[i + 1] /\ s[1] \in Nat
    BY <1>1, <1>3, <2>2
  <2> QED
    BY <1>1, <2>1, <2>2, <2>3 DEF Range
<1>6. ASSUME NEW o \in Range(s), o # Head(s) PROVE o \in Range(Tail(s))
  <2>1. PICK i \in DOMAIN s : o = s[i]
    BY DEF Range
  <2>2. i # 1 /\ i - 1 \in DOMAIN Tail(s)
    BY <1>1, <1>3, <1>6, <2>1
  <2>3. Tail(s)[i - 1] = s[i]
    BY <1>1, <2>2
  <2> QED
    BY <2>1, <2>2, <2>3 DEF Range
<1> QED
  BY <1>1, <1>2, <1>4, <1>5, <1>6

\* A push of what is greater than all of them.
LEMMA AppendAscends ==
    ASSUME NEW s \in Seq(Nat), Ascends(s), NEW n \in Nat, \A o \in Range(s) : o < n
    PROVE  /\ Append(s, n) \in Seq(Nat) /\ Ascends(Append(s, n))
           /\ Range(Append(s, n)) = Range(s) \cup {n}
<1> DEFINE a == Append(s, n)
<1>1. /\ a \in Seq(Nat) /\ Len(s) \in Nat /\ Len(a) = Len(s) + 1
      /\ DOMAIN s = 1 .. Len(s) /\ DOMAIN a = 1 .. Len(s) + 1
      /\ a[Len(s) + 1] = n /\ \A i \in 1 .. Len(s) : a[i] = s[i]
  BY AppendProperties, LenProperties
<1> HIDE DEF a
<1>2. \A i \in DOMAIN s : i \in DOMAIN a /\ a[i] = s[i] /\ s[i] < n
  BY <1>1 DEF Range
<1>3. \A i \in DOMAIN a : i \in DOMAIN s \/ (i = Len(s) + 1 /\ a[i] = n)
  BY <1>1
<1>4. Ascends(a)
  BY <1>1, <1>2, <1>3 DEF Ascends
<1>5. Range(a) = Range(s) \cup {n}
  BY <1>1, <1>2, <1>3 DEF Range
<1> QED
  BY <1>1, <1>4, <1>5 DEF a

\* Where none comes twice, there are as many elements as positions.
LEMMA InjectiveCardinality ==
    ASSUME NEW S, NEW s \in Seq(S), IsInjective(s)
    PROVE  IsFiniteSet(Range(s)) /\ Cardinality(Range(s)) = Len(s)
<1>1. Len(s) \in Nat /\ DOMAIN s = 1 .. Len(s) /\ s \in [1 .. Len(s) -> S]
  BY LenProperties
<1>2. s \in [1 .. Len(s) -> Range(s)] /\ \A t \in Range(s) : \E i \in 1 .. Len(s) : s[i] = t
  BY <1>1 DEF Range
<1>3. ASSUME NEW i \in 1 .. Len(s), NEW j \in 1 .. Len(s), s[i] = s[j] PROVE i = j
  BY <1>1, <1>3, Zenon DEF IsInjective
<1>4. s \in Bijection(1 .. Len(s), Range(s))
  BY <1>2, <1>3, Fun_IsBij
<1>5. ExistsBijection(1 .. Len(s), Range(s))
  BY <1>4 DEF ExistsBijection
<1>6. IsFiniteSet(1 .. Len(s)) /\ Cardinality(1 .. Len(s)) = Len(s)
  <2>1. 1 \in Int /\ Len(s) \in Int
    BY <1>1
  <2>2. /\ IsFiniteSet(1 .. Len(s))
        /\ Cardinality(1 .. Len(s)) = IF 1 > Len(s) THEN 0 ELSE Len(s) - 1 + 1
    BY <2>1, FS_Interval, Zenon
  <2> QED
    BY <1>1, <2>2
<1> QED
  BY <1>5, <1>6, FS_Bijection

LEMMA AscendsCardinality ==
    ASSUME NEW s \in Seq(Nat), Ascends(s)
    PROVE  IsFiniteSet(Range(s)) /\ Cardinality(Range(s)) = Len(s)
<1>1. DOMAIN s = 1 .. Len(s) /\ \A i \in DOMAIN s : s[i] \in Nat
  BY LenProperties
<1>2. ASSUME NEW i \in DOMAIN s, NEW j \in DOMAIN s, s[i] = s[j] PROVE i = j
  <2>1. s[i] \in Nat /\ ~(s[i] < s[j]) /\ ~(s[j] < s[i])
    BY <1>1, <1>2
  <2> QED
    BY <1>1, <2>1 DEF Ascends
<1>3. IsInjective(s)
  BY <1>2, Zenon DEF IsInjective
<1> QED
  BY <1>3, InjectiveCardinality

-----------------------------------------------------------------------------
(* Natural numbers, as a basis for inductions: theorems that take a predicate *)
(* cannot be instantiated here, those that take a set can.                    *)

\* A set of natural numbers has a least element.
LEMMA LeastElement ==
    ASSUME NEW T \in SUBSET Nat, T # {}
    PROVE  \E m \in T : \A n \in T : m <= n
<1> DEFINE R == OpToRel(<, Nat)
<1>1. IsWellFoundedOn(R, Nat)
  BY NatLessThanWellFounded
<1>2. \A m, n \in Nat : ~(<<n, m>> \in R) => m <= n
  BY DEF OpToRel
<1> HIDE DEF R
<1>3. PICK m \in T : \A n \in T : ~(<<n, m>> \in R)
  BY <1>1, WFMin
<1> QED
  BY <1>2, <1>3

-----------------------------------------------------------------------------
(* Prefixes *)

\* The first n elements of a sequence.
LEMMA FirstElements ==
    ASSUME NEW S, NEW s \in Seq(S), NEW n \in 0 .. Len(s)
    PROVE  /\ SubSeq(s, 1, n) \in Seq(S) /\ Len(SubSeq(s, 1, n)) = n
           /\ \A i \in 1 .. n : SubSeq(s, 1, n)[i] = s[i]
<1>1. Len(s) \in Nat /\ n \in Nat /\ n <= Len(s)
  BY LenProperties
<1> QED
  BY <1>1

LEMMA SameSequence ==
    ASSUME NEW S, NEW s \in Seq(S), NEW t \in Seq(S), Len(s) = Len(t),
           \A i \in 1 .. Len(s) : s[i] = t[i]
    PROVE  s = t
BY SeqEqual

\* A prefix agrees position by position.
LEMMA PrefixByPosition ==
    ASSUME NEW S, NEW s \in Seq(S), NEW t \in Seq(S)
    PROVE  IsPrefix(s, t) <=> Len(s) <= Len(t) /\ \A i \in 1 .. Len(s) : s[i] = t[i]
<1>1. Len(s) \in Nat /\ Len(t) \in Nat
  BY LenProperties
<1> SUFFICES ASSUME Len(s) <= Len(t)
             PROVE  SubSeq(s, 1, Len(s)) = SubSeq(t, 1, Len(s)) <=> \A i \in 1 .. Len(s) : s[i] = t[i]
  BY DEF IsPrefix
<1> DEFINE a == SubSeq(s, 1, Len(s))
           b == SubSeq(t, 1, Len(s))
<1>2. Len(s) \in 0 .. Len(s) /\ Len(s) \in 0 .. Len(t)
  BY <1>1
<1>3. /\ a \in Seq(S) /\ Len(a) = Len(s) /\ \A i \in 1 .. Len(s) : a[i] = s[i]
      /\ b \in Seq(S) /\ Len(b) = Len(s) /\ \A i \in 1 .. Len(s) : b[i] = t[i]
  BY <1>2, FirstElements
<1> HIDE DEF a, b
<1>4. a = b <=> \A i \in 1 .. Len(s) : a[i] = b[i]
  BY <1>3, SameSequence, Zenon
<1> QED
  BY <1>3, <1>4 DEF a, b

\* Prefixes are a partial order, and those of one sequence a chain.
LEMMA PrefixOrder ==
    ASSUME NEW S, NEW s \in Seq(S), NEW t \in Seq(S), NEW u \in Seq(S)
    PROVE  /\ IsPrefix(s, s)
           /\ IsPrefix(s, t) /\ IsPrefix(t, u) => IsPrefix(s, u)
           /\ IsPrefix(s, t) /\ Len(t) <= Len(s) => s = t
           /\ IsPrefix(s, u) /\ IsPrefix(t, u) /\ Len(s) <= Len(t) => IsPrefix(s, t)
<1>1. Len(s) \in Nat /\ Len(t) \in Nat /\ Len(u) \in Nat
  BY LenProperties
<1>2. IsPrefix(s, s)
  BY <1>1, PrefixByPosition
<1>3. IsPrefix(s, t) /\ IsPrefix(t, u) => IsPrefix(s, u)
  BY <1>1, PrefixByPosition
<1>4. ASSUME IsPrefix(s, t), Len(t) <= Len(s) PROVE s = t
  <2>1. Len(s) = Len(t) /\ \A i \in 1 .. Len(s) : s[i] = t[i]
    BY <1>1, <1>4, PrefixByPosition
  <2> QED
    BY <2>1, SameSequence
<1>5. IsPrefix(s, u) /\ IsPrefix(t, u) /\ Len(s) <= Len(t) => IsPrefix(s, t)
  BY <1>1, PrefixByPosition
<1> QED
  BY <1>2, <1>3, <1>4, <1>5

LEMMA FirstIsPrefix ==
    ASSUME NEW S, NEW s \in Seq(S), NEW n \in 0 .. Len(s)
    PROVE  IsPrefix(SubSeq(s, 1, n), s)
<1> DEFINE h == SubSeq(s, 1, n)
<1>1. Len(s) \in Nat /\ n <= Len(s)
  BY LenProperties
<1>2. h \in Seq(S) /\ Len(h) = n /\ \A i \in 1 .. n : h[i] = s[i]
  BY FirstElements
<1> HIDE DEF h
<1>3. IsPrefix(h, s)
  BY <1>1, <1>2, PrefixByPosition
<1> QED
  BY <1>3 DEF h

\* Prefixes(s) is the set of them.
LEMMA PrefixesAre ==
    ASSUME NEW S, NEW s \in Seq(S)
    PROVE  \A h : h \in Prefixes(s) <=> h \in Seq(S) /\ IsPrefix(h, s)
<1>1. ASSUME NEW h \in Prefixes(s) PROVE h \in Seq(S) /\ IsPrefix(h, s)
  <2>1. PICK n \in 0 .. Len(s) : h = SubSeq(s, 1, n)
    BY DEF Prefixes
  <2> QED
    BY <2>1, FirstElements, FirstIsPrefix
<1>2. ASSUME NEW h \in Seq(S), IsPrefix(h, s) PROVE h \in Prefixes(s)
  <2>1. Len(h) \in 0 .. Len(s) /\ \A i \in 1 .. Len(h) : h[i] = s[i]
    BY <1>2, PrefixByPosition, LenProperties
  <2>2. h = SubSeq(s, 1, Len(h))
    BY <2>1, FirstElements, SameSequence
  <2> QED
    BY <2>1, <2>2 DEF Prefixes
<1> QED
  BY <1>1, <1>2

LEMMA FrontIsPrefix ==
    ASSUME NEW S, NEW s \in Seq(S), s # <<>>
    PROVE  /\ Front(s) \in Seq(S) /\ Len(Front(s)) = Len(s) - 1 /\ IsPrefix(Front(s), s)
           /\ Len(s) \in Nat \ {0}
           /\ \A i \in 1 .. Len(s) - 1 : Front(s)[i] = s[i]
<1>1. Len(s) \in Nat \ {0}
  BY LenProperties, EmptySeq
<1>2. Len(s) - 1 \in 0 .. Len(s)
  BY <1>1
<1> QED
  BY <1>1, <1>2, FirstElements, FirstIsPrefix DEF Front

\* Two sequences of which neither is a prefix of the other part after what they
\* have in common.
LEMMA Parting ==
    ASSUME NEW S, NEW s \in Seq(S), NEW t \in Seq(S), ~IsPrefix(s, t), ~IsPrefix(t, s)
    PROVE  \E n \in Nat : /\ n < Len(s) /\ n < Len(t) /\ s[n + 1] # t[n + 1]
                          /\ \A i \in 1 .. n : s[i] = t[i]
<1> DEFINE T == {i \in Nat : i \in 1 .. Len(s) /\ i \in 1 .. Len(t) /\ s[i] # t[i]}
<1>1. Len(s) \in Nat /\ Len(t) \in Nat
  BY LenProperties
<1>2. T # {}
  <2>1. CASE Len(s) <= Len(t)
    <3>1. PICK i \in 1 .. Len(s) : s[i] # t[i]
      BY <2>1, PrefixByPosition
    <3> QED
      BY <1>1, <2>1, <3>1
  <2>2. CASE Len(t) <= Len(s)
    <3>1. PICK i \in 1 .. Len(t) : s[i] # t[i]
      BY <2>2, PrefixByPosition
    <3> QED
      BY <1>1, <2>2, <3>1
  <2> QED
    BY <1>1, <2>1, <2>2
<1>3. T \in SUBSET Nat
  OBVIOUS
<1>4. PICK m \in T : \A i \in T : m <= i
  BY <1>2, <1>3, LeastElement
<1>5. m - 1 \in Nat /\ m - 1 < Len(s) /\ m - 1 < Len(t) /\ (m - 1) + 1 = m /\ s[m] # t[m]
  BY <1>1, <1>4
<1>6. \A i \in 1 .. m - 1 : s[i] = t[i]
  <2> SUFFICES ASSUME NEW i \in 1 .. m - 1, s[i] # t[i] PROVE FALSE
    OBVIOUS
  <2>1. i \in T
    BY <1>1, <1>5
  <2> QED
    BY <1>4, <1>5, <2>1
<1> QED
  BY <1>5, <1>6
=============================================================================
