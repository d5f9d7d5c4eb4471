---------------------------- MODULE DistinctLists ----------------------------
(***************************************************************************)
(* Facts about sequences without repetition: what the operations of        *)
(* std::vector do to the lists of idle threads.                            *)
(***************************************************************************)
EXTENDS Integers, Sequences, SequencesExt, FiniteSets, Functions,
        SequenceTheorems, FiniteSetTheorems, TLAPS

-----------------------------------------------------------------------------
(* push_back of an object that is not listed.                              *)
LEMMA AppendFresh ==
    ASSUME NEW S, NEW s \in Seq(S), NEW e \in S
    PROVE  /\ Append(s, e) \in Seq(S)
           /\ ToSet(Append(s, e)) = ToSet(s) \cup {e}
           /\ IsInjective(s) /\ e \notin ToSet(s) => IsInjective(Append(s, e))
<1>1. /\ Append(s, e) \in Seq(S)
      /\ DOMAIN s = 1..Len(s)
      /\ DOMAIN Append(s, e) = 1..(Len(s) + 1)
      /\ Len(s) \in Nat
  OBVIOUS
<1>2. \A i \in 1..(Len(s) + 1) :
          Append(s, e)[i] = IF i = Len(s) + 1 THEN e ELSE s[i]
  OBVIOUS
<1>3. ToSet(Append(s, e)) = ToSet(s) \cup {e}
  BY <1>1, <1>2 DEF ToSet
<1>4. ASSUME IsInjective(s), e \notin ToSet(s)
      PROVE  IsInjective(Append(s, e))
  BY <1>1, <1>2, <1>4 DEF IsInjective, ToSet
<1> QED BY <1>1, <1>3, <1>4

(* erase of the entries before position m.                                 *)
LEMMA SuffixOfDistinct ==
    ASSUME NEW S, NEW s \in Seq(S), IsInjective(s), NEW m \in 1..(Len(s) + 1)
    PROVE  /\ SubSeq(s, m, Len(s)) \in Seq(S)
           /\ IsInjective(SubSeq(s, m, Len(s)))
           /\ ToSet(SubSeq(s, m, Len(s))) = ToSet(s) \ {s[i] : i \in 1..(m - 1)}
<1> DEFINE t == SubSeq(s, m, Len(s))
<1>1. /\ DOMAIN s = 1..Len(s)
      /\ Len(s) \in Nat
      /\ \A i \in m..Len(s) : s[i] \in S
  BY LenProperties
<1>2. /\ t \in Seq(S)
      /\ Len(t) = Len(s) - m + 1
      /\ \A i \in 1..Len(t) : t[i] = s[m + i - 1]
  BY <1>1, SubSeqProperties
<1>3. DOMAIN t = 1..Len(t)
  BY <1>2, LenProperties
<1> HIDE DEF t
<1>4. IsInjective(t)
  <2>1. ASSUME NEW i \in 1..Len(t), NEW j \in 1..Len(t), t[i] = t[j]
        PROVE  i = j
    <3>1. /\ m + i - 1 \in 1..Len(s) /\ m + j - 1 \in 1..Len(s)
          /\ s[m + i - 1] = s[m + j - 1]
      BY <1>1, <1>2, <2>1
    <3>2. m + i - 1 = m + j - 1
      BY <1>1, <3>1 DEF IsInjective
    <3> QED BY <3>2, <1>1, <1>2
  <2> QED BY <2>1, <1>3 DEF IsInjective
<1>5. ToSet(t) = {s[j] : j \in m..Len(s)}
  <2>1. ASSUME NEW i \in 1..Len(t) PROVE t[i] \in {s[j] : j \in m..Len(s)}
    <3>1. m + i - 1 \in m..Len(s)
      BY <1>1, <1>2
    <3>2. t[i] = s[m + i - 1]
      BY <1>2
    <3> QED BY <3>1, <3>2
  <2>2. ASSUME NEW j \in m..Len(s) PROVE s[j] \in ToSet(t)
    <3>1. j - m + 1 \in 1..Len(t) /\ s[j] = t[j - m + 1]
      BY <1>1, <1>2
    <3> QED BY <3>1, <1>3 DEF ToSet
  <2> QED BY <2>1, <2>2, <1>3 DEF ToSet
<1>6. {s[j] : j \in m..Len(s)} = ToSet(s) \ {s[i] : i \in 1..(m - 1)}
  <2>1. ASSUME NEW j \in m..Len(s), NEW i \in 1..(m - 1) PROVE s[j] # s[i]
    BY <1>1 DEF IsInjective
  <2>2. ASSUME NEW j \in m..Len(s) PROVE s[j] \in ToSet(s)
    BY <1>1 DEF ToSet
  <2>3. ASSUME NEW k \in 1..Len(s) PROVE k \in m..Len(s) \/ k \in 1..(m - 1)
    BY <1>1
  <2> QED BY <2>1, <2>2, <2>3, <1>1 DEF ToSet
<1> QED BY <1>2, <1>4, <1>5, <1>6 DEF t

(* erase(find(begin, end, e)): exactly e leaves the list.                  *)
LEMMA RemoveFirstOfDistinct ==
    ASSUME NEW S, NEW s \in Seq(S), IsInjective(s), NEW e
    PROVE  /\ RemoveFirst(s, e) \in Seq(S)
           /\ IsInjective(RemoveFirst(s, e))
           /\ ToSet(RemoveFirst(s, e)) = ToSet(s) \ {e}
<1>1. DOMAIN s = 1..Len(s) /\ Len(s) \in Nat /\ \A i \in 1..Len(s) : s[i] \in S
  BY LenProperties
<1>2. CASE ~ \E i \in 1..Len(s) : s[i] = e
  BY <1>1, <1>2 DEF RemoveFirst, ToSet
<1>3. CASE \E i \in 1..Len(s) : s[i] = e
  <2>1. PICK k \in 1..Len(s) : s[k] = e
    BY <1>3
  <2>2. {i \in 1..Len(s) : s[i] = e} = {k}
    BY <1>1, <2>1 DEF IsInjective
  <2>3. SelectInSeq(s, LAMBDA v : v = e) = k
    BY <2>2, <2>1, <1>1 DEF SelectInSeq, Min
  <2> DEFINE a == SubSeq(s, 1, k - 1)
             b == SubSeq(s, k + 1, Len(s))
             t == a \o b
  <2>4. RemoveFirst(s, e) = t
    BY <1>3, <2>3 DEF RemoveFirst, RemoveAt
  <2>5. /\ a \in Seq(S) /\ Len(a) = k - 1
        /\ \A i \in 1..(k - 1) : a[i] = s[i]
    BY <1>1, <2>1, SubSeqProperties
  <2>6. /\ b \in Seq(S) /\ Len(b) = Len(s) - k
        /\ \A i \in 1..(Len(s) - k) : b[i] = s[k + i]
    <3>1. k + 1 \in Int /\ Len(s) \in Int /\ \A i \in (k + 1)..Len(s) : s[i] \in S
      BY <1>1, <2>1
    <3>2. /\ b \in Seq(S)
          /\ Len(b) = IF k + 1 <= Len(s) THEN Len(s) - (k + 1) + 1 ELSE 0
          /\ \A i \in 1..(Len(s) - (k + 1) + 1) : b[i] = s[k + 1 + i - 1]
      BY <3>1, SubSeqProperties
    <3> HIDE DEF a, b
    <3>3. Len(b) = Len(s) - k
      <4>1. (IF k + 1 <= Len(s) THEN Len(s) - (k + 1) + 1 ELSE 0) = Len(s) - k
        <5>1. Len(s) \in Nat /\ k \in Nat /\ k <= Len(s)
          BY <1>1, <2>1
        <5> QED BY <5>1
      <4> QED BY <3>2, <4>1
    <3>4. ASSUME NEW i \in 1..(Len(s) - k) PROVE b[i] = s[k + i]
      <4>1. i \in 1..(Len(s) - (k + 1) + 1) /\ k + 1 + i - 1 = k + i
        BY <1>1, <2>1
      <4> QED BY <3>2, <4>1
    <3> QED BY <3>2, <3>3, <3>4
  <2> HIDE DEF a, b
  <2>7. /\ t \in Seq(S) /\ Len(t) = Len(s) - 1
        /\ \A i \in 1..(Len(s) - 1) :
              t[i] = IF i <= k - 1 THEN a[i] ELSE b[i - (k - 1)]
    <3>1. Len(a) + Len(b) = Len(s) - 1
      BY <1>1, <2>1, <2>5, <2>6
    <3>2. /\ t \in Seq(S)
          /\ Len(t) = Len(a) + Len(b)
          /\ \A i \in 1..(Len(a) + Len(b)) :
                t[i] = IF i <= Len(a) THEN a[i] ELSE b[i - Len(a)]
      BY <2>5, <2>6, ConcatProperties
    <3> HIDE DEF t
    <3> QED BY <3>1, <3>2, <2>5
  <2> HIDE DEF t
  <2>8. DOMAIN t = 1..(Len(s) - 1)
    BY <2>7, LenProperties
  <2>9. \A i \in 1..(Len(s) - 1) : t[i] = IF i <= k - 1 THEN s[i] ELSE s[i + 1]
    <3>1. ASSUME NEW i \in 1..(Len(s) - 1), i <= k - 1 PROVE t[i] = s[i]
      BY <1>1, <2>1, <2>5, <2>7, <3>1
    <3>2. ASSUME NEW i \in 1..(Len(s) - 1), ~ (i <= k - 1) PROVE t[i] = s[i + 1]
      <4>1. i - (k - 1) \in 1..(Len(s) - k) /\ k + (i - (k - 1)) = i + 1
        BY <1>1, <2>1, <3>2
      <4> QED BY <4>1, <2>6, <2>7, <3>2
    <3> QED BY <3>1, <3>2
  <2>10. IsInjective(t)
    <3>1. ASSUME NEW i \in 1..(Len(s) - 1), NEW j \in 1..(Len(s) - 1), i < j
          PROVE  t[i] # t[j]
      <4>1. PICK p \in 1..Len(s), q \in 1..Len(s) : t[i] = s[p] /\ t[j] = s[q] /\ p < q
        <5>1. /\ t[i] = IF i <= k - 1 THEN s[i] ELSE s[i + 1]
              /\ t[j] = IF j <= k - 1 THEN s[j] ELSE s[j + 1]
          BY <2>9
        <5>2. i \in 1..Len(s) /\ i + 1 \in 1..Len(s) /\ j \in 1..Len(s) /\ j + 1 \in 1..Len(s)
          BY <1>1
        <5>3. /\ i < j /\ i < j + 1 /\ i + 1 < j + 1
              /\ j <= k - 1 => i <= k - 1
          BY <2>1, <3>1
        <5> QED BY <5>1, <5>2, <5>3
      <4> QED BY <1>1, <4>1 DEF IsInjective
    <3>2. ASSUME NEW i \in 1..(Len(s) - 1), NEW j \in 1..(Len(s) - 1), t[i] = t[j]
          PROVE  i = j
      <4>1. i < j \/ j < i \/ i = j
        OBVIOUS
      <4> QED BY <3>1, <3>2, <4>1
    <3> QED BY <2>8, <3>2 DEF IsInjective
  <2>11. ToSet(t) = ToSet(s) \ {e}
    <3>1. ASSUME NEW i \in 1..(Len(s) - 1) PROVE t[i] \in ToSet(s) \ {e}
      BY <1>1, <2>1, <2>9 DEF ToSet, IsInjective
    <3>2. ASSUME NEW j \in 1..Len(s), s[j] # e PROVE s[j] \in ToSet(t)
      <4>1. CASE j < k
        <5>1. j \in 1..(Len(s) - 1) /\ t[j] = s[j]
          BY <1>1, <2>1, <2>9, <4>1
        <5> QED BY <5>1, <2>8 DEF ToSet
      <4>2. CASE j > k
        <5>1. j - 1 \in 1..(Len(s) - 1) /\ t[j - 1] = s[j]
          BY <1>1, <2>1, <2>9, <4>2
        <5> QED BY <5>1, <2>8 DEF ToSet
      <4> QED BY <2>1, <3>2, <4>1, <4>2
    <3> QED BY <3>1, <3>2, <1>1, <2>8 DEF ToSet
  <2> QED BY <2>4, <2>7, <2>10, <2>11
<1> QED BY <1>2, <1>3

(* The list of all objects of a set, and how long any list is.             *)
LEMMA LengthOfDistinct ==
    ASSUME NEW S, IsFiniteSet(S), NEW s \in Seq(S), IsInjective(s)
    PROVE  Len(s) = Cardinality(ToSet(s)) /\ Len(s) \in Nat
<1>1. DOMAIN s = 1..Len(s) /\ Len(s) \in Nat /\ s \in [1..Len(s) -> S]
  OBVIOUS
<1>2. s \in Bijection(1..Len(s), ToSet(s))
  BY <1>1 DEF ToSet, IsInjective, Bijection, Injection, Surjection
<1>3. ExistsBijection(1..Len(s), ToSet(s))
  BY <1>2 DEF ExistsBijection
<1> QED BY <1>1, <1>3, FS_CountingElements, FS_CardinalityType, FS_Subset DEF ToSet
=============================================================================
