------------------------------ MODULE LineLemmas ------------------------------
(***************************************************************************)
(* Facts about lines, the sequences in which each element occurs once, that *)
(* the proofs about channels share: the first place of an element, a line   *)
(* without it, a line with one more, and the line of a set in its order.    *)
(***************************************************************************)
EXTENDS Integers, Ordered, TLAPS, WellFoundedInduction, SequenceTheorems, FiniteSetTheorems

-----------------------------------------------------------------------------
\* The first of its kind.

LEMMA LeastExists ==
    ASSUME NEW I \in SUBSET Nat, I # {}
    PROVE  Min(I) \in I /\ \A i \in I : Min(I) <= i
<1> DEFINE R == OpToRel(<, Nat)
<1>1. IsWellFoundedOn(R, Nat)
  BY NatLessThanWellFounded
<1>2. \A x, y \in Nat : x < y => <<x, y>> \in R
  BY DEF OpToRel
<1> HIDE DEF R
<1>3. PICK x \in I : \A y \in I : <<y, x>> \notin R
  BY <1>1, WFMin
<1>4. ASSUME NEW y \in I  PROVE x <= y
  <2>1. x \in Nat /\ y \in Nat
    OBVIOUS
  <2>2. ~(y < x)
    BY <2>1, <1>2, <1>3
  <2> QED BY <2>1, <2>2
<1> QED BY <1>4 DEF Min

(* Where n is first, or 0.                                                    *)
First(s, n) == SelectInSeq(s, LAMBDA v : v = n)

LEMMA FirstIs ==
    ASSUME NEW S, NEW s \in Seq(S), NEW n
    PROVE  /\ First(s, n) \in 0 .. Len(s)
           /\ First(s, n) = 0 => \A i \in 1 .. Len(s) : s[i] # n
           /\ First(s, n) # 0 => s[First(s, n)] = n
           /\ \A i \in 1 .. Len(s) : s[i] = n => First(s, n) # 0 /\ First(s, n) <= i
<1> DEFINE I == {i \in 1 .. Len(s) : s[i] = n}
<1>1. First(s, n) = IF I # {} THEN Min(I) ELSE 0
  BY DEF First, SelectInSeq
<1>2. I \in SUBSET Nat
  OBVIOUS
<1>3. CASE I = {}
  BY <1>1, <1>3
<1>4. CASE I # {}
  <2>1. Min(I) \in I /\ \A i \in I : Min(I) <= i
    BY <1>2, <1>4, LeastExists
  <2>2. First(s, n) \in I /\ \A i \in I : First(s, n) <= i
    BY <1>1, <1>4, <2>1
  <2>3. First(s, n) \in 1 .. Len(s) /\ s[First(s, n)] = n
    BY <2>2
  <2> HIDE DEF I
  <2>4. \A i \in 1 .. Len(s) : s[i] = n => First(s, n) <= i
    BY <2>2 DEF I
  <2> QED BY <2>3, <2>4
<1> QED BY <1>3, <1>4

(* Removing the first n leaves a line that has n after its head a line with   *)
(* the same head.                                                             *)
LEMMA RemoveFirstIs ==
    ASSUME NEW S, NEW s \in Seq(S), NEW n
    PROVE  /\ RemoveFirst(s, n) \in Seq(S)
           /\ s # <<>> /\ Head(s) # n =>
                RemoveFirst(s, n) # <<>> /\ Head(RemoveFirst(s, n)) = Head(s)
<1>1. CASE ~ \E i \in 1 .. Len(s) : s[i] = n
  BY <1>1 DEF RemoveFirst
<1>2. CASE \E i \in 1 .. Len(s) : s[i] = n
  <2> DEFINE p == First(s, n)
             before == SubSeq(s, 1, p - 1)
             after == SubSeq(s, p + 1, Len(s))
  <2>1. p \in 1 .. Len(s) /\ s[p] = n
    BY <1>2, FirstIs
  <2>2. RemoveFirst(s, n) = before \o after
    BY <1>2 DEF RemoveFirst, RemoveAt, First
  <2> HIDE DEF p
  <2>3. before \in Seq(S) /\ after \in Seq(S) /\ Len(before) = p - 1
    BY <2>1, SubSeqProperties
  <2>4. before \o after \in Seq(S)
    BY <2>3, ConcatProperties
  <2>5. ASSUME s # <<>>, Head(s) # n
        PROVE  before \o after # <<>> /\ Head(before \o after) = Head(s)
    <3>1. Head(s) = s[1] /\ p # 1
      BY <2>1, <2>5
    <3>2. p - 1 >= 1 /\ before[1] = s[1]
      BY <2>1, <3>1, SubSeqProperties
    <3>3. Len(before \o after) >= 1 /\ (before \o after)[1] = before[1]
      BY <2>3, <3>2, ConcatProperties
    <3> HIDE DEF before, after
    <3>4. before \o after # <<>> /\ Head(before \o after) = (before \o after)[1]
      BY <2>4, <3>3
    <3> QED BY <3>1, <3>2, <3>3, <3>4
  <2> QED BY <2>2, <2>4, <2>5
<1> QED BY <1>1, <1>2

-----------------------------------------------------------------------------
\* Lines without repetition.

(* What erasing the first n of a line does, place by place.                   *)
LEMMA RemoveFirstPlaces ==
    ASSUME NEW S, NEW s \in Seq(S), NEW n, NEW k \in 1 .. Len(s), s[k] = n,
           IsInjective(s)
    PROVE  /\ RemoveFirst(s, n) \in Seq(S)
           /\ Len(RemoveFirst(s, n)) = Len(s) - 1
           /\ \A i \in 1 .. Len(s) - 1 :
                RemoveFirst(s, n)[i] = IF i < k THEN s[i] ELSE s[i + 1]
<1> DEFINE p == First(s, n)
           before == SubSeq(s, 1, p - 1)
           after == SubSeq(s, p + 1, Len(s))
<1>1. p \in 1 .. Len(s) /\ s[p] = n
  BY FirstIs
<1>2. RemoveFirst(s, n) = before \o after
  BY DEF RemoveFirst, RemoveAt, First
<1>3. p = k
  BY <1>1 DEF IsInjective
<1> HIDE DEF p
<1>4. /\ before \in Seq(S) /\ Len(before) = p - 1
      /\ \A i \in 1 .. p - 1 : before[i] = s[i]
  BY <1>1, SubSeqProperties
<1>5. /\ after \in Seq(S) /\ Len(after) = Len(s) - p
      /\ \A i \in 1 .. Len(s) - p : after[i] = s[p + i]
  BY <1>1, SubSeqProperties
<1> HIDE DEF before, after
<1>6. /\ before \o after \in Seq(S) /\ Len(before \o after) = Len(s) - 1
      /\ \A i \in 1 .. Len(s) - 1 :
            (before \o after)[i] = IF i <= p - 1 THEN before[i] ELSE after[i - (p - 1)]
  <2>1. Len(before) + Len(after) = Len(s) - 1
    BY <1>1, <1>4, <1>5
  <2>2. /\ before \o after \in Seq(S) /\ Len(before \o after) = Len(before) + Len(after)
        /\ \A i \in 1 .. Len(before) + Len(after) :
              (before \o after)[i] = IF i <= Len(before) THEN before[i] ELSE after[i - Len(before)]
    BY <1>4, <1>5, ConcatProperties
  <2> QED BY <1>4, <2>1, <2>2
<1>7. ASSUME NEW i \in 1 .. Len(s) - 1
      PROVE  (before \o after)[i] = IF i < k THEN s[i] ELSE s[i + 1]
  <2>1. CASE i < p
    BY <1>1, <1>3, <1>4, <1>6, <2>1
  <2>2. CASE i >= p
    <3>1. i - (p - 1) \in 1 .. Len(s) - p /\ p + (i - (p - 1)) = i + 1
      BY <1>1, <2>2
    <3> QED BY <1>1, <1>3, <1>5, <1>6, <2>2, <3>1
  <2>3. i < p \/ i >= p
    BY <1>1
  <2> QED BY <2>1, <2>2, <2>3
<1> QED BY <1>2, <1>6, <1>7

(* a is before b in the line.                                                 *)
Ahead(s, a, b) == \E i, j \in DOMAIN s : i < j /\ s[i] = a /\ s[j] = b

LEMMA RemoveFirstMembers ==
    ASSUME NEW S, NEW s \in Seq(S), NEW n, IsInjective(s)
    PROVE  /\ RemoveFirst(s, n) \in Seq(S)
           /\ IsInjective(RemoveFirst(s, n))
           /\ ToSet(RemoveFirst(s, n)) = ToSet(s) \ {n}
           /\ \A a, b : Ahead(s, a, b) /\ a # n /\ b # n => Ahead(RemoveFirst(s, n), a, b)
<1>1. CASE ~ \E i \in 1 .. Len(s) : s[i] = n
  BY <1>1 DEF RemoveFirst, ToSet
<1>2. CASE \E i \in 1 .. Len(s) : s[i] = n
  <2>1. PICK k \in 1 .. Len(s) : s[k] = n
    BY <1>2
  <2> DEFINE t == RemoveFirst(s, n)
  <2>2. /\ t \in Seq(S) /\ Len(t) = Len(s) - 1
        /\ \A i \in 1 .. Len(s) - 1 : t[i] = IF i < k THEN s[i] ELSE s[i + 1]
    BY <2>1, RemoveFirstPlaces
  <2> HIDE DEF t
  <2>3. DOMAIN t = 1 .. Len(s) - 1 /\ DOMAIN s = 1 .. Len(s) /\ Len(s) \in Nat
    BY <2>2
  <2> DEFINE At(i) == IF i < k THEN i ELSE i - 1
  <2>4. ASSUME NEW i \in 1 .. Len(s), i # k
        PROVE  At(i) \in 1 .. Len(s) - 1 /\ t[At(i)] = s[i]
    BY <2>1, <2>2, <2>4
  <2>5. ASSUME NEW i \in 1 .. Len(s), s[i] # n  PROVE i # k
    BY <2>1, <2>5
  <2>6. IsInjective(t)
    <3>1. SUFFICES ASSUME NEW i \in 1 .. Len(s) - 1, NEW j \in 1 .. Len(s) - 1, t[i] = t[j]
                   PROVE  i = j
      BY <2>3 DEF IsInjective
    <3> DEFINE From(x) == IF x < k THEN x ELSE x + 1
    <3>2. From(i) \in 1 .. Len(s) /\ From(j) \in 1 .. Len(s) /\ s[From(i)] = s[From(j)]
      BY <2>1, <2>2, <3>1
    <3>3. From(i) = From(j)
      BY <2>3, <3>2 DEF IsInjective
    <3> QED BY <2>1, <3>3
  <2>7. ToSet(t) \subseteq ToSet(s) \ {n}
    <3>1. SUFFICES ASSUME NEW i \in 1 .. Len(s) - 1  PROVE t[i] \in ToSet(s) \ {n}
      BY <2>3 DEF ToSet
    <3> DEFINE f == IF i < k THEN i ELSE i + 1
    <3>2. f \in 1 .. Len(s) /\ f # k /\ t[i] = s[f]
      BY <2>1, <2>2
    <3>3. s[f] # n
      BY <2>1, <2>3, <3>2 DEF IsInjective
    <3> QED BY <2>3, <3>2, <3>3 DEF ToSet
  <2>8. ToSet(s) \ {n} \subseteq ToSet(t)
    <3>1. SUFFICES ASSUME NEW i \in 1 .. Len(s), s[i] # n  PROVE s[i] \in ToSet(t)
      BY <2>3 DEF ToSet
    <3>2. At(i) \in DOMAIN t /\ t[At(i)] = s[i]
      BY <2>3, <2>4, <2>5, <3>1
    <3> QED BY <3>2 DEF ToSet
  <2>9. ASSUME NEW a, NEW b, Ahead(s, a, b), a # n, b # n  PROVE Ahead(t, a, b)
    <3>1. PICK i \in 1 .. Len(s), j \in 1 .. Len(s) : i < j /\ s[i] = a /\ s[j] = b
      BY <2>3, <2>9 DEF Ahead
    <3>2. i # k /\ j # k
      BY <2>5, <2>9, <3>1
    <3>3. At(i) \in DOMAIN t /\ At(j) \in DOMAIN t /\ t[At(i)] = a /\ t[At(j)] = b
      BY <2>3, <2>4, <3>1, <3>2
    <3>4. At(i) < At(j)
      BY <2>1, <3>1, <3>2
    <3> HIDE DEF At
    <3> QED BY <3>3, <3>4 DEF Ahead
  <2> QED BY <2>2, <2>6, <2>7, <2>8, <2>9 DEF t
<1> QED BY <1>1, <1>2

LEMMA AppendMembers ==
    ASSUME NEW S, NEW s \in Seq(S), NEW n \in S, IsInjective(s), n \notin ToSet(s)
    PROVE  /\ Append(s, n) \in Seq(S)
           /\ IsInjective(Append(s, n))
           /\ ToSet(Append(s, n)) = ToSet(s) \cup {n}
           /\ \A a, b : Ahead(s, a, b) => Ahead(Append(s, n), a, b)
<1> DEFINE t == Append(s, n)
<1>1. /\ t \in Seq(S) /\ Len(t) = Len(s) + 1
      /\ \A i \in 1 .. Len(s) : t[i] = s[i]
      /\ t[Len(s) + 1] = n
  BY AppendProperties
<1> HIDE DEF t
<1>2. DOMAIN t = 1 .. Len(s) + 1 /\ DOMAIN s = 1 .. Len(s) /\ Len(s) \in Nat
  BY <1>1
<1>3. \A i \in 1 .. Len(s) : s[i] # n
  BY <1>2 DEF ToSet
<1>4. IsInjective(t)
  BY <1>1, <1>2, <1>3 DEF IsInjective
<1>5. ToSet(t) = ToSet(s) \cup {n}
  <2>1. \A i \in DOMAIN t : t[i] \in ToSet(s) \cup {n}
    BY <1>1, <1>2 DEF ToSet
  <2>2. \A i \in DOMAIN s : i \in DOMAIN t /\ t[i] = s[i]
    BY <1>1, <1>2
  <2>3. Len(s) + 1 \in DOMAIN t /\ t[Len(s) + 1] = n
    BY <1>1, <1>2
  <2> QED BY <2>1, <2>2, <2>3 DEF ToSet
<1>6. \A a, b : Ahead(s, a, b) => Ahead(t, a, b)
  BY <1>1, <1>2 DEF Ahead
<1> QED BY <1>1, <1>4, <1>5, <1>6 DEF t

-----------------------------------------------------------------------------
\* A set in its order.

(* Any finite set of numbers can be listed in its order: each number has its  *)
(* place, the number of those that are not greater, and no place stays empty. *)
LEMMA AscendingIs ==
    ASSUME NEW S \in SUBSET Int, IsFiniteSet(S)
    PROVE  /\ Ascending(S) \in SetToSeqs(S)
           /\ \A i, j \in DOMAIN Ascending(S) : i < j => Ascending(S)[i] < Ascending(S)[j]
<1> DEFINE n == Cardinality(S)
           UpTo(d) == {e \in S : e <= d}
           place == [d \in S |-> Cardinality(UpTo(d))]
<1>1. n \in Nat
  BY FS_CardinalityType
<1>2. ASSUME NEW d \in S  PROVE place[d] \in 1 .. n
  <2>1. UpTo(d) \in SUBSET S /\ d \in UpTo(d)
    OBVIOUS
  <2> HIDE DEF UpTo
  <2>2. IsFiniteSet(UpTo(d)) /\ Cardinality(UpTo(d)) <= n
    BY <2>1, FS_Subset
  <2>3. Cardinality(UpTo(d)) \in Nat /\ Cardinality(UpTo(d)) # 0
    BY <2>1, <2>2, FS_CardinalityType, FS_EmptySet
  <2> QED BY <1>1, <2>2, <2>3
<1>3. ASSUME NEW d \in S, NEW e \in S, d < e  PROVE place[d] < place[e]
  <2>1. /\ UpTo(d) \in SUBSET UpTo(e) /\ UpTo(d) # UpTo(e) /\ UpTo(e) \in SUBSET S
    <3>1. d \in Int /\ e \in Int
      OBVIOUS
    <3>2. e \in UpTo(e) /\ e \notin UpTo(d)
      BY <1>3, <3>1
    <3>3. \A f \in S : f <= d => f <= e
      BY <1>3, <3>1
    <3> QED BY <3>2, <3>3
  <2> HIDE DEF UpTo
  <2>2. /\ IsFiniteSet(UpTo(e)) /\ Cardinality(UpTo(e)) \in Nat
        /\ IsFiniteSet(UpTo(d)) /\ Cardinality(UpTo(d)) \in Nat
    BY <2>1, FS_Subset, FS_CardinalityType
  <2>3. Cardinality(UpTo(d)) <= Cardinality(UpTo(e)) /\ Cardinality(UpTo(d)) # Cardinality(UpTo(e))
    BY <2>1, <2>2, FS_Subset
  <2> QED BY <2>2, <2>3
<1> HIDE DEF place
<1>4. place \in Injection(S, 1 .. n)
  <2>1. place \in [S -> 1 .. n]
    BY <1>2 DEF place
  <2>2. ASSUME NEW d \in S, NEW e \in S, place[d] = place[e]  PROVE d = e
    <3>1. ~(d < e) /\ ~(e < d)
      BY <1>1, <1>2, <1>3, <2>2
    <3> QED BY <3>1
  <2> QED BY <2>1, <2>2 DEF Injection, IsInjective
<1>5. place \in Surjection(S, 1 .. n)
  <2>1. IsFiniteSet(1 .. n) /\ Cardinality(1 .. n) = n
    BY <1>1, FS_Interval
  <2> QED BY <1>4, <2>1, FS_Injection
<1> DEFINE at == [i \in 1 .. n |-> CHOOSE d \in S : place[d] = i]
<1>6. ASSUME NEW i \in 1 .. n  PROVE at[i] \in S /\ place[at[i]] = i
  <2>1. \E d \in S : place[d] = i
    BY <1>5 DEF Surjection
  <2> QED BY <2>1
<1> HIDE DEF at
<1>7. DOMAIN at = 1 .. n /\ at \in [1 .. n -> S]
  BY <1>6 DEF at
<1>8. ASSUME NEW i \in 1 .. n, NEW j \in 1 .. n, i < j  PROVE at[i] < at[j]
  <2>1. at[i] \in S /\ at[j] \in S /\ place[at[i]] = i /\ place[at[j]] = j
    BY <1>6
  <2>2. at[j] < at[i] => place[at[j]] < place[at[i]]
    BY <1>3, <2>1
  <2>3. ~(at[j] < at[i]) /\ at[i] # at[j]
    BY <1>1, <1>8, <2>1, <2>2
  <2>4. at[i] \in Int /\ at[j] \in Int
    BY <2>1
  <2> QED BY <2>3, <2>4
<1>9. \A i, j \in 1 .. n : i # j => at[i] # at[j]
  BY <1>6
<1>10. at \in SetToSeqs(S)
  BY <1>7, <1>9 DEF SetToSeqs
<1> QED BY <1>7, <1>8, <1>10 DEF Ascending

=============================================================================
