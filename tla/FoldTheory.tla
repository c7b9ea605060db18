----------------------------- MODULE FoldTheory -----------------------------
(***************************************************************************)
(* Induction over data, for the other modules of proofs.  A theorem of a   *)
(* library that takes an operator cannot be cited; but this module is      *)
(* instantiated with the operator that is folded, which gives its theorems *)
(* for that operator.                                                      *)
(***************************************************************************)
EXTENDS SequencesExt, FiniteSetTheorems, SequenceTheorems, TLAPS

CONSTANTS
    Op(_, _),   \* what a step of the fold does to the value so far
    Base        \* the value it starts from

Fold(seq) == FoldLeft(Op, Base, seq)

(***************************************************************************)
(* Induction on the natural numbers, as a fact about sets of them.         *)
(***************************************************************************)
\* "<" on the naturals, as a relation, is well founded.
LEMMA NatOrder ==
    \E R : IsWellFoundedOn(R, Nat) /\ \A m, n \in Nat : m < n => <<m, n>> \in R
<1>1. IsWellFoundedOn(OpToRel(<, Nat), Nat)
  BY NatLessThanWellFounded
<1>2. \A m, n \in Nat : m < n => <<m, n>> \in OpToRel(<, Nat)
  BY DEF OpToRel
<1>3. QED
  BY <1>1, <1>2, Zenon

\* Every non-empty set of naturals has a least element.
LEMMA Least ==
    ASSUME NEW T, T \subseteq Nat, T # {}
    PROVE  \E n \in T : \A m \in T : n <= m
<1>1. PICK R : IsWellFoundedOn(R, Nat) /\ \A m, n \in Nat : m < n => <<m, n>> \in R
  BY NatOrder
<1> IsWellFoundedOn(R, Nat)
  BY <1>1
<1>2. \E n \in T : \A m \in T : ~(<<m, n>> \in R)
  BY WFMin, Zenon
<1>3. \A m, n \in T : ~(m < n) => n <= m
  OBVIOUS
<1>4. QED
  BY <1>1, <1>2, <1>3, Zenon

\* A set that holds 0 and the successor of each of its elements is Nat.
LEMMA InductiveSet ==
    ASSUME NEW T, T \subseteq Nat, 0 \in T, \A n \in T : n + 1 \in T
    PROVE  T = Nat
<1> SUFFICES ASSUME Nat \ T # {} PROVE FALSE
  OBVIOUS
<1>1. PICK n \in Nat \ T : \A m \in Nat \ T : n <= m
  BY Least
<1>2. n - 1 \in Nat /\ n - 1 \notin Nat \ T
  BY <1>1
<1>3. QED
  BY <1>1, <1>2

\* A set that holds the empty sequence and, with a sequence, all that extend
\* it by an element, holds every sequence.
LEMMA InductiveSeqs ==
    ASSUME NEW S, NEW T, <<>> \in T,
           \A s \in Seq(S) : \A x \in S : s \in T => Append(s, x) \in T
    PROVE  Seq(S) \subseteq T
<1> DEFINE K == {k \in Nat : \A s \in Seq(S) : Len(s) = k => s \in T}
<1>1. 0 \in K
  BY EmptySeq
<1>2. ASSUME NEW k \in K PROVE k + 1 \in K
  <2> SUFFICES ASSUME NEW s \in Seq(S), Len(s) = k + 1 PROVE s \in T
    OBVIOUS
  <2>1. s # <<>>
    BY EmptySeq
  <2>2. PICK f \in Seq(S), x \in S : s = Append(f, x)
    BY <2>1, SequenceEmptyOrAppend
  <2>3. Len(f) = k
    BY <2>2, AppendProperties, LenProperties
  <2>4. QED
    BY <2>2, <2>3
<1>3. K = Nat
  <2> HIDE DEF K
  <2>1. K \subseteq Nat
    BY DEF K
  <2>2. QED
    BY <1>1, <1>2, <2>1, InductiveSet
<1>4. QED
  BY <1>3, LenProperties

LEMMA ConcatAppend ==
    ASSUME NEW S, NEW s \in Seq(S), NEW t \in Seq(S), NEW x \in S
    PROVE  s \o Append(t, x) = Append(s \o t, x)
<1>1. <<x>> \in Seq(S)
  OBVIOUS
<1>2. Append(t, x) = t \o <<x>> /\ Append(s \o t, x) = (s \o t) \o <<x>>
  BY AppendIsConcat, ConcatProperties
<1>3. QED
  BY <1>1, <1>2, ConcatAssociative

(***************************************************************************)
(* The function that FoldLeft is defined by exists.                        *)
(***************************************************************************)
\* c picks an element of a set: those of a fold are removed one by one.
Picks(c, D) == \A s \in SUBSET D : s # {} => c[s] \in s

\* Up to sets of k elements.
Partial(g, c, D, seq, k) ==
    g = [s \in SUBSET D |->
            IF s = {} \/ Cardinality(s) > k THEN Base
            ELSE Op(g[s \ {c[s]}], seq[c[s]])]

Total(g, c, D, seq) ==
    g = [s \in SUBSET D |->
            IF s = {} THEN Base ELSE Op(g[s \ {c[s]}], seq[c[s]])]

LEMMA Smaller ==
    ASSUME NEW D, IsFiniteSet(D), NEW s \in SUBSET D, NEW x \in s
    PROVE  /\ s \ {x} \in SUBSET D
           /\ Cardinality(s) \in Nat /\ Cardinality(s) > 0
           /\ Cardinality(s \ {x}) = Cardinality(s) - 1
<1>1. IsFiniteSet(s)
  BY FS_Subset
<1>2. Cardinality(s) \in Nat /\ Cardinality(s \ {x}) = Cardinality(s) - 1
  BY <1>1, FS_CardinalityType, FS_RemoveElement
<1>3. Cardinality(s \ {x}) \in Nat
  BY <1>1, FS_CardinalityType, FS_RemoveElement
<1>4. QED
  BY <1>2, <1>3

LEMMA PartialExists ==
    ASSUME NEW D, IsFiniteSet(D), NEW c, Picks(c, D), NEW seq
    PROVE  \A k \in Nat : \E g : Partial(g, c, D, seq, k)
<1> DEFINE T == {k \in Nat : \E g : Partial(g, c, D, seq, k)}
<1>1. 0 \in T
  <2> DEFINE g == [s \in SUBSET D |-> Base]
  <2>1. \A s \in SUBSET D : s # {} => Cardinality(s) > 0
    BY Smaller
  <2>2. Partial(g, c, D, seq, 0)
    BY <2>1, Zenon DEF Partial
  <2>3. QED
    BY <2>2
<1>2. ASSUME NEW k \in T PROVE k + 1 \in T
  <2>1. k \in Nat
    OBVIOUS
  <2>2. PICK g : Partial(g, c, D, seq, k)
    OBVIOUS
  <2> DEFINE h == [s \in SUBSET D |->
                     IF s = {} \/ Cardinality(s) > k + 1 THEN Base
                     ELSE Op(g[s \ {c[s]}], seq[c[s]])]
  <2>3. ASSUME NEW s \in SUBSET D, ~(s = {} \/ Cardinality(s) > k + 1)
        PROVE  g[s \ {c[s]}] = h[s \ {c[s]}]
    <3> DEFINE t == s \ {c[s]}
    <3>1. c[s] \in s
      BY <2>3 DEF Picks
    <3>2. t \in SUBSET D /\ Cardinality(s) \in Nat /\ Cardinality(t) = Cardinality(s) - 1
      BY <3>1, Smaller
    <3>3. ~(Cardinality(t) > k) /\ ~(Cardinality(t) > k + 1)
      BY <3>2, <2>1, <2>3
    <3> HIDE DEF t
    <3>4. g[t] = IF t = {} THEN Base ELSE Op(g[t \ {c[t]}], seq[c[t]])
      BY <2>2, <3>2, <3>3 DEF Partial
    <3>5. h[t] = IF t = {} THEN Base ELSE Op(g[t \ {c[t]}], seq[c[t]])
      BY <3>2, <3>3
    <3>6. QED
      BY <3>4, <3>5 DEF t
  <2> DEFINE H == [s \in SUBSET D |->
                     IF s = {} \/ Cardinality(s) > k + 1 THEN Base
                     ELSE Op(h[s \ {c[s]}], seq[c[s]])]
  <2>4. \A s \in SUBSET D : H[s] = h[s]
    <3> HIDE DEF h
    <3> SUFFICES ASSUME NEW s \in SUBSET D PROVE H[s] = h[s]
      OBVIOUS
    <3>1. CASE s = {} \/ Cardinality(s) > k + 1
      BY <3>1 DEF h
    <3>2. CASE ~(s = {} \/ Cardinality(s) > k + 1)
      <4>1. h[s] = Op(g[s \ {c[s]}], seq[c[s]])
        BY <3>2 DEF h
      <4>2. H[s] = Op(h[s \ {c[s]}], seq[c[s]])
        BY <3>2
      <4>3. QED
        BY <4>1, <4>2, <2>3, <3>2
    <3>3. QED
      BY <3>1, <3>2
  <2>5. h = H
    BY <2>4, Zenon
  <2>6. Partial(h, c, D, seq, k + 1)
    BY <2>5, Zenon DEF Partial
  <2>7. QED
    BY <2>1, <2>6
<1>3. T = Nat
  <2> HIDE DEF T
  <2>1. T \subseteq Nat
    BY DEF T
  <2>2. QED
    BY <1>1, <1>2, <2>1, InductiveSet
<1>4. QED
  BY <1>3

LEMMA TotalExists ==
    ASSUME NEW D, IsFiniteSet(D), NEW c, Picks(c, D), NEW seq
    PROVE  \E g : Total(g, c, D, seq)
<1>1. Cardinality(D) \in Nat
  BY FS_CardinalityType
<1>2. PICK g : Partial(g, c, D, seq, Cardinality(D))
  BY <1>1, PartialExists
<1>3. ASSUME NEW s \in SUBSET D
      PROVE  ~(Cardinality(s) > Cardinality(D))
  <2>1. Cardinality(s) \in Nat /\ Cardinality(s) <= Cardinality(D)
    BY FS_Subset, FS_CardinalityType
  <2>2. QED
    BY <2>1, <1>1
<1>4. Total(g, c, D, seq)
  <2> DEFINE H == [s \in SUBSET D |->
            IF s = {} THEN Base ELSE Op(g[s \ {c[s]}], seq[c[s]])]
             G == [s \in SUBSET D |->
            IF s = {} \/ Cardinality(s) > Cardinality(D) THEN Base
            ELSE Op(g[s \ {c[s]}], seq[c[s]])]
  <2>1. g = G
    BY <1>2, Zenon DEF Partial
  <2>2. G = H
    BY <1>3, Zenon
  <2>3. QED
    BY <2>1, <2>2, Zenon DEF Total
<1>5. QED
  BY <1>4

\* Two such functions, over sequences that begin alike, agree on subsets of
\* the common domain.
LEMMA TotalAgree ==
    ASSUME NEW D, NEW E, IsFiniteSet(E), D \subseteq E,
           NEW c, Picks(c, D), NEW d, Picks(d, E),
           \A s \in SUBSET D : s # {} => c[s] = d[s],
           NEW p, NEW q, \A i \in D : p[i] = q[i],
           NEW g, Total(g, c, D, p), NEW h, Total(h, d, E, q)
    PROVE  \A s \in SUBSET D : g[s] = h[s]
<1> DEFINE T == {k \in Nat : \A s \in SUBSET D : Cardinality(s) = k => g[s] = h[s]}
<1>1. IsFiniteSet(D)
  BY FS_Subset
<1>2. 0 \in T
  <2>1. SUFFICES ASSUME NEW s \in SUBSET D, Cardinality(s) = 0 PROVE g[s] = h[s]
    OBVIOUS
  <2>2. s = {}
    BY <1>1, <2>1, FS_Subset, FS_EmptySet
  <2>3. QED
    BY <2>2 DEF Total
<1>3. ASSUME NEW k \in T PROVE k + 1 \in T
  <2>1. k \in Nat
    OBVIOUS
  <2>2. SUFFICES ASSUME NEW s \in SUBSET D, Cardinality(s) = k + 1 PROVE g[s] = h[s]
    BY <2>1
  <2>3. s # {}
    BY <2>1, <2>2, FS_EmptySet
  <2>4. c[s] \in s /\ c[s] = d[s] /\ p[c[s]] = q[c[s]]
    BY <2>3 DEF Picks
  <2> DEFINE t == s \ {c[s]}
  <2>5. t \in SUBSET D /\ Cardinality(t) = k
    BY <1>1, <2>1, <2>2, <2>4, Smaller
  <2>6. g[t] = h[t]
    BY <2>5
  <2>7. g[s] = Op(g[t], p[c[s]])
    BY <2>3, Zenon DEF Total
  <2>8. h[s] = Op(h[s \ {d[s]}], q[d[s]])
    <3>1. s \in SUBSET E
      OBVIOUS
    <3>2. QED
      BY <2>3, <3>1, Zenon DEF Total
  <2>9. QED
    BY <2>4, <2>6, <2>7, <2>8
<1>4. T = Nat
  <2> HIDE DEF T
  <2>1. T \subseteq Nat
    BY DEF T
  <2>2. QED
    BY <1>2, <1>3, <2>1, InductiveSet
<1>5. QED
  <2> SUFFICES ASSUME NEW s \in SUBSET D PROVE g[s] = h[s]
    OBVIOUS
  <2>1. Cardinality(s) \in Nat
    BY <1>1, FS_Subset, FS_CardinalityType
  <2>2. QED
    BY <1>4, <2>1

\* FoldLeft picks the greatest index.
LEMMA GreatestOf ==
    ASSUME NEW n \in Nat, NEW s \in SUBSET (1..n), s # {}
    PROVE  Max(s) \in s /\ \A i \in s : i <= Max(s)
<1> DEFINE T == {k \in Nat : k <= n /\ n - k \in s}
<1>1. \A i \in s : i \in Int /\ n - i \in T
  OBVIOUS
<1>2. T \subseteq Nat /\ T # {}
  BY <1>1
<1> HIDE DEF T
<1>3. PICK k \in T : \A m \in T : k <= m
  BY <1>2, Least
<1>4. k \in Nat /\ n - k \in s
  BY <1>3 DEF T
<1>5. \A i \in s : n - k >= i
  BY <1>1, <1>3, <1>4
<1>6. QED
  BY <1>4, <1>5 DEF Max

Greatest(D) == [s \in SUBSET D |-> Max(s)]
Folding(seq) == CHOOSE g : Total(g, Greatest(DOMAIN seq), DOMAIN seq, seq)

LEMMA FoldingIs ==
    ASSUME NEW S, NEW seq \in Seq(S)
    PROVE  /\ DOMAIN seq = 1..Len(seq) /\ IsFiniteSet(DOMAIN seq)
           /\ Picks(Greatest(DOMAIN seq), DOMAIN seq)
           /\ Total(Folding(seq), Greatest(DOMAIN seq), DOMAIN seq, seq)
           /\ Fold(seq) = Folding(seq)[DOMAIN seq]
<1>1. DOMAIN seq = 1..Len(seq) /\ Len(seq) \in Nat /\ IsFiniteSet(1..Len(seq))
  BY FS_Interval
<1>2. Picks(Greatest(DOMAIN seq), DOMAIN seq)
  BY <1>1, GreatestOf DEF Picks, Greatest
<1>3. Total(Folding(seq), Greatest(DOMAIN seq), DOMAIN seq, seq)
  BY <1>1, <1>2, TotalExists, Zenon DEF Folding
<1>4. Fold(seq) = Folding(seq)[DOMAIN seq]
  <2> DEFINE F == [s \in SUBSET DOMAIN seq |-> Max(s)]
  <2>1. ASSUME NEW g
        PROVE  (g = [s \in SUBSET DOMAIN seq |->
                       IF s = {} THEN Base ELSE Op(g[s \ {Max(s)}], seq[Max(s)])])
               <=> Total(g, Greatest(DOMAIN seq), DOMAIN seq, seq)
    BY DEF Total, Greatest
  <2>2. QED
    BY <2>1, Zenon DEF Fold, FoldLeft, MapThenFoldSet, Folding
<1>5. QED
  BY <1>1, <1>2, <1>3, <1>4

\* Over the empty sequence a fold is its base.
THEOREM FoldEmpty == Fold(<<>>) = Base
<1>1. <<>> \in Seq({})
  OBVIOUS
<1>2. DOMAIN <<>> = {}
  OBVIOUS
<1>3. Total(Folding(<<>>), Greatest({}), {}, <<>>) /\ Fold(<<>>) = Folding(<<>>)[{}]
  BY <1>1, <1>2, FoldingIs
<1>4. QED
  BY <1>3, Zenon DEF Total

\* The last element is folded in last.
LEMMA FoldAppend ==
    ASSUME NEW S, NEW seq \in Seq(S), NEW x \in S
    PROVE  Fold(Append(seq, x)) = Op(Fold(seq), x)
<1> DEFINE n == Len(seq)
           longer == Append(seq, x)
           D == 1..n
           E == 1..(n + 1)
<1>1. /\ n \in Nat /\ longer \in Seq(S) /\ DOMAIN longer = E /\ DOMAIN seq = D
      /\ longer[n + 1] = x /\ \A i \in D : longer[i] = seq[i]
  <2>1. n \in Nat /\ DOMAIN seq = D
    BY LenProperties
  <2>2. longer \in Seq(S) /\ DOMAIN longer = E /\ longer[n + 1] = x
    BY AppendProperties, LenProperties
  <2>3. \A i \in D : longer[i] = seq[i]
    BY AppendProperties
  <2>4. QED
    BY <2>1, <2>2, <2>3
<1>2. D \subseteq E /\ E # {} /\ n + 1 \in E /\ E \ {n + 1} = D /\ \A i \in E : i \in Int /\ i <= n + 1
  <2>1. n \in Nat
    BY <1>1
  <2> HIDE DEF n
  <2>2. D \subseteq E /\ n + 1 \in E /\ \A i \in E : i \in Int /\ i <= n + 1
    BY <2>1
  <2>3. \A i \in E \ {n + 1} : i \in D
    BY <2>1
  <2>4. n + 1 \notin D
    BY <2>1
  <2> HIDE DEF D, E
  <2>5. QED
    BY <2>2, <2>3, <2>4
<1> HIDE DEF longer
<1>3. /\ Picks(Greatest(D), D) /\ Total(Folding(seq), Greatest(D), D, seq)
      /\ Fold(seq) = Folding(seq)[D]
  BY <1>1, FoldingIs
<1>4. /\ IsFiniteSet(E) /\ Picks(Greatest(E), E)
      /\ Total(Folding(longer), Greatest(E), E, longer)
      /\ Fold(longer) = Folding(longer)[E]
  BY <1>1, FoldingIs
<1>5. Greatest(E)[E] = n + 1
  <2>1. Greatest(E)[E] = Max(E)
    BY DEF Greatest
  <2>2. n + 1 \in Nat /\ E \in SUBSET (1..(n + 1)) /\ E # {}
    BY <1>1, <1>2
  <2> HIDE DEF E
  <2>3. Max(E) \in E /\ \A i \in E : i <= Max(E)
    BY <2>2, GreatestOf
  <2>4. QED
    BY <1>1, <1>2, <2>1, <2>3
<1> HIDE DEF D, E, n
<1>6. Folding(longer)[E] = Op(Folding(longer)[D], x)
  <2>1. E \in SUBSET E
    OBVIOUS
  <2>2. Folding(longer)[E] =
          Op(Folding(longer)[E \ {Greatest(E)[E]}], longer[Greatest(E)[E]])
    BY <1>2, <1>4, <2>1, Zenon DEF Total
  <2>3. QED
    BY <1>1, <1>2, <1>5, <2>2
<1>7. Folding(longer)[D] = Folding(seq)[D]
  <2>1. \A s \in SUBSET D : s # {} => Greatest(D)[s] = Greatest(E)[s]
    BY <1>2 DEF Greatest
  <2>2. \A i \in D : seq[i] = longer[i]
    BY <1>1
  <2>3. \A s \in SUBSET D : Folding(seq)[s] = Folding(longer)[s]
    <3>1. IsFiniteSet(E) /\ D \subseteq E
      BY <1>2, <1>4
    <3>2. Picks(Greatest(D), D) /\ Total(Folding(seq), Greatest(D), D, seq)
      BY <1>3
    <3>3. Picks(Greatest(E), E) /\ Total(Folding(longer), Greatest(E), E, longer)
      BY <1>4
    <3> DEFINE c == Greatest(D)
               d == Greatest(E)
               g == Folding(seq)
               h == Folding(longer)
    <3> HIDE DEF c, d, g, h
    <3>4. \A s \in SUBSET D : g[s] = h[s]
      <4>1. Picks(c, D) /\ Total(g, c, D, seq) /\ Picks(d, E) /\ Total(h, d, E, longer)
        BY <3>2, <3>3 DEF c, d, g, h
      <4>2. \A s \in SUBSET D : s # {} => c[s] = d[s]
        BY <2>1 DEF c, d
      <4>3. QED
        BY <2>2, <3>1, <4>1, <4>2, TotalAgree
    <3>5. QED
      BY <3>4 DEF g, h
  <2>4. QED
    BY <2>3
<1>8. QED
  BY <1>3, <1>4, <1>6, <1>7 DEF longer

-----------------------------------------------------------------------------
(***************************************************************************)
(* FlattenSeq, which is defined by a function on 1..Len(seqs).             *)
(***************************************************************************)
Flattens(g, n, seqs) ==
    g = [i \in 1..n |-> IF i = 1 THEN seqs[i] ELSE g[i - 1] \o seqs[i]]

LEMMA FlattenExists == \A n \in Nat : \A seqs : \E g : Flattens(g, n, seqs)
<1> SUFFICES ASSUME NEW n \in Nat, NEW seqs PROVE \E g : Flattens(g, n, seqs)
  OBVIOUS
<1> DEFINE Upto(g, k) ==
             g = [i \in 1..n |-> IF i = 1 \/ i > k THEN seqs[i] ELSE g[i - 1] \o seqs[i]]
           T == {k \in Nat : \E g : Upto(g, k)}
<1>1. 0 \in T
  <2>1. \A i \in 1..n : i = 1 \/ i > 0
    OBVIOUS
  <2>2. Upto([i \in 1..n |-> seqs[i]], 0)
    BY <2>1, Zenon
  <2>3. QED
    BY <2>2
<1>2. ASSUME NEW k \in T PROVE k + 1 \in T
  <2>1. k \in Nat
    OBVIOUS
  <2>2. PICK g : Upto(g, k)
    OBVIOUS
  <2> DEFINE h == [i \in 1..n |->
                     IF i = 1 \/ i > k + 1 THEN seqs[i] ELSE g[i - 1] \o seqs[i]]
  <2>3. ASSUME NEW i \in 1..n, ~(i = 1 \/ i > k + 1) PROVE g[i - 1] = h[i - 1]
    <3> DEFINE j == i - 1
    <3>1. j \in 1..n /\ ~(j > k) /\ ~(j > k + 1)
      BY <2>1, <2>3
    <3> HIDE DEF j
    <3>2. g[j] = IF j = 1 THEN seqs[j] ELSE g[j - 1] \o seqs[j]
      BY <2>2, <3>1
    <3>3. h[j] = IF j = 1 THEN seqs[j] ELSE g[j - 1] \o seqs[j]
      BY <3>1
    <3>4. QED
      BY <3>2, <3>3 DEF j
  <2> DEFINE H == [i \in 1..n |->
                     IF i = 1 \/ i > k + 1 THEN seqs[i] ELSE h[i - 1] \o seqs[i]]
  <2>4. \A i \in 1..n : H[i] = h[i]
    <3> HIDE DEF h
    <3> SUFFICES ASSUME NEW i \in 1..n PROVE H[i] = h[i]
      OBVIOUS
    <3>1. CASE i = 1 \/ i > k + 1
      BY <3>1 DEF h
    <3>2. CASE ~(i = 1 \/ i > k + 1)
      <4>1. h[i] = g[i - 1] \o seqs[i]
        BY <3>2 DEF h
      <4>2. H[i] = h[i - 1] \o seqs[i]
        BY <3>2
      <4>3. QED
        BY <4>1, <4>2, <2>3, <3>2
    <3>3. QED
      BY <3>1, <3>2
  <2>5. h = H
    BY <2>4, Zenon
  <2>6. Upto(h, k + 1)
    BY <2>5, Zenon
  <2>7. k + 1 \in Nat
    BY <2>1
  <2>8. QED
    BY <2>6, <2>7
<1>3. n \in T
  <2> HIDE DEF T
  <2>1. T \subseteq Nat
    BY DEF T
  <2>2. QED
    BY <1>1, <1>2, <2>1, InductiveSet
<1>4. PICK g : Upto(g, n)
  BY <1>3
<1>5. \A i \in 1..n : ~(i > n)
  OBVIOUS
<1>6. Flattens(g, n, seqs)
  BY <1>4, <1>5, Zenon DEF Flattens
<1>7. QED
  BY <1>6

Flattening(seqs) == CHOOSE g : Flattens(g, Len(seqs), seqs)

LEMMA FlattenIs ==
    ASSUME NEW S, NEW seqs \in Seq(S)
    PROVE  /\ Flattens(Flattening(seqs), Len(seqs), seqs)
           /\ Len(seqs) > 0 => FlattenSeq(seqs) = Flattening(seqs)[Len(seqs)]
           /\ Len(seqs) = 0 => FlattenSeq(seqs) = <<>>
<1>1. Len(seqs) \in Nat
  OBVIOUS
<1>2. Flattens(Flattening(seqs), Len(seqs), seqs)
  BY <1>1, FlattenExists, Zenon DEF Flattening
<1>3. Len(seqs) > 0 => Len(seqs) # 0
  BY <1>1
<1>4. Len(seqs) # 0 => FlattenSeq(seqs) = Flattening(seqs)[Len(seqs)]
  BY Zenon DEF FlattenSeq, Flattening, Flattens
<1>5. Len(seqs) = 0 => FlattenSeq(seqs) = <<>>
  BY EmptySeq DEF FlattenSeq
<1>6. QED
  BY <1>2, <1>3, <1>4, <1>5

THEOREM FlattenEmpty == FlattenSeq(<<>>) = <<>>
BY FlattenIs, EmptySeq

\* Functions that flatten sequences of a common beginning agree on it.
LEMMA FlattensAgree ==
    \A p, q, g, h, n, m :
        /\ n \in Nat /\ m \in Nat /\ n <= m
        /\ Flattens(g, n, p) /\ Flattens(h, m, q) /\ \A i \in 1..n : p[i] = q[i]
        => \A i \in 1..n : g[i] = h[i]
<1> SUFFICES ASSUME NEW p, NEW q, NEW g, NEW h, NEW n \in Nat, NEW m \in Nat, n <= m,
                    Flattens(g, n, p), Flattens(h, m, q), \A i \in 1..n : p[i] = q[i]
             PROVE  \A i \in 1..n : g[i] = h[i]
  OBVIOUS
<1> DEFINE T == {k \in Nat : k \in 1..n => g[k] = h[k]}
<1>1. 0 \in T
  OBVIOUS
<1>2. ASSUME NEW k \in T PROVE k + 1 \in T
  <2> DEFINE j == k + 1
  <2> SUFFICES ASSUME j \in 1..n PROVE g[j] = h[j]
    OBVIOUS
  <2>1. k \in Nat /\ j \in 1..m /\ j - 1 = k
    OBVIOUS
  <2>2. j = 1 \/ k \in 1..n
    BY <2>1
  <2>3. k \in 1..n => g[k] = h[k]
    OBVIOUS
  <2> HIDE DEF j
  <2>4. g[j] = IF j = 1 THEN p[j] ELSE g[k] \o p[j]
    BY <2>1 DEF Flattens
  <2>5. h[j] = IF j = 1 THEN q[j] ELSE h[k] \o q[j]
    BY <2>1 DEF Flattens
  <2>6. QED
    BY <2>2, <2>3, <2>4, <2>5
<1>3. T = Nat
  <2> HIDE DEF T
  <2>1. T \subseteq Nat
    BY DEF T
  <2>2. QED
    BY <1>1, <1>2, <2>1, InductiveSet
<1>4. QED
  BY <1>3

\* Flattening goes on with the last sequence.
THEOREM FlattenAppend ==
    ASSUME NEW T, NEW seqs \in Seq(Seq(T)), NEW s \in Seq(T)
    PROVE  FlattenSeq(Append(seqs, s)) = FlattenSeq(seqs) \o s
<1> DEFINE n == Len(seqs)
           longer == Append(seqs, s)
           g == Flattening(seqs)
           h == Flattening(longer)
<1>1. /\ n \in Nat /\ longer \in Seq(Seq(T)) /\ Len(longer) = n + 1
      /\ longer[n + 1] = s /\ \A i \in 1..n : longer[i] = seqs[i]
  BY AppendProperties, LenProperties
<1> HIDE DEF longer
<1>2. /\ Flattens(g, n, seqs)
      /\ n > 0 => FlattenSeq(seqs) = g[n]
      /\ n = 0 => FlattenSeq(seqs) = <<>>
  BY FlattenIs
<1>3. Flattens(h, n + 1, longer) /\ FlattenSeq(longer) = h[n + 1]
  BY <1>1, FlattenIs
<1> HIDE DEF g, h, n
<1>4. h[n + 1] = IF n + 1 = 1 THEN longer[n + 1] ELSE h[n] \o longer[n + 1]
  <2>1. n + 1 \in 1..(n + 1) /\ (n + 1) - 1 = n
    BY <1>1
  <2>2. \A i \in 1..(n + 1) : h[i] = IF i = 1 THEN longer[i] ELSE h[i - 1] \o longer[i]
    BY <1>3, Zenon DEF Flattens
  <2>3. QED
    BY <2>1, <2>2
<1>5. CASE n = 0
  BY <1>1, <1>2, <1>3, <1>4, <1>5 DEF longer
<1>6. CASE n > 0
  <2>1. h[n] = g[n]
    <3>1. n <= n + 1 /\ n \in 1..n /\ n + 1 \in Nat
      BY <1>1, <1>6
    <3>2. \A i \in 1..n : g[i] = h[i]
      <4>1. \A i \in 1..n : seqs[i] = longer[i]
        BY <1>1
      <4>2. QED
        <5> DEFINE m == n + 1
        <5>1. /\ n \in Nat /\ m \in Nat /\ n <= m
              /\ Flattens(g, n, seqs) /\ Flattens(h, m, longer)
          BY <1>1, <1>2, <1>3, <3>1
        <5> HIDE DEF m
        <5>2. QED
          BY <4>1, <5>1, FlattensAgree
    <3>3. QED
      BY <3>1, <3>2
  <2>2. FlattenSeq(longer) = g[n] \o s
    BY <1>1, <1>3, <1>4, <1>6, <2>1
  <2>3. QED
    BY <1>2, <1>6, <2>2 DEF longer
<1>7. QED
  BY <1>1, <1>5, <1>6

THEOREM FlattenType ==
    ASSUME NEW T PROVE \A seqs \in Seq(Seq(T)) : FlattenSeq(seqs) \in Seq(T)
<1> DEFINE K == {seqs \in Seq(Seq(T)) : FlattenSeq(seqs) \in Seq(T)}
<1>1. <<>> \in K
  BY FlattenEmpty, EmptySeq
<1>2. ASSUME NEW f \in Seq(Seq(T)), NEW s \in Seq(T), f \in K PROVE Append(f, s) \in K
  <2>1. FlattenSeq(f) \in Seq(T) /\ Append(f, s) \in Seq(Seq(T))
    BY <1>2, AppendProperties
  <2>2. FlattenSeq(Append(f, s)) = FlattenSeq(f) \o s
    BY FlattenAppend
  <2>3. QED
    BY <2>1, <2>2, ConcatProperties
<1>3. Seq(Seq(T)) \subseteq K
  <2> HIDE DEF K
  <2>1. QED
    BY <1>1, <1>2, InductiveSeqs
<1>4. QED
  BY <1>3

\* The flattening of a concatenation is that of its parts.
THEOREM FlattenConcat ==
    ASSUME NEW T, NEW s \in Seq(Seq(T))
    PROVE  \A t \in Seq(Seq(T)) : FlattenSeq(s \o t) = FlattenSeq(s) \o FlattenSeq(t)
<1> DEFINE K == {t \in Seq(Seq(T)) : FlattenSeq(s \o t) = FlattenSeq(s) \o FlattenSeq(t)}
<1>1. <<>> \in K
  BY FlattenEmpty, FlattenType, EmptySeq, ConcatEmptySeq
<1>2. ASSUME NEW t \in Seq(Seq(T)), NEW x \in Seq(T), t \in K PROVE Append(t, x) \in K
  <2>1. /\ FlattenSeq(s) \in Seq(T) /\ FlattenSeq(t) \in Seq(T)
        /\ s \o t \in Seq(Seq(T)) /\ Append(t, x) \in Seq(Seq(T))
        /\ FlattenSeq(s \o t) = FlattenSeq(s) \o FlattenSeq(t)
    BY <1>2, FlattenType, ConcatProperties, AppendProperties
  <2>2. FlattenSeq(s \o Append(t, x)) = FlattenSeq(s \o t) \o x
    <3> DEFINE st == s \o t
    <3>1. st \in Seq(Seq(T)) /\ s \o Append(t, x) = Append(st, x)
      BY <2>1, ConcatAppend
    <3> HIDE DEF st
    <3>2. FlattenSeq(Append(st, x)) = FlattenSeq(st) \o x
      BY <3>1, FlattenAppend
    <3>3. QED
      BY <3>1, <3>2 DEF st
  <2>3. FlattenSeq(Append(t, x)) = FlattenSeq(t) \o x
    BY FlattenAppend
  <2> DEFINE fs == FlattenSeq(s)
             ft == FlattenSeq(t)
  <2>4. (fs \o ft) \o x = fs \o (ft \o x)
    BY <2>1, ConcatAssociative
  <2>5. QED
    BY <2>1, <2>2, <2>3, <2>4
<1>3. Seq(Seq(T)) \subseteq K
  <2> HIDE DEF K
  <2>1. QED
    BY <1>1, <1>2, InductiveSeqs
<1>4. QED
  BY <1>3

(***************************************************************************)
(* Flattening what is mostly empty, or singletons.                         *)
(***************************************************************************)
LEMMA FlattenNone ==
    ASSUME NEW T
    PROVE  \A seqs \in Seq(Seq(T)) :
             (\A j \in 1..Len(seqs) : seqs[j] = <<>>) => FlattenSeq(seqs) = <<>>
<1> DEFINE K == {seqs \in Seq(Seq(T)) :
             (\A j \in 1..Len(seqs) : seqs[j] = <<>>) => FlattenSeq(seqs) = <<>>}
<1>1. <<>> \in K
  BY FlattenEmpty, EmptySeq
<1>2. ASSUME NEW f \in Seq(Seq(T)), NEW s \in Seq(T), f \in K PROVE Append(f, s) \in K
  <2>1. /\ Append(f, s) \in Seq(Seq(T)) /\ Len(f) \in Nat /\ Len(Append(f, s)) = Len(f) + 1
        /\ Append(f, s)[Len(f) + 1] = s /\ \A i \in 1..Len(f) : Append(f, s)[i] = f[i]
    BY AppendProperties, LenProperties
  <2>2. SUFFICES ASSUME \A j \in 1..Len(Append(f, s)) : Append(f, s)[j] = <<>>
                 PROVE  FlattenSeq(Append(f, s)) = <<>>
    BY <2>1
  <2>3. s = <<>> /\ \A j \in 1..Len(f) : f[j] = <<>>
    BY <2>1, <2>2
  <2>4. FlattenSeq(Append(f, s)) = FlattenSeq(f) \o s
    BY FlattenAppend
  <2>5. QED
    BY <1>2, <2>3, <2>4
<1>3. Seq(Seq(T)) \subseteq K
  <2> HIDE DEF K
  <2>1. QED
    BY <1>1, <1>2, InductiveSeqs
<1>4. QED
  BY <1>3

LEMMA FlattenOne ==
    ASSUME NEW T
    PROVE  \A seqs \in Seq(Seq(T)) : \A i \in 1..Len(seqs) :
             (\A j \in 1..Len(seqs) : j # i => seqs[j] = <<>>) => FlattenSeq(seqs) = seqs[i]
<1> DEFINE Only(seqs, i) == \A j \in 1..Len(seqs) : j # i => seqs[j] = <<>>
           K == {seqs \in Seq(Seq(T)) : \A i \in 1..Len(seqs) :
                   Only(seqs, i) => FlattenSeq(seqs) = seqs[i]}
<1>1. <<>> \in K
  BY EmptySeq
<1>2. ASSUME NEW f \in Seq(Seq(T)), NEW s \in Seq(T), f \in K PROVE Append(f, s) \in K
  <2> DEFINE n == Len(f)
             longer == Append(f, s)
  <2>1. /\ longer \in Seq(Seq(T)) /\ n \in Nat /\ Len(longer) = n + 1
        /\ longer[n + 1] = s /\ \A i \in 1..n : longer[i] = f[i] /\ f[i] \in Seq(T)
    BY AppendProperties, LenProperties, ElementOfSeq
  <2>2. FlattenSeq(longer) = FlattenSeq(f) \o s
    BY FlattenAppend
  <2> HIDE DEF longer
  <2>3. SUFFICES ASSUME NEW i \in 1..(n + 1), Only(longer, i)
                 PROVE  FlattenSeq(longer) = longer[i]
    BY <2>1 DEF longer
  <2>4. CASE i = n + 1
    <3>1. \A j \in 1..n : j \in 1..(n + 1) /\ j # i
      BY <2>1, <2>4
    <3>2. \A j \in 1..n : f[j] = <<>>
      BY <2>1, <2>3, <3>1
    <3>3. FlattenSeq(f) = <<>>
      BY <3>2, FlattenNone
    <3>4. QED
      BY <2>1, <2>2, <2>4, <3>3, ConcatEmptySeq
  <2>5. CASE i # n + 1
    <3>1. i \in 1..n /\ n + 1 \in 1..(n + 1) /\ \A j \in 1..n : j \in 1..(n + 1)
      BY <2>1, <2>3, <2>5
    <3>2. s = <<>> /\ \A j \in 1..n : j # i => f[j] = <<>>
      BY <2>1, <2>3, <2>5, <3>1
    <3>3. FlattenSeq(f) = f[i]
      BY <1>2, <3>1, <3>2
    <3>4. QED
      BY <2>1, <2>2, <3>1, <3>2, <3>3, ConcatEmptySeq
  <2>6. QED
    BY <2>4, <2>5
<1>3. Seq(Seq(T)) \subseteq K
  <2> HIDE DEF K
  <2>1. QED
    BY <1>1, <1>2, InductiveSeqs
<1>4. QED
  BY <1>3

LEMMA FlattenTwo ==
    ASSUME NEW T
    PROVE  \A seqs \in Seq(Seq(T)) : \A h, i \in 1..Len(seqs) :
             /\ h < i
             /\ \A j \in 1..Len(seqs) : j # h /\ j # i => seqs[j] = <<>>
             => FlattenSeq(seqs) = seqs[h] \o seqs[i]
<1> DEFINE Only(seqs, h, i) == /\ h < i
                               /\ \A j \in 1..Len(seqs) : j # h /\ j # i => seqs[j] = <<>>
           K == {seqs \in Seq(Seq(T)) : \A h, i \in 1..Len(seqs) :
                   Only(seqs, h, i) => FlattenSeq(seqs) = seqs[h] \o seqs[i]}
<1>1. <<>> \in K
  BY EmptySeq
<1>2. ASSUME NEW f \in Seq(Seq(T)), NEW s \in Seq(T), f \in K PROVE Append(f, s) \in K
  <2> DEFINE n == Len(f)
             longer == Append(f, s)
  <2>1. /\ longer \in Seq(Seq(T)) /\ n \in Nat /\ Len(longer) = n + 1
        /\ longer[n + 1] = s /\ \A i \in 1..n : longer[i] = f[i] /\ f[i] \in Seq(T)
    BY AppendProperties, LenProperties, ElementOfSeq
  <2>2. FlattenSeq(longer) = FlattenSeq(f) \o s
    BY FlattenAppend
  <2> HIDE DEF longer
  <2>3. SUFFICES ASSUME NEW h \in 1..(n + 1), NEW i \in 1..(n + 1), Only(longer, h, i)
                 PROVE  FlattenSeq(longer) = longer[h] \o longer[i]
    BY <2>1 DEF longer
  <2>4. CASE i = n + 1
    <3>1. h \in 1..n /\ \A j \in 1..n : j \in 1..(n + 1) /\ j # i
      BY <2>1, <2>3, <2>4
    <3>2. \A j \in 1..n : j # h => f[j] = <<>>
      BY <2>1, <2>3, <3>1
    <3>3. FlattenSeq(f) = f[h]
      BY <3>1, <3>2, FlattenOne
    <3>4. QED
      BY <2>1, <2>2, <2>4, <3>1, <3>3
  <2>5. CASE i # n + 1
    <3>0. n \in Nat /\ h < i
      BY <2>1, <2>3
    <3> HIDE DEF n
    <3>1. /\ h \in 1..n /\ i \in 1..n /\ n + 1 \in 1..(n + 1) /\ n + 1 # h
          /\ \A j \in 1..n : j \in 1..(n + 1)
      BY <2>5, <3>0
    <3>2. s = <<>> /\ \A j \in 1..n : j # h /\ j # i => f[j] = <<>>
      <4>1. \A j \in 1..(n + 1) : j # h /\ j # i => longer[j] = <<>>
        BY <2>1, <2>3
      <4>2. QED
        BY <2>1, <2>5, <3>1, <4>1
    <3>3. FlattenSeq(f) = f[h] \o f[i]
      BY <1>2, <3>0, <3>1, <3>2 DEF n
    <3>4. f[h] \o f[i] \in Seq(T)
      BY <2>1, <3>1, ConcatProperties
    <3>5. QED
      BY <2>1, <2>2, <3>1, <3>2, <3>3, <3>4, ConcatEmptySeq
  <2>6. QED
    BY <2>4, <2>5
<1>3. Seq(Seq(T)) \subseteq K
  <2> HIDE DEF K
  <2>1. QED
    BY <1>1, <1>2, InductiveSeqs
<1>4. QED
  BY <1>3

THEOREM FlattenSingles ==
    ASSUME NEW T
    PROVE  \A s \in Seq(T) : FlattenSeq([i \in DOMAIN s |-> <<s[i]>>]) = s
<1> DEFINE Singles(s) == [i \in DOMAIN s |-> <<s[i]>>]
           K == {s \in Seq(T) : FlattenSeq(Singles(s)) = s}
<1>1. <<>> \in K
  <2>1. Singles(<<>>) = <<>>
    OBVIOUS
  <2>2. QED
    BY <2>1, FlattenEmpty, EmptySeq
<1>2. ASSUME NEW s \in Seq(T), NEW x \in T, s \in K PROVE Append(s, x) \in K
  <2> DEFINE n == Len(s)
             longer == Append(s, x)
  <2>1. /\ longer \in Seq(T) /\ n \in Nat /\ Len(longer) = n + 1
        /\ longer[n + 1] = x /\ \A i \in 1..n : longer[i] = s[i] /\ s[i] \in T
        /\ DOMAIN longer = 1..(n + 1) /\ DOMAIN s = 1..n
    BY AppendProperties, LenProperties, ElementOfSeq
  <2>2. /\ Singles(s) \in Seq(Seq(T)) /\ Len(Singles(s)) = n
        /\ <<x>> \in Seq(T)
    BY <2>1
  <2>3. Singles(longer) = Append(Singles(s), <<x>>)
    BY <2>1, <2>2
  <2>4. FlattenSeq(Singles(longer)) = FlattenSeq(Singles(s)) \o <<x>>
    BY <2>2, <2>3, FlattenAppend
  <2>5. longer = s \o <<x>>
    BY AppendIsConcat
  <2>6. QED
    BY <1>2, <2>1, <2>4, <2>5
<1>3. Seq(T) \subseteq K
  <2> HIDE DEF K
  <2>1. QED
    BY <1>1, <1>2, InductiveSeqs
<1>4. QED
  BY <1>3

(***************************************************************************)
(* Sequences of one, two and three elements, added to a sequence.          *)
(***************************************************************************)
LEMMA OneMore ==
    ASSUME NEW S, NEW s \in Seq(S), NEW a \in S
    PROVE  s \o <<a>> = Append(s, a)
BY AppendIsConcat

LEMMA TwoMore ==
    ASSUME NEW S, NEW s \in Seq(S), NEW a \in S, NEW b \in S
    PROVE  s \o <<a, b>> = Append(Append(s, a), b)
<1> DEFINE p == <<a, b>>
           q == Append(<<a>>, b)
<1>1. <<a>> \in Seq(S) /\ Len(<<a>>) = 1 /\ <<a>>[1] = a
  OBVIOUS
<1>2. p \in Seq(S) /\ Len(p) = 2 /\ p[1] = a /\ p[2] = b
  OBVIOUS
<1>3. q \in Seq(S) /\ Len(q) = 2 /\ q[1] = a /\ q[2] = b
  BY <1>1, AppendProperties
<1> HIDE DEF p, q
<1>4. \A i \in 1..Len(p) : p[i] = q[i]
  BY <1>2, <1>3
<1>5. p = q
  BY <1>2, <1>3, <1>4, SeqEqual
<1>6. s \o Append(<<a>>, b) = Append(s \o <<a>>, b)
  BY <1>1, ConcatAppend
<1>7. QED
  BY <1>5, <1>6, OneMore DEF p, q

LEMMA ThreeMore ==
    ASSUME NEW S, NEW s \in Seq(S), NEW a \in S, NEW b \in S, NEW c \in S
    PROVE  s \o <<a, b, c>> = Append(Append(Append(s, a), b), c)
<1> DEFINE p == <<a, b, c>>
           q == Append(<<a, b>>, c)
<1>1. <<a, b>> \in Seq(S) /\ Len(<<a, b>>) = 2 /\ <<a, b>>[1] = a /\ <<a, b>>[2] = b
  OBVIOUS
<1>2. p \in Seq(S) /\ Len(p) = 3 /\ p[1] = a /\ p[2] = b /\ p[3] = c
  OBVIOUS
<1>3. q \in Seq(S) /\ Len(q) = 3 /\ q[1] = a /\ q[2] = b /\ q[3] = c
  BY <1>1, AppendProperties
<1> HIDE DEF p, q
<1>4. \A i \in 1..Len(p) : p[i] = q[i]
  BY <1>2, <1>3
<1>5. p = q
  BY <1>2, <1>3, <1>4, SeqEqual
<1>6. s \o Append(<<a, b>>, c) = Append(s \o <<a, b>>, c)
  BY <1>1, ConcatAppend
<1>7. QED
  BY <1>5, <1>6, TwoMore DEF p, q
=============================================================================
