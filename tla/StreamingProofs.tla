-------------------------- MODULE StreamingProofs ---------------------------
(***************************************************************************)
(* Proofs about Streaming for any rules, pieces and positions, any order   *)
(* of the pieces, and replies of any length.                               *)
(***************************************************************************)
EXTENDS Streaming, SequenceTheorems, FiniteSetTheorems, TLAPS

\* FoldTheory for the facts about sequences; what it folds is of no matter.
Second(a, b) == b
Data == INSTANCE FoldTheory WITH Op <- Second, Base <- 0

TextKind == {"thinking", "text"}
Made == [kind : Kind, text : Seq(Token)]
Event == [type : {"start", "delta", "stop", "message_stop"}, index : Nat,
          kind : Kind \cup {"none"}, text : Seq(Token)]
SentPiece == [kind : Kind, call : Nat \cup Position, text : Seq(Token)]

-----------------------------------------------------------------------------
(***************************************************************************)
(* The texts that a function picks from the elements of a sequence.        *)
(***************************************************************************)
Picks(f, s) == [n \in DOMAIN s |-> f[s[n]]]
Picked(f, s) == FlattenSeq(Picks(f, s))

LEMMA FlattenSame == \A s : FlattenSeq(s) = Data!FlattenSeq(s)
BY DEF FlattenSeq, Data!FlattenSeq

OneByOne(a, b, c) == (a \o b) \o c
AtOnce(a, b, c) == a \o (b \o c)

LEMMA Regroup ==
    /\ \A a, b, c \in Seq(Token) : OneByOne(a, b, c) = AtOnce(a, b, c)
    /\ \A a, b, c \in Seq(Event) : OneByOne(a, b, c) = AtOnce(a, b, c)
<1>1. \A a, b, c \in Seq(Token) : OneByOne(a, b, c) = AtOnce(a, b, c)
  BY ConcatAssociative DEF OneByOne, AtOnce
<1>2. \A a, b, c \in Seq(Event) : OneByOne(a, b, c) = AtOnce(a, b, c)
  BY ConcatAssociative DEF OneByOne, AtOnce
<1>3. QED
  BY <1>1, <1>2

LEMMA PicksType ==
    ASSUME NEW S, NEW f \in [S -> Seq(Token)]
    PROVE  \A s \in Seq(S) : /\ Picks(f, s) \in Seq(Seq(Token))
                             /\ Len(Picks(f, s)) = Len(s)
                             /\ Picked(f, s) \in Seq(Token)
<1> SUFFICES ASSUME NEW s \in Seq(S)
             PROVE  /\ Picks(f, s) \in Seq(Seq(Token)) /\ Len(Picks(f, s)) = Len(s)
                    /\ Picked(f, s) \in Seq(Token)
  OBVIOUS
<1>1. Len(s) \in Nat /\ DOMAIN s = 1..Len(s) /\ \A n \in 1..Len(s) : s[n] \in S
  BY LenProperties, ElementOfSeq
<1> DEFINE p == [n \in DOMAIN s |-> f[s[n]]]
<1>2. \A n \in 1..Len(s) : f[s[n]] \in Seq(Token)
  BY <1>1
<1>3. p \in Seq(Seq(Token)) /\ Len(p) = Len(s)
  BY <1>1, <1>2
<1>4. Picks(f, s) = p
  BY DEF Picks
<1> HIDE DEF p
<1>5. QED
  BY <1>3, <1>4, Data!FlattenType, FlattenSame DEF Picked

LEMMA PickedEmpty == \A f : Picked(f, <<>>) = <<>>
<1> SUFFICES ASSUME NEW f PROVE Picked(f, <<>>) = <<>>
  OBVIOUS
<1>1. Picks(f, <<>>) = <<>>
  BY DEF Picks
<1>2. QED
  BY <1>1, Data!FlattenEmpty, FlattenSame DEF Picked

LEMMA PickedAppend ==
    ASSUME NEW S, NEW f \in [S -> Seq(Token)]
    PROVE  \A s \in Seq(S) : \A x \in S : Picked(f, Append(s, x)) = Picked(f, s) \o f[x]
<1> SUFFICES ASSUME NEW s \in Seq(S), NEW x \in S
             PROVE  Picked(f, Append(s, x)) = Picked(f, s) \o f[x]
  OBVIOUS
<1> DEFINE longer == Append(s, x)
           p == Picks(f, s)
           q == Picks(f, longer)
<1>1. /\ longer \in Seq(S) /\ Len(s) \in Nat /\ Len(longer) = Len(s) + 1
      /\ longer[Len(s) + 1] = x /\ \A n \in 1..Len(s) : longer[n] = s[n]
      /\ DOMAIN s = 1..Len(s) /\ DOMAIN longer = 1..Len(longer)
  BY AppendProperties, LenProperties
<1> HIDE DEF longer
<1>2. p \in Seq(Seq(Token)) /\ Len(p) = Len(s) /\ q \in Seq(Seq(Token)) /\ Len(q) = Len(s) + 1
  BY <1>1, PicksType
<1>3. f[x] \in Seq(Token)
  OBVIOUS
<1>4. /\ Append(p, f[x]) \in Seq(Seq(Token)) /\ Len(Append(p, f[x])) = Len(s) + 1
      /\ Append(p, f[x])[Len(s) + 1] = f[x]
      /\ \A n \in 1..Len(s) : Append(p, f[x])[n] = p[n]
  BY <1>2, <1>3, AppendProperties
<1>5. \A n \in 1..Len(s) : p[n] = f[s[n]] /\ q[n] = f[s[n]]
  BY <1>1 DEF Picks
<1>6. q[Len(s) + 1] = f[x]
  BY <1>1 DEF Picks
<1> HIDE DEF p, q
<1>7. \A n \in 1..Len(q) : q[n] = Append(p, f[x])[n]
  BY <1>1, <1>2, <1>4, <1>5, <1>6
<1>8. q = Append(p, f[x])
  BY <1>2, <1>4, <1>7, SeqEqual
<1>9. FlattenSeq(Append(p, f[x])) = FlattenSeq(p) \o f[x]
  BY <1>2, <1>3, Data!FlattenAppend, FlattenSame
<1>10. QED
  BY <1>8, <1>9 DEF Picked, p, q, longer

LEMMA PickedNone ==
    ASSUME NEW S, NEW f \in [S -> Seq(Token)], NEW s \in Seq(S),
           \A n \in DOMAIN s : f[s[n]] = <<>>
    PROVE  Picked(f, s) = <<>>
<1>1. Picks(f, s) \in Seq(Seq(Token)) /\ Len(Picks(f, s)) = Len(s) /\ DOMAIN s = 1..Len(s)
  BY PicksType, LenProperties
<1>2. \A n \in 1..Len(Picks(f, s)) : Picks(f, s)[n] = <<>>
  BY <1>1 DEF Picks
<1>3. QED
  BY <1>1, <1>2, Data!FlattenNone, FlattenSame DEF Picked

LEMMA PickedNothing ==
    ASSUME NEW S, NEW f \in [S -> Seq(Token)], NEW s \in Seq(S), NEW x \in S, f[x] = <<>>
    PROVE  Picked(f, Append(s, x)) = Picked(f, s)
<1>1. Picked(f, s) \in Seq(Token)
  BY PicksType
<1>2. Picked(f, Append(s, x)) = Picked(f, s) \o <<>>
  BY PickedAppend
<1>3. QED
  BY <1>1, <1>2, ConcatEmptySeq

Swapped(s, i, x) == [s EXCEPT ![i] = x]

\* An element replaced by one of the same text.
LEMMA PickedReplace ==
    ASSUME NEW S, NEW f \in [S -> Seq(Token)], NEW s \in Seq(S), NEW i \in 1..Len(s),
           NEW x \in S, f[x] = f[s[i]]
    PROVE  Picked(f, Swapped(s, i, x)) = Picked(f, s)
<1> DEFINE t == [s EXCEPT ![i] = x]
<1>1. DOMAIN t = DOMAIN s /\ \A n \in DOMAIN s : f[t[n]] = f[s[n]]
  OBVIOUS
<1> HIDE DEF t
<1>2. Picks(f, t) = Picks(f, s)
  BY <1>1 DEF Picks
<1>3. QED
  BY <1>2 DEF Picked, t, Swapped

LEMMA ReplaceLast ==
    ASSUME NEW S, NEW s \in Seq(S), NEW y \in S, NEW x \in S
    PROVE  [Append(s, y) EXCEPT ![Len(s) + 1] = x] = Append(s, x)
<1> DEFINE longer == Append(s, y)
           t == Append(s, x)
           n == Len(s)
<1>1. /\ longer \in Seq(S) /\ Len(longer) = n + 1 /\ n \in Nat
      /\ \A j \in 1..n : longer[j] = s[j]
  BY AppendProperties, LenProperties
<1>2. /\ t \in Seq(S) /\ Len(t) = n + 1 /\ t[n + 1] = x /\ \A j \in 1..n : t[j] = s[j]
  BY AppendProperties, LenProperties
<1> HIDE DEF longer, t, n
<1> DEFINE u == [longer EXCEPT ![n + 1] = x]
<1>3. /\ u \in Seq(S) /\ Len(u) = n + 1
      /\ \A j \in 1..(n + 1) : u[j] = IF j = n + 1 THEN x ELSE longer[j]
  BY <1>1, ExceptSeq
<1> HIDE DEF u
<1>4. \A j \in 1..Len(u) : u[j] = t[j]
  BY <1>1, <1>2, <1>3
<1>5. QED
  BY <1>2, <1>3, <1>4, SeqEqual DEF u, t, longer, n

LEMMA ReplaceEarlier ==
    ASSUME NEW S, NEW s \in Seq(S), NEW y \in S, NEW x \in S, NEW i \in 1..Len(s)
    PROVE  [Append(s, y) EXCEPT ![i] = x] = Append([s EXCEPT ![i] = x], y)
<1> DEFINE longer == Append(s, y)
           other == [s EXCEPT ![i] = x]
           t == Append(other, y)
           n == Len(s)
<1>1. /\ longer \in Seq(S) /\ Len(longer) = n + 1 /\ n \in Nat /\ longer[n + 1] = y
      /\ \A j \in 1..n : longer[j] = s[j]
  BY AppendProperties, LenProperties
<1>2. /\ other \in Seq(S) /\ Len(other) = n
      /\ \A j \in 1..n : other[j] = IF j = i THEN x ELSE s[j]
  BY ExceptSeq
<1> HIDE DEF other
<1>3. /\ t \in Seq(S) /\ Len(t) = n + 1 /\ t[n + 1] = y /\ \A j \in 1..n : t[j] = other[j]
  BY <1>2, AppendProperties
<1>4. i \in 1..n
  OBVIOUS
<1> HIDE DEF longer, t, n
<1> DEFINE u == [longer EXCEPT ![i] = x]
<1>5. /\ u \in Seq(S) /\ Len(u) = n + 1
      /\ \A j \in 1..(n + 1) : u[j] = IF j = i THEN x ELSE longer[j]
  BY <1>1, <1>4, ExceptSeq
<1> HIDE DEF u
<1>6. ASSUME NEW j \in 1..Len(u) PROVE u[j] = t[j]
  <2>1. CASE j \in 1..n
    BY <1>1, <1>2, <1>3, <1>5, <2>1
  <2>2. CASE j = n + 1
    BY <1>1, <1>3, <1>4, <1>5, <2>2
  <2>3. QED
    BY <1>1, <1>5, <2>1, <2>2
<1>7. QED
  BY <1>3, <1>5, <1>6, SeqEqual DEF u, t, longer, other

\* An element made longer, when no text comes after it.
LEMMA PickedExtend ==
    ASSUME NEW S, NEW f \in [S -> Seq(Token)], NEW x \in S, NEW t \in Seq(Token)
    PROVE  \A s \in Seq(S) : \A i \in 1..Len(s) :
             /\ f[x] = f[s[i]] \o t
             /\ \A j \in 1..Len(s) : i < j => f[s[j]] = <<>>
             => Picked(f, Swapped(s, i, x)) = Picked(f, s) \o t
<1> DEFINE Last1(s, i) == /\ f[x] = f[s[i]] \o t
                         /\ \A j \in 1..Len(s) : i < j => f[s[j]] = <<>>
           K == {s \in Seq(S) : \A i \in 1..Len(s) :
                   Last1(s, i) => Picked(f, [s EXCEPT ![i] = x]) = Picked(f, s) \o t}
<1>1. <<>> \in K
  BY EmptySeq
<1>2. ASSUME NEW g \in Seq(S), NEW y \in S, g \in K PROVE Append(g, y) \in K
  <2> DEFINE longer == Append(g, y)
             n == Len(g)
  <2>1. /\ longer \in Seq(S) /\ Len(longer) = n + 1 /\ n \in Nat /\ longer[n + 1] = y
        /\ \A j \in 1..n : longer[j] = g[j]
    BY AppendProperties, LenProperties
  <2>2. SUFFICES ASSUME NEW i \in 1..Len(longer), Last1(longer, i)
                 PROVE  Picked(f, [longer EXCEPT ![i] = x]) = Picked(f, longer) \o t
    BY <2>1
  <2>3. Picked(f, longer) = Picked(f, g) \o f[y]
    BY PickedAppend
  <2>4. Picked(f, g) \in Seq(Token) /\ f[y] \in Seq(Token)
    BY PicksType
  <2>5. CASE i = n + 1
    <3>1. [longer EXCEPT ![i] = x] = Append(g, x)
      BY <2>5, ReplaceLast
    <3>2. Picked(f, Append(g, x)) = Picked(f, g) \o f[x]
      BY PickedAppend
    <3>3. f[x] = f[y] \o t
      BY <2>1, <2>2, <2>5
    <3>4. Picked(f, g) \o (f[y] \o t) = (Picked(f, g) \o f[y]) \o t
      BY <2>4, Regroup DEF OneByOne, AtOnce
    <3>5. QED
      BY <2>3, <3>1, <3>2, <3>3, <3>4
  <2>6. CASE i # n + 1
    <3>1. i \in 1..n /\ i < n + 1 /\ n + 1 \in 1..Len(longer)
      BY <2>1, <2>6
    <3>2. f[y] = <<>>
      BY <2>1, <2>2, <3>1
    <3>3. Last1(g, i)
      BY <2>1, <2>2, <3>1
    <3>4. Picked(f, [g EXCEPT ![i] = x]) = Picked(f, g) \o t
      BY <1>2, <3>1, <3>3
    <3>5. [longer EXCEPT ![i] = x] = Append([g EXCEPT ![i] = x], y)
      BY <3>1, ReplaceEarlier
    <3> DEFINE other == [g EXCEPT ![i] = x]
    <3>6. other \in Seq(S)
      BY <3>1, ExceptSeq
    <3> HIDE DEF other
    <3>7. Picked(f, Append(other, y)) = Picked(f, other) \o f[y] /\ Picked(f, other) \in Seq(Token)
      BY <3>6, PickedAppend, PicksType
    <3>8. Picked(f, other) \o <<>> = Picked(f, other) /\ Picked(f, g) \o <<>> = Picked(f, g)
      BY <2>4, <3>7, ConcatEmptySeq
    <3>9. QED
      BY <2>3, <3>2, <3>4, <3>5, <3>7, <3>8 DEF other
  <2>7. QED
    BY <2>5, <2>6
<1>3. Seq(S) \subseteq K
  <2> HIDE DEF K
  <2>1. \A s \in Seq(S) : \A y \in S : s \in K => Append(s, y) \in K
    BY <1>2
  <2>2. QED
    BY <1>1, <2>1, Data!InductiveSeqs
<1>4. QED
  BY <1>3 DEF Swapped

-----------------------------------------------------------------------------
(***************************************************************************)
(* Events, one at a time.                                                  *)
(***************************************************************************)
Where(o, type, i) == {n \in DOMAIN o : o[n].type = type /\ o[n].index = i}
Closed(o) == {i \in Nat : Where(o, "stop", i) # {}}

\* What the events of a block of kind k look like.
Shape(o, i, k) ==
    /\ \E s \in Where(o, "start", i) :
         /\ Where(o, "start", i) = {s} /\ o[s].kind = k
         /\ \A m \in Where(o, "delta", i) \cup Where(o, "stop", i) : s < m
    /\ \A m \in Where(o, "delta", i) : o[m].kind = k
    /\ \A m \in Where(o, "delta", i), n \in Where(o, "stop", i) : m < n
    /\ \A m, n \in Where(o, "stop", i) : m = n

DeltaPick(i, k) ==
    [e \in Event |-> IF e.type = "delta" /\ e.index = i /\ e.kind = k THEN e.text ELSE <<>>]

\* Events o tell of the blocks bs and of no others.
Rendered(o, bs) ==
    /\ \A n \in DOMAIN o : /\ o[n].index \in 0..Len(bs)
                            /\ (o[n].index = 0 <=> o[n].type = "message_stop")
    /\ \A i \in 1..Len(bs) : /\ Shape(o, i, bs[i].kind)
                             /\ Picked(DeltaPick(i, bs[i].kind), o) = bs[i].text

LEMMA PickType == \A i, k : DeltaPick(i, k) \in [Event -> Seq(Token)]
<1> SUFFICES ASSUME NEW i, NEW k PROVE DeltaPick(i, k) \in [Event -> Seq(Token)]
  OBVIOUS
<1>1. \A e \in Event : e.text \in Seq(Token)
  BY DEF Event
<1>2. <<>> \in Seq(Token)
  BY EmptySeq
<1>3. QED
  BY <1>1, <1>2 DEF DeltaPick

LEMMA WhereAppend ==
    ASSUME NEW o \in Seq(Event), NEW e \in Event
    PROVE  /\ Append(o, e) \in Seq(Event) /\ Len(o) \in Nat
           /\ DOMAIN o = 1..Len(o) /\ DOMAIN Append(o, e) = 1..(Len(o) + 1)
           /\ \A n \in DOMAIN o : Append(o, e)[n] = o[n]
           /\ Append(o, e)[Len(o) + 1] = e
           /\ \A type, i : Where(o, type, i) \subseteq DOMAIN o
           /\ \A type, i, n : n \in Where(Append(o, e), type, i) <=>
                n \in Where(o, type, i) \/ (n = Len(o) + 1 /\ e.type = type /\ e.index = i)
<1> DEFINE longer == Append(o, e)
<1>1. /\ longer \in Seq(Event) /\ Len(o) \in Nat /\ Len(longer) = Len(o) + 1
      /\ DOMAIN o = 1..Len(o) /\ DOMAIN longer = 1..Len(longer)
      /\ longer[Len(o) + 1] = e /\ \A n \in 1..Len(o) : longer[n] = o[n]
  BY AppendProperties, LenProperties
<1> HIDE DEF longer
<1>2. \A type, i : Where(o, type, i) \subseteq DOMAIN o
  BY DEF Where
<1>3. ASSUME NEW type, NEW i, NEW n
      PROVE  n \in Where(longer, type, i) <=>
             n \in Where(o, type, i) \/ (n = Len(o) + 1 /\ e.type = type /\ e.index = i)
  <2>1. CASE n \in 1..Len(o)
    BY <1>1, <2>1 DEF Where
  <2>2. CASE n = Len(o) + 1
    BY <1>1, <2>2 DEF Where
  <2>3. CASE n \notin 1..Len(o) /\ n # Len(o) + 1
    BY <1>1, <2>3 DEF Where
  <2>4. QED
    BY <2>1, <2>2, <2>3
<1>4. QED
  BY <1>1, <1>2, <1>3 DEF longer

LEMMA WhereSame ==
    ASSUME NEW o \in Seq(Event), NEW e \in Event, NEW type, NEW i, e.type # type \/ e.index # i
    PROVE  Where(Append(o, e), type, i) = Where(o, type, i)
<1> DEFINE longer == Append(o, e)
<1>1. \A n : n \in Where(longer, type, i) <=> n \in Where(o, type, i)
  BY WhereAppend
<1>2. QED
  BY <1>1

LEMMA WhereNew ==
    ASSUME NEW o \in Seq(Event), NEW e \in Event, NEW type, NEW i, e.type = type, e.index = i
    PROVE  Where(Append(o, e), type, i) = Where(o, type, i) \cup {Len(o) + 1}
<1> DEFINE longer == Append(o, e)
<1>1. \A n : n \in Where(longer, type, i) <=> n \in Where(o, type, i) \/ n = Len(o) + 1
  BY WhereAppend
<1>2. QED
  BY <1>1

LEMMA ShapeOther ==
    ASSUME NEW o \in Seq(Event), NEW e \in Event, NEW i, NEW k,
           Shape(o, i, k), e.index # i
    PROVE  Shape(Append(o, e), i, k)
<1> DEFINE longer == Append(o, e)
<1>1. \A type : Where(longer, type, i) = Where(o, type, i)
  BY WhereSame
<1>2. ASSUME NEW type, NEW n \in Where(o, type, i) PROVE longer[n] = o[n]
  <2>1. n \in DOMAIN o
    BY DEF Where
  <2>2. QED
    BY <2>1, WhereAppend
<1> HIDE DEF longer
<1>3. Shape(longer, i, k)
  <2>1. PICK s \in Where(o, "start", i) :
          /\ Where(o, "start", i) = {s} /\ o[s].kind = k
          /\ \A m \in Where(o, "delta", i) \cup Where(o, "stop", i) : s < m
    BY DEF Shape
  <2>2. /\ Where(longer, "start", i) = {s} /\ longer[s].kind = k
        /\ \A m \in Where(longer, "delta", i) \cup Where(longer, "stop", i) : s < m
    BY <1>1, <1>2, <2>1
  <2>3. \A m \in Where(longer, "delta", i) : longer[m].kind = k
    BY <1>1, <1>2 DEF Shape
  <2>4. /\ \A m \in Where(longer, "delta", i), n \in Where(longer, "stop", i) : m < n
        /\ \A m, n \in Where(longer, "stop", i) : m = n
    BY <1>1 DEF Shape
  <2>5. QED
    BY <2>2, <2>3, <2>4 DEF Shape
<1>4. QED
  BY <1>3 DEF longer

LEMMA ShapeStart ==
    ASSUME NEW o \in Seq(Event), NEW e \in Event, NEW i, NEW k,
           \A type : Where(o, type, i) = {},
           e.type = "start", e.index = i, e.kind = k
    PROVE  Shape(Append(o, e), i, k)
<1> DEFINE longer == Append(o, e)
           at == Len(o) + 1
<1>1. /\ Where(longer, "start", i) = {at} /\ Where(longer, "delta", i) = {}
      /\ Where(longer, "stop", i) = {} /\ longer[at] = e
  BY WhereAppend, WhereSame, WhereNew
<1> HIDE DEF longer, at
<1>2. Shape(longer, i, k)
  BY <1>1 DEF Shape
<1>3. QED
  BY <1>2 DEF longer

LEMMA ShapeDelta ==
    ASSUME NEW o \in Seq(Event), NEW e \in Event, NEW i, NEW k, Shape(o, i, k),
           Where(o, "stop", i) = {}, e.type = "delta", e.index = i, e.kind = k
    PROVE  Shape(Append(o, e), i, k)
<1> DEFINE longer == Append(o, e)
           at == Len(o) + 1
<1>1. /\ Where(longer, "start", i) = Where(o, "start", i)
      /\ Where(longer, "delta", i) = Where(o, "delta", i) \cup {at}
      /\ Where(longer, "stop", i) = {} /\ longer[at] = e
  BY WhereAppend, WhereSame, WhereNew
<1>2. ASSUME NEW type, NEW n \in Where(o, type, i) PROVE longer[n] = o[n] /\ n < at
  <2>1. n \in DOMAIN o
    BY DEF Where
  <2>2. QED
    BY <2>1, WhereAppend
<1> HIDE DEF longer, at
<1>3. Shape(longer, i, k)
  <2>1. PICK s \in Where(o, "start", i) :
          /\ Where(o, "start", i) = {s} /\ o[s].kind = k
          /\ \A m \in Where(o, "delta", i) \cup Where(o, "stop", i) : s < m
    BY DEF Shape
  <2>2. s < at
    BY <1>2
  <2>3. /\ Where(longer, "start", i) = {s} /\ longer[s].kind = k
        /\ \A m \in Where(longer, "delta", i) \cup Where(longer, "stop", i) : s < m
    BY <1>1, <1>2, <2>1, <2>2
  <2>4. \A m \in Where(longer, "delta", i) : longer[m].kind = k
    BY <1>1, <1>2 DEF Shape
  <2>5. QED
    BY <1>1, <2>3, <2>4 DEF Shape
<1>4. QED
  BY <1>3 DEF longer

LEMMA ShapeStop ==
    ASSUME NEW o \in Seq(Event), NEW e \in Event, NEW i, NEW k, Shape(o, i, k),
           Where(o, "stop", i) = {}, e.type = "stop", e.index = i
    PROVE  Shape(Append(o, e), i, k)
<1> DEFINE longer == Append(o, e)
           at == Len(o) + 1
<1>1. /\ Where(longer, "start", i) = Where(o, "start", i)
      /\ Where(longer, "delta", i) = Where(o, "delta", i)
      /\ Where(longer, "stop", i) = {at}
  BY WhereSame, WhereNew
<1>2. ASSUME NEW type, NEW n \in Where(o, type, i) PROVE longer[n] = o[n] /\ n < at
  <2>1. n \in DOMAIN o
    BY DEF Where
  <2>2. QED
    BY <2>1, WhereAppend
<1> HIDE DEF longer, at
<1>3. Shape(longer, i, k)
  <2>1. PICK s \in Where(o, "start", i) :
          /\ Where(o, "start", i) = {s} /\ o[s].kind = k
          /\ \A m \in Where(o, "delta", i) \cup Where(o, "stop", i) : s < m
    BY DEF Shape
  <2>2. s < at
    BY <1>2
  <2>3. /\ Where(longer, "start", i) = {s} /\ longer[s].kind = k
        /\ \A m \in Where(longer, "delta", i) \cup Where(longer, "stop", i) : s < m
    BY <1>1, <1>2, <2>1, <2>2
  <2>4. /\ \A m \in Where(longer, "delta", i) : longer[m].kind = k
        /\ \A m \in Where(longer, "delta", i), n \in Where(longer, "stop", i) : m < n
    BY <1>1, <1>2 DEF Shape
  <2>5. QED
    BY <1>1, <2>3, <2>4 DEF Shape
<1>4. QED
  BY <1>3 DEF longer

LEMMA Unrelated ==
    ASSUME NEW o \in Seq(Event), NEW e \in Event, NEW i, NEW k,
           e.index # i \/ e.type # "delta"
    PROVE  Picked(DeltaPick(i, k), Append(o, e)) = Picked(DeltaPick(i, k), o)
<1> DEFINE f == DeltaPick(i, k)
<1>1. f \in [Event -> Seq(Token)] /\ f[e] = <<>>
  BY PickType DEF DeltaPick
<1> HIDE DEF f
<1>2. Picked(f, Append(o, e)) = Picked(f, o)
  BY <1>1, PickedNothing
<1>3. QED
  BY <1>2 DEF f

LEMMA StaysOpen ==
    ASSUME NEW o \in Seq(Event), NEW e \in Event, e.type # "stop"
    PROVE  Closed(Append(o, e)) = Closed(o)
<1>1. \A i : Where(Append(o, e), "stop", i) = Where(o, "stop", i)
  BY WhereSame
<1>2. QED
  BY <1>1 DEF Closed

LEMMA Indices ==
    ASSUME NEW o \in Seq(Event), NEW e \in Event, NEW n \in Nat,
           \A m \in DOMAIN o : /\ o[m].index \in 0..n
                              /\ (o[m].index = 0 <=> o[m].type = "message_stop"),
           e.index \in 0..n, (e.index = 0) <=> (e.type = "message_stop")
    PROVE  \A m \in DOMAIN Append(o, e) :
             /\ Append(o, e)[m].index \in 0..n
             /\ (Append(o, e)[m].index = 0 <=> Append(o, e)[m].type = "message_stop")
<1> DEFINE longer == Append(o, e)
<1> SUFFICES ASSUME NEW m \in DOMAIN longer
             PROVE  /\ longer[m].index \in 0..n
                    /\ (longer[m].index = 0 <=> longer[m].type = "message_stop")
  OBVIOUS
<1>1. (m \in DOMAIN o /\ longer[m] = o[m]) \/ longer[m] = e
  BY WhereAppend
<1> HIDE DEF longer
<1>2. QED
  BY <1>1

LEMMA RenderStart ==
    ASSUME NEW o \in Seq(Event), NEW bs \in Seq(Made), Rendered(o, bs),
           NEW k \in Kind, NEW e \in Event,
           e.type = "start", e.index = Len(bs) + 1, e.kind = k
    PROVE  /\ Rendered(Append(o, e), Append(bs, [kind |-> k, text |-> <<>>]))
           /\ Closed(Append(o, e)) = Closed(o)
<1> DEFINE n == Len(bs)
           b == [kind |-> k, text |-> <<>>]
           longer == Append(o, e)
           more == Append(bs, b)
<1>1. b \in Made /\ b.kind = k /\ b.text = <<>>
  BY EmptySeq DEF Made
<1>2. /\ more \in Seq(Made) /\ Len(more) = n + 1 /\ more[n + 1] = b /\ n \in Nat
      /\ \A i \in 1..n : more[i] = bs[i]
  BY <1>1, AppendProperties, LenProperties
<1> HIDE DEF b, more
<1>3. \A m \in DOMAIN longer : /\ longer[m].index \in 0..(n + 1)
                               /\ (longer[m].index = 0 <=> longer[m].type = "message_stop")
  <2>1. \A m \in DOMAIN o : /\ o[m].index \in 0..(n + 1)
                            /\ (o[m].index = 0 <=> o[m].type = "message_stop")
    BY <1>2 DEF Rendered
  <2>2. n + 1 \in Nat /\ e.index \in 0..(n + 1) /\ (e.index = 0 <=> e.type = "message_stop")
    BY <1>2
  <2>3. QED
    BY <2>1, <2>2, Indices
<1>4. ASSUME NEW i \in 1..n
      PROVE  Shape(longer, i, bs[i].kind) /\ Picked(DeltaPick(i, bs[i].kind), longer) = bs[i].text
  <2>1. e.index # i
    BY <1>2
  <2>2. Shape(o, i, bs[i].kind) /\ Picked(DeltaPick(i, bs[i].kind), o) = bs[i].text
    BY DEF Rendered
  <2>3. QED
    BY <2>1, <2>2, ShapeOther, Unrelated
<1>5. Shape(longer, n + 1, k) /\ Picked(DeltaPick(n + 1, k), longer) = <<>>
  <2>1. \A m \in DOMAIN o : o[m].index # n + 1
    BY <1>2 DEF Rendered
  <2>2. \A type : Where(o, type, n + 1) = {}
    BY <2>1 DEF Where
  <2> DEFINE f == DeltaPick(n + 1, k)
  <2>3. f \in [Event -> Seq(Token)] /\ \A m \in DOMAIN o : f[o[m]] = <<>>
    <3>1. \A m \in DOMAIN o : o[m] \in Event
      BY LenProperties, ElementOfSeq
    <3>2. QED
      BY <2>1, <3>1, PickType DEF DeltaPick
  <2> HIDE DEF f
  <2>4. Picked(f, o) = <<>>
    BY <2>3, PickedNone
  <2>5. Picked(DeltaPick(n + 1, k), longer) = Picked(DeltaPick(n + 1, k), o)
    BY Unrelated
  <2>6. QED
    BY <2>2, <2>4, <2>5, ShapeStart DEF f
<1> HIDE DEF longer
<1>6. Rendered(longer, more)
  <2>1. \A i \in 1..Len(more) : /\ Shape(longer, i, more[i].kind)
                                /\ Picked(DeltaPick(i, more[i].kind), longer) = more[i].text
    <3> SUFFICES ASSUME NEW i \in 1..(n + 1)
                 PROVE  /\ Shape(longer, i, more[i].kind)
                        /\ Picked(DeltaPick(i, more[i].kind), longer) = more[i].text
      BY <1>2
    <3>1. CASE i = n + 1
      BY <1>1, <1>2, <1>5, <3>1
    <3>2. CASE i # n + 1
      <4>1. i \in 1..n
        BY <1>2, <3>2
      <4>2. QED
        BY <1>2, <1>4, <4>1
    <3>3. QED
      BY <3>1, <3>2
  <2>2. QED
    BY <1>2, <1>3, <2>1 DEF Rendered
<1>7. QED
  BY <1>6, StaysOpen DEF longer, more, b

Lengthened(b, t) == [kind |-> b.kind, text |-> b.text \o t]
Extended(bs, i, t) == [bs EXCEPT ![i].text = @ \o t]

LEMMA Grown ==
    ASSUME NEW b \in Made, NEW t \in Seq(Token)
    PROVE  /\ [b EXCEPT !.text = @ \o t] = Lengthened(b, t)
           /\ Lengthened(b, t) \in Made
           /\ Lengthened(b, t).kind = b.kind /\ Lengthened(b, t).text = b.text \o t
<1>1. b.kind \in Kind /\ b.text \in Seq(Token) /\ b = [kind |-> b.kind, text |-> b.text]
  BY DEF Made
<1> DEFINE k == b.kind
           x == b.text
           y == x \o t
<1>2. y \in Seq(Token)
  BY <1>1, ConcatProperties
<1>3. [b EXCEPT !.text = y] = [kind |-> k, text |-> y]
  <2> HIDE DEF k, x, y
  <2>1. b = [kind |-> k, text |-> x]
    BY <1>1 DEF k, x
  <2>2. [[kind |-> k, text |-> x] EXCEPT !.text = y] = [kind |-> k, text |-> y]
    OBVIOUS
  <2>3. QED
    BY <2>1, <2>2
<1>4. [kind |-> k, text |-> y] \in Made
  BY <1>1, <1>2 DEF Made
<1>5. QED
  BY <1>3, <1>4 DEF Lengthened

LEMMA Longer ==
    ASSUME NEW bs \in Seq(Made), NEW i \in 1..Len(bs), NEW t \in Seq(Token)
    PROVE  /\ Extended(bs, i, t) \in Seq(Made)
           /\ Len(Extended(bs, i, t)) = Len(bs)
           /\ Extended(bs, i, t) = Swapped(bs, i, Lengthened(bs[i], t))
           /\ \A j \in 1..Len(bs) : Extended(bs, i, t)[j] =
                IF j = i THEN Lengthened(bs[i], t) ELSE bs[j]
<1>1. bs[i] \in Made
  BY ElementOfSeq
<1> DEFINE b == Lengthened(bs[i], t)
           q == [bs EXCEPT ![i] = b]
<1>2. b \in Made /\ [bs[i] EXCEPT !.text = @ \o t] = b
  BY <1>1, Grown
<1>3. Extended(bs, i, t) = q
  BY <1>2, Zenon DEF Extended
<1> HIDE DEF b
<1>4. q \in Seq(Made) /\ Len(q) = Len(bs) /\ \A j \in 1..Len(bs) : q[j] = IF j = i THEN b ELSE bs[j]
  BY <1>2, ExceptSeq
<1>5. q = Swapped(bs, i, b)
  BY DEF Swapped
<1> HIDE DEF q
<1>6. QED
  BY <1>3, <1>4, <1>5 DEF b

LEMMA RenderDelta ==
    ASSUME NEW o \in Seq(Event), NEW bs \in Seq(Made), Rendered(o, bs),
           NEW i \in 1..Len(bs), i \notin Closed(o), NEW e \in Event,
           e.type = "delta", e.index = i, e.kind = bs[i].kind
    PROVE  /\ Rendered(Append(o, e), Extended(bs, i, e.text))
           /\ Closed(Append(o, e)) = Closed(o)
<1> DEFINE n == Len(bs)
           longer == Append(o, e)
           t == e.text
           more == Extended(bs, i, t)
           b == Lengthened(bs[i], t)
<1>1. t \in Seq(Token) /\ b.kind = bs[i].kind /\ b.text = bs[i].text \o t
  BY Grown, ElementOfSeq DEF Event
<1>2. /\ more \in Seq(Made) /\ Len(more) = n /\ n \in Nat
      /\ \A j \in 1..n : more[j] = IF j = i THEN b ELSE bs[j]
  BY <1>1, Longer, LenProperties
<1> HIDE DEF b, more
<1>3. \A m \in DOMAIN longer : /\ longer[m].index \in 0..n
                               /\ (longer[m].index = 0 <=> longer[m].type = "message_stop")
  <2>1. e.index \in 0..n /\ (e.index = 0 <=> e.type = "message_stop")
    BY <1>2
  <2>2. \A m \in DOMAIN o : /\ o[m].index \in 0..n
                            /\ (o[m].index = 0 <=> o[m].type = "message_stop")
    BY DEF Rendered
  <2>3. QED
    BY <1>2, <2>1, <2>2, Indices
<1>4. ASSUME NEW j \in 1..n, j # i
      PROVE  Shape(longer, j, bs[j].kind) /\ Picked(DeltaPick(j, bs[j].kind), longer) = bs[j].text
  <2>1. e.index # j
    BY <1>4
  <2>2. Shape(o, j, bs[j].kind) /\ Picked(DeltaPick(j, bs[j].kind), o) = bs[j].text
    BY DEF Rendered
  <2>3. QED
    BY <2>1, <2>2, ShapeOther, Unrelated
<1>5. Shape(longer, i, bs[i].kind)
  <2>1. Shape(o, i, bs[i].kind) /\ Where(o, "stop", i) = {}
    BY <1>2 DEF Rendered, Closed
  <2>2. QED
    BY <2>1, ShapeDelta
<1>6. Picked(DeltaPick(i, bs[i].kind), longer) = bs[i].text \o t
  <2> DEFINE f == DeltaPick(i, bs[i].kind)
  <2>1. f \in [Event -> Seq(Token)]
    BY PickType
  <2>2. f[e] = t
    BY DEF DeltaPick
  <2>3. Picked(f, o) = bs[i].text
    BY DEF Rendered
  <2> HIDE DEF f
  <2>4. Picked(f, longer) = Picked(f, o) \o f[e]
    BY <2>1, PickedAppend
  <2>5. QED
    BY <2>2, <2>3, <2>4 DEF f
<1> HIDE DEF longer
<1>7. Rendered(longer, more)
  <2>1. \A j \in 1..Len(more) : /\ Shape(longer, j, more[j].kind)
                                /\ Picked(DeltaPick(j, more[j].kind), longer) = more[j].text
    BY <1>1, <1>2, <1>4, <1>5, <1>6
  <2>2. QED
    BY <1>2, <1>3, <2>1 DEF Rendered
<1>8. QED
  BY <1>7, StaysOpen DEF longer, more, t

LEMMA RenderStop ==
    ASSUME NEW o \in Seq(Event), NEW bs \in Seq(Made), Rendered(o, bs),
           NEW i \in 1..Len(bs), i \notin Closed(o), NEW e \in Event,
           e.type = "stop", e.index = i
    PROVE  /\ Rendered(Append(o, e), bs)
           /\ Closed(Append(o, e)) = Closed(o) \cup {i}
<1> DEFINE n == Len(bs)
           longer == Append(o, e)
<1>1. n \in Nat /\ i \in Nat
  BY LenProperties
<1>2. \A m \in DOMAIN longer : /\ longer[m].index \in 0..n
                               /\ (longer[m].index = 0 <=> longer[m].type = "message_stop")
  <2>1. e.index \in 0..n /\ (e.index = 0 <=> e.type = "message_stop")
    BY <1>1
  <2>2. \A m \in DOMAIN o : /\ o[m].index \in 0..n
                            /\ (o[m].index = 0 <=> o[m].type = "message_stop")
    BY DEF Rendered
  <2>3. QED
    BY <1>1, <2>1, <2>2, Indices
<1>3. ASSUME NEW j \in 1..n
      PROVE  Shape(longer, j, bs[j].kind) /\ Picked(DeltaPick(j, bs[j].kind), longer) = bs[j].text
  <2>1. Shape(o, j, bs[j].kind) /\ Picked(DeltaPick(j, bs[j].kind), o) = bs[j].text
    BY DEF Rendered
  <2>2. CASE j = i
    <3>1. Where(o, "stop", i) = {}
      BY <1>1 DEF Closed
    <3>2. Shape(longer, i, bs[i].kind)
      BY <2>1, <2>2, <3>1, ShapeStop
    <3>3. Picked(DeltaPick(i, bs[i].kind), longer) = bs[i].text
      BY <2>1, <2>2, Unrelated
    <3>4. QED
      BY <2>2, <3>2, <3>3
  <2>3. CASE j # i
    BY <2>1, <2>3, ShapeOther, Unrelated
  <2>4. QED
    BY <2>2, <2>3
<1>4. Closed(longer) = Closed(o) \cup {i}
  <2>1. ASSUME NEW j \in Nat
        PROVE  j \in Closed(longer) <=> j \in Closed(o) \/ j = i
    <3>1. CASE j = i
      <4>1. Where(longer, "stop", i) = Where(o, "stop", i) \cup {Len(o) + 1}
        BY WhereNew
      <4>2. QED
        BY <3>1, <4>1 DEF Closed
    <3>2. CASE j # i
      <4>1. Where(longer, "stop", j) = Where(o, "stop", j)
        BY <3>2, WhereSame
      <4>2. QED
        BY <3>2, <4>1 DEF Closed
    <3>3. QED
      BY <3>1, <3>2
  <2>2. Closed(longer) \subseteq Nat /\ Closed(o) \subseteq Nat
    BY DEF Closed
  <2>3. QED
    BY <1>1, <2>1, <2>2
<1> HIDE DEF longer
<1>5. QED
  BY <1>2, <1>3, <1>4 DEF Rendered, longer

LEMMA RenderEnd ==
    ASSUME NEW o \in Seq(Event), NEW bs \in Seq(Made), Rendered(o, bs), NEW e \in Event,
           e.type = "message_stop", e.index = 0
    PROVE  Rendered(Append(o, e), bs) /\ Closed(Append(o, e)) = Closed(o)
<1> DEFINE n == Len(bs)
           longer == Append(o, e)
<1>1. n \in Nat
  BY LenProperties
<1>2. \A m \in DOMAIN longer : /\ longer[m].index \in 0..n
                               /\ (longer[m].index = 0 <=> longer[m].type = "message_stop")
  <2>1. e.index \in 0..n /\ (e.index = 0 <=> e.type = "message_stop")
    BY <1>1
  <2>2. \A m \in DOMAIN o : /\ o[m].index \in 0..n
                            /\ (o[m].index = 0 <=> o[m].type = "message_stop")
    BY DEF Rendered
  <2>3. QED
    BY <1>1, <2>1, <2>2, Indices
<1>3. ASSUME NEW j \in 1..n
      PROVE  Shape(longer, j, bs[j].kind) /\ Picked(DeltaPick(j, bs[j].kind), longer) = bs[j].text
  <2>1. Shape(o, j, bs[j].kind) /\ Picked(DeltaPick(j, bs[j].kind), o) = bs[j].text
    BY DEF Rendered
  <2>2. e.index # j
    OBVIOUS
  <2>3. QED
    BY <2>1, <2>2, ShapeOther, Unrelated
<1> HIDE DEF longer
<1>4. QED
  BY <1>2, <1>3, StaysOpen DEF Rendered, longer

-----------------------------------------------------------------------------
(***************************************************************************)
(* Indices in their order.                                                 *)
(***************************************************************************)
LEMMA RankGrows ==
    ASSUME NEW S \in SUBSET Nat, IsFiniteSet(S)
    PROVE  /\ \A i \in S : Rank(i, S) \in 0..(Cardinality(S) - 1)
           /\ \A i, j \in S : i < j => Rank(i, S) < Rank(j, S)
<1> DEFINE Below(i) == {j \in S : j < i}
<1>1. ASSUME NEW U \in SUBSET S, NEW V \in SUBSET U, V # U
      PROVE  Cardinality(V) \in Nat /\ Cardinality(U) \in Nat /\ Cardinality(V) < Cardinality(U)
  <2>1. IsFiniteSet(U)
    BY FS_Subset
  <2>2. /\ IsFiniteSet(V) /\ Cardinality(V) <= Cardinality(U)
        /\ (Cardinality(U) = Cardinality(V) => U = V)
    BY <2>1, FS_Subset
  <2>3. Cardinality(U) \in Nat /\ Cardinality(V) \in Nat
    BY <2>1, <2>2, FS_CardinalityType
  <2>4. QED
    BY <1>1, <2>2, <2>3
<1>2. ASSUME NEW i \in S PROVE Rank(i, S) \in 0..(Cardinality(S) - 1)
  <2>1. Below(i) \in SUBSET S /\ Below(i) # S
    OBVIOUS
  <2> HIDE DEF Below
  <2>2. /\ Cardinality(Below(i)) \in Nat /\ Cardinality(S) \in Nat
        /\ Cardinality(Below(i)) < Cardinality(S)
    BY <1>1, <2>1
  <2>3. QED
    BY <2>2 DEF Rank, Below
<1>3. ASSUME NEW i \in S, NEW j \in S, i < j PROVE Rank(i, S) < Rank(j, S)
  <2>1. Below(j) \in SUBSET S /\ Below(i) \in SUBSET Below(j)
    <3>1. \A x \in S : x < i => x < j
      BY <1>3
    <3>2. QED
      BY <3>1
  <2>2. i \in Below(j) /\ i \notin Below(i)
    BY <1>3
  <2> HIDE DEF Below
  <2>3. Cardinality(Below(i)) < Cardinality(Below(j))
    BY <1>1, <2>1, <2>2
  <2>4. QED
    BY <2>3 DEF Rank, Below
<1>4. QED
  BY <1>2, <1>3

\* InOrder lists a set, each element once.
LEMMA OrderOK ==
    ASSUME NEW S \in SUBSET Nat, IsFiniteSet(S)
    PROVE  /\ InOrder(S) \in Seq(S) /\ Len(InOrder(S)) = Cardinality(S)
           /\ \A a, b \in DOMAIN InOrder(S) : InOrder(S)[a] = InOrder(S)[b] => a = b
           /\ {InOrder(S)[a] : a \in DOMAIN InOrder(S)} = S
<1> DEFINE c == Cardinality(S)
           T == 1..c
           f == [i \in S |-> Rank(i, S) + 1]
           g == [n \in 1..c |-> CHOOSE i \in S : Rank(i, S) = n - 1]
<1>1. c \in Nat /\ IsFiniteSet(T) /\ Cardinality(T) = c
  BY FS_CardinalityType, FS_Interval
<1>2. /\ \A i \in S : Rank(i, S) \in 0..(c - 1)
      /\ \A i, j \in S : i < j => Rank(i, S) < Rank(j, S)
  BY RankGrows
<1>3. \A i, j \in S : Rank(i, S) = Rank(j, S) => i = j
  BY <1>1, <1>2
<1> HIDE DEF c
<1>4. f \in Injection(S, T)
  <2>1. f \in [S -> T]
    BY <1>1, <1>2
  <2>2. \A i, j \in S : f[i] = f[j] => i = j
    BY <1>1, <1>2, <1>3
  <2> HIDE DEF f, T
  <2>3. QED
    BY <2>1, <2>2 DEF Injection, IsInjective
<1>5. f \in Surjection(S, T)
  <2> HIDE DEF f, T
  <2>1. QED
    BY <1>1, <1>4, FS_Injection DEF c
<1>6. \A n \in 1..c : \E i \in S : Rank(i, S) = n - 1
  <2>1. \A n \in T : \E i \in S : f[i] = n
    BY <1>5 DEF Surjection
  <2> SUFFICES ASSUME NEW n \in 1..c PROVE \E i \in S : Rank(i, S) = n - 1
    OBVIOUS
  <2>2. PICK i \in S : f[i] = n
    BY <2>1
  <2>3. Rank(i, S) + 1 = n /\ Rank(i, S) \in Int
    BY <1>1, <1>2, <2>2
  <2>4. QED
    BY <1>1, <2>3
<1>7. \A n \in 1..c : g[n] \in S /\ Rank(g[n], S) = n - 1
  BY <1>6
<1>8. g \in Seq(S) /\ Len(g) = c /\ DOMAIN g = 1..c
  BY <1>1, <1>7
<1>9. InOrder(S) = g
  BY DEF InOrder, c
<1> HIDE DEF g
<1>10. \A a, b \in 1..c : g[a] = g[b] => a = b
  BY <1>1, <1>7
<1>11. \A i \in S : \E n \in 1..c : g[n] = i
  <2> SUFFICES ASSUME NEW i \in S PROVE \E n \in 1..c : g[n] = i
    OBVIOUS
  <2>1. Rank(i, S) + 1 \in 1..c
    BY <1>1, <1>2
  <2>2. Rank(g[Rank(i, S) + 1], S) = Rank(i, S) /\ g[Rank(i, S) + 1] \in S
    BY <1>1, <1>2, <1>7, <2>1
  <2>3. QED
    BY <1>3, <2>1, <2>2
<1>12. QED
  BY <1>7, <1>8, <1>9, <1>10, <1>11 DEF c

LEMMA OrderOfAll ==
    ASSUME NEW n \in Nat
    PROVE  InOrder(1..n) = [i \in 1..n |-> i]
<1> DEFINE S == 1..n
<1>1. IsFiniteSet(S) /\ Cardinality(S) = n
  BY FS_Interval
<1>2. ASSUME NEW i \in S PROVE Rank(i, S) = i - 1
  <2>1. {j \in S : j < i} = 1..(i - 1)
    OBVIOUS
  <2>2. Cardinality(1..(i - 1)) = i - 1
    BY FS_Interval
  <2>3. QED
    BY <2>1, <2>2 DEF Rank
<1>3. ASSUME NEW k \in 1..n PROVE (CHOOSE i \in S : Rank(i, S) = k - 1) = k
  <2>1. \A i \in S : Rank(i, S) = k - 1 <=> i = k
    BY <1>2
  <2>2. k \in S
    OBVIOUS
  <2> HIDE DEF S
  <2>3. QED
    BY <2>1, <2>2
<1>4. QED
  BY <1>1, <1>3 DEF InOrder

\* The stops of blocks that are open, each once.
StopOf(bs, i) == [type |-> "stop", index |-> i, kind |-> bs[i].kind, text |-> <<>>]
Stops(bs, q) == [n \in DOMAIN q |-> StopOf(bs, q[n])]
Once(q) == \A a, b \in DOMAIN q : q[a] = q[b] => a = b
Members(q) == {q[a] : a \in DOMAIN q}

LEMMA StopOK ==
    ASSUME NEW bs \in Seq(Made), NEW i \in 1..Len(bs)
    PROVE  StopOf(bs, i) \in Event /\ StopOf(bs, i).type = "stop" /\ StopOf(bs, i).index = i
<1>1. bs[i] \in Made /\ i \in Nat
  BY ElementOfSeq, LenProperties
<1>2. bs[i].kind \in Kind /\ <<>> \in Seq(Token)
  BY <1>1, EmptySeq DEF Made
<1>3. QED
  BY <1>1, <1>2 DEF StopOf, Event

LEMMA StopsAppend ==
    ASSUME NEW bs \in Seq(Made), NEW q \in Seq(1..Len(bs)), NEW x \in 1..Len(bs)
    PROVE  /\ Stops(bs, q) \in Seq(Event)
           /\ Stops(bs, Append(q, x)) = Append(Stops(bs, q), StopOf(bs, x))
<1> DEFINE longer == Append(q, x)
           n == Len(q)
           K == 1..Len(bs)
<1>1. /\ longer \in Seq(K) /\ n \in Nat /\ Len(longer) = n + 1 /\ longer[n + 1] = x
      /\ \A a \in 1..n : longer[a] = q[a]
      /\ DOMAIN q = 1..n /\ DOMAIN longer = 1..Len(longer)
  BY AppendProperties, LenProperties
<1>2. \A a \in 1..n : q[a] \in K
  BY <1>1, ElementOfSeq
<1> HIDE DEF longer, n
<1> DEFINE s == [a \in DOMAIN q |-> StopOf(bs, q[a])]
           t == [a \in DOMAIN longer |-> StopOf(bs, longer[a])]
           e == StopOf(bs, x)
<1>3. e \in Event /\ \A a \in 1..n : StopOf(bs, q[a]) \in Event
  BY <1>2, StopOK
<1>4. \A a \in 1..(n + 1) : StopOf(bs, longer[a]) \in Event
  <2>1. ASSUME NEW a \in 1..(n + 1) PROVE longer[a] \in K
    BY <1>1, ElementOfSeq
  <2>2. QED
    BY <2>1, StopOK
<1>5. s \in Seq(Event) /\ Len(s) = n /\ \A a \in 1..n : s[a] = StopOf(bs, q[a])
  BY <1>1, <1>3
<1>6. t \in Seq(Event) /\ Len(t) = n + 1 /\ t[n + 1] = e
      /\ \A a \in 1..n : t[a] = StopOf(bs, q[a])
  BY <1>1, <1>4
<1> HIDE DEF s, t, e
<1> DEFINE u == Append(s, e)
<1>7. u \in Seq(Event) /\ Len(u) = n + 1 /\ u[n + 1] = e /\ \A a \in 1..n : u[a] = s[a]
  BY <1>3, <1>5, AppendProperties
<1> HIDE DEF u
<1>8. ASSUME NEW a \in 1..Len(t) PROVE t[a] = u[a]
  <2>1. CASE a = n + 1
    BY <1>6, <1>7, <2>1
  <2>2. CASE a # n + 1
    <3>1. a \in 1..n
      BY <1>1, <1>6, <2>2
    <3>2. QED
      BY <1>5, <1>6, <1>7, <3>1
  <2>3. QED
    BY <2>1, <2>2
<1>9. t = u
  BY <1>6, <1>7, <1>8, SeqEqual
<1>10. QED
  BY <1>5, <1>9 DEF Stops, s, t, e, u, longer

LEMMA RenderStops ==
    ASSUME NEW bs \in Seq(Made), NEW o \in Seq(Event), Rendered(o, bs)
    PROVE  \A q \in Seq(1..Len(bs)) :
             Once(q) /\ Members(q) \cap Closed(o) = {}
             => /\ Stops(bs, q) \in Seq(Event) /\ o \o Stops(bs, q) \in Seq(Event)
                /\ Rendered(o \o Stops(bs, q), bs)
                /\ Closed(o \o Stops(bs, q)) = Closed(o) \cup Members(q)
<1> DEFINE B == 1..Len(bs)
           May(q) == Once(q) /\ Members(q) \cap Closed(o) = {}
           Does(q) == /\ Stops(bs, q) \in Seq(Event) /\ o \o Stops(bs, q) \in Seq(Event)
                      /\ Rendered(o \o Stops(bs, q), bs)
                      /\ Closed(o \o Stops(bs, q)) = Closed(o) \cup Members(q)
           K == {q \in Seq(B) : May(q) => Does(q)}
<1>1. <<>> \in K
  <2>1. Stops(bs, <<>>) = <<>> /\ Members(<<>>) = {}
    BY DEF Stops, Members
  <2>2. <<>> \in Seq(Event) /\ <<>> \in Seq(B) /\ o \o <<>> = o
    BY EmptySeq, ConcatEmptySeq
  <2>3. QED
    BY <2>1, <2>2
<1>2. ASSUME NEW g \in Seq(B), NEW x \in B, g \in K PROVE Append(g, x) \in K
  <2> DEFINE longer == Append(g, x)
             n == Len(g)
  <2>1. /\ longer \in Seq(B) /\ n \in Nat /\ Len(longer) = n + 1 /\ longer[n + 1] = x
        /\ \A a \in 1..n : longer[a] = g[a]
        /\ DOMAIN g = 1..n /\ DOMAIN longer = 1..Len(longer)
    BY AppendProperties, LenProperties
  <2> HIDE DEF longer, n
  <2>2. SUFFICES ASSUME May(longer) PROVE Does(longer)
    BY <2>1 DEF longer
  <2>3. Members(longer) = Members(g) \cup {x}
    <3>1. ASSUME NEW a \in 1..(n + 1) PROVE (a \in 1..n /\ longer[a] = g[a]) \/ longer[a] = x
      BY <2>1
    <3>2. n + 1 \in 1..(n + 1) /\ \A a \in 1..n : a \in 1..(n + 1)
      BY <2>1
    <3>3. Members(longer) \subseteq Members(g) \cup {x}
      BY <2>1, <3>1 DEF Members
    <3>4. Members(g) \cup {x} \subseteq Members(longer)
      BY <2>1, <3>2 DEF Members
    <3>5. QED
      BY <3>3, <3>4
  <2>4. May(g) /\ x \notin Members(g) /\ x \notin Closed(o)
    <3>1. \A a \in 1..n : g[a] # x
      <4>1. ASSUME NEW a \in 1..n PROVE longer[a] # longer[n + 1]
        <5>1. a \in DOMAIN longer /\ n + 1 \in DOMAIN longer /\ a # n + 1
          BY <2>1
        <5>2. QED
          BY <2>2, <5>1 DEF Once
      <4>2. QED
        BY <2>1, <4>1
    <3>2. Once(g)
      <4>1. \A a \in 1..n : a \in DOMAIN longer
        BY <2>1
      <4>2. ASSUME NEW a \in 1..n, NEW b \in 1..n, g[a] = g[b] PROVE a = b
        <5>1. longer[a] = longer[b]
          BY <2>1, <4>2
        <5>2. QED
          BY <2>2, <4>1, <5>1 DEF Once
      <4>3. QED
        BY <2>1, <4>2 DEF Once
    <3>3. Members(g) \cap Closed(o) = {} /\ x \notin Closed(o)
      BY <2>2, <2>3
    <3>4. QED
      BY <2>1, <3>1, <3>2, <3>3 DEF Members
  <2> DEFINE s == Stops(bs, g)
             os == o \o s
             e == StopOf(bs, x)
  <2>5. /\ s \in Seq(Event) /\ os \in Seq(Event) /\ Rendered(os, bs)
        /\ Closed(os) = Closed(o) \cup Members(g)
    BY <1>2, <2>4
  <2>6. e \in Event /\ e.type = "stop" /\ e.index = x
    BY StopOK
  <2>7. Stops(bs, longer) = Append(s, e)
    BY StopsAppend DEF longer
  <2> HIDE DEF s, e
  <2>8. o \o Append(s, e) = Append(os, e)
    BY <2>5, <2>6, Data!ConcatAppend
  <2>9. x \notin Closed(os)
    BY <2>4, <2>5
  <2> HIDE DEF os
  <2>10. Rendered(Append(os, e), bs) /\ Closed(Append(os, e)) = Closed(os) \cup {x}
    BY <2>5, <2>6, <2>9, RenderStop
  <2>11. Append(s, e) \in Seq(Event) /\ Append(os, e) \in Seq(Event)
    BY <2>5, <2>6, AppendProperties
  <2>12. QED
    BY <2>3, <2>5, <2>7, <2>8, <2>10, <2>11
<1>3. Seq(B) \subseteq K
  <2> HIDE DEF K, B
  <2>1. \A q \in Seq(B) : \A x \in B : q \in K => Append(q, x) \in K
    BY <1>2
  <2>2. QED
    BY <1>1, <2>1, Data!InductiveSeqs
<1>4. QED
  BY <1>3

-----------------------------------------------------------------------------
(***************************************************************************)
(* What the consumer rebuilds.                                             *)
(***************************************************************************)
LEMMA RebuildIs ==
    ASSUME out \in Seq(Event), blocks \in Seq(Made), Rendered(out, blocks)
    PROVE  Rebuild = blocks
<1> DEFINE N == Len(blocks)
           started(i) == CHOOSE n \in DOMAIN out : out[n].type = "start" /\ out[n].index = i
           kindOf(i) == out[started(i)].kind
           picked(i) == FlattenSeq([n \in DOMAIN out |->
                          IF out[n].type = "delta" /\ out[n].index = i /\ out[n].kind = kindOf(i)
                          THEN out[n].text ELSE <<>>])
           order == InOrder(IndicesOf("start"))
<1>1. N \in Nat /\ DOMAIN blocks = 1..N /\ \A i \in 1..N : blocks[i] \in Made
  BY LenProperties, ElementOfSeq
<1>2. \A n \in DOMAIN out : out[n] \in Event
  BY LenProperties, ElementOfSeq
<1>3. ASSUME NEW i \in 1..N
      PROVE  started(i) \in DOMAIN out /\ out[started(i)].index = i
             /\ out[started(i)].type = "start" /\ kindOf(i) = blocks[i].kind
  <2>1. PICK s \in Where(out, "start", i) :
          Where(out, "start", i) = {s} /\ out[s].kind = blocks[i].kind
    BY DEF Rendered, Shape
  <2>2. \A n \in DOMAIN out : out[n].type = "start" /\ out[n].index = i => n = s
    BY <2>1 DEF Where
  <2>3. s \in DOMAIN out /\ out[s].type = "start" /\ out[s].index = i
    BY <2>1 DEF Where
  <2>4. started(i) = s
    BY <2>2, <2>3
  <2> HIDE DEF started
  <2>5. QED
    BY <2>1, <2>3, <2>4
<1>4. IndicesOf("start") = 1..N
  <2>1. \A i \in 1..N : i \in IndicesOf("start")
    <3> HIDE DEF started
    <3>1. QED
      BY <1>3 DEF IndicesOf
  <2>2. ASSUME NEW n \in DOMAIN out, out[n].type = "start" PROVE out[n].index \in 1..N
    <3>1. out[n].index \in 0..N /\ (out[n].index = 0 <=> out[n].type = "message_stop")
      BY DEF Rendered
    <3>2. QED
      BY <1>1, <2>2, <3>1
  <2>3. QED
    BY <2>1, <2>2 DEF IndicesOf
<1> HIDE DEF started
<1>5. order = [i \in 1..N |-> i]
  BY <1>1, <1>4, OrderOfAll
<1>6. ASSUME NEW i \in 1..N PROVE picked(i) = blocks[i].text
  <2> DEFINE f == DeltaPick(i, blocks[i].kind)
  <2>1. kindOf(i) = blocks[i].kind
    BY <1>3
  <2>2. ASSUME NEW n \in DOMAIN out
        PROVE  f[out[n]] =
                 IF out[n].type = "delta" /\ out[n].index = i /\ out[n].kind = kindOf(i)
                 THEN out[n].text ELSE <<>>
    BY <1>2, <2>1 DEF DeltaPick
  <2> HIDE DEF f, kindOf
  <2>3. picked(i) = Picked(f, out)
    BY <2>2 DEF Picked, Picks
  <2>4. Picked(f, out) = blocks[i].text
    BY DEF f, Rendered
  <2>5. QED
    BY <2>3, <2>4
<1>7. Rebuild = [n \in DOMAIN order |-> [kind |-> kindOf(order[n]), text |-> picked(order[n])]]
  BY DEF Rebuild, TextWhere, started
<1> HIDE DEF kindOf, picked, order
<1>8. DOMAIN order = 1..N /\ \A n \in 1..N : order[n] = n
  BY <1>5
<1>9. ASSUME NEW n \in 1..N
      PROVE  [kind |-> kindOf(order[n]), text |-> picked(order[n])] = blocks[n]
  <2>1. kindOf(order[n]) = blocks[n].kind /\ picked(order[n]) = blocks[n].text
    BY <1>3, <1>6, <1>8
  <2>2. blocks[n] = [kind |-> blocks[n].kind, text |-> blocks[n].text]
    BY <1>1 DEF Made
  <2>3. QED
    BY <2>1, <2>2
<1>10. blocks = [n \in 1..N |-> blocks[n]]
  BY <1>1
<1>11. QED
  BY <1>7, <1>8, <1>9, <1>10

-----------------------------------------------------------------------------
(***************************************************************************)
(* The inductive invariant.                                                *)
(***************************************************************************)
MadePick(k) == [b \in Made |-> IF b.kind = k THEN b.text ELSE <<>>]
PiecePick(k) == [p \in SentPiece |-> IF p.kind = k THEN p.text ELSE <<>>]
CallPick(c) ==
    [p \in SentPiece |-> IF p.kind = "tool_use" /\ p.call = c THEN p.text ELSE <<>>]

Typed ==
    /\ provider \in Provider
    /\ blocks \in Seq(Made)
    /\ openByKind \in [TextKind -> 0..Len(blocks)]
    /\ toolAt \in [Position -> 0..Len(blocks)]
    /\ out \in Seq(Event)
    /\ fired \subseteq Rule
    /\ hints \in [Rule -> Nat]
    /\ ended \in BOOLEAN
    /\ sent \in Seq(SentPiece)

\* Which blocks are open, and where the wrappers find them.
Open ==
    /\ provider # "anthropic" => \A k \in TextKind : \A i \in 1..Len(blocks) :
         blocks[i].kind = k <=> openByKind[k] = i
    /\ provider = "anthropic" => \A k \in TextKind : openByKind[k] = 0
    /\ provider # "openai" => \A pos \in Position : toolAt[pos] = 0
    /\ provider = "openai" =>
         /\ \A pos \in Position : toolAt[pos] # 0 => blocks[toolAt[pos]].kind = "tool_use"
         /\ \A i \in 1..Len(blocks) : blocks[i].kind = "tool_use" =>
              \E pos \in Position : toolAt[pos] = i
         /\ \A p, q \in Position : toolAt[p] = toolAt[q] /\ toolAt[p] # 0 => p = q

Stopped ==
    /\ Closed(out) \subseteq 1..Len(blocks)
    /\ provider = "anthropic" =>
         \A i \in 1..Len(blocks) : i # Len(blocks) => i \in Closed(out)
    /\ provider = "gemini" =>
         \A i \in 1..Len(blocks) : blocks[i].kind = "tool_use" => i \in Closed(out)
    /\ provider # "anthropic" /\ ~ended =>
         \A i \in Closed(out) : blocks[i].kind = "tool_use" /\ provider = "gemini"
    /\ ended => 1..Len(blocks) \subseteq Closed(out)

\* What was sent is what the blocks hold.
SameTexts(sn, bs) == \A k \in TextKind : Picked(PiecePick(k), sn) = Picked(MadePick(k), bs)
Carried ==
    /\ SameTexts(sent, blocks)
    /\ provider # "openai" =>
         /\ \A i \in 1..Len(blocks) : blocks[i].kind = "tool_use" =>
              Picked(CallPick(i), sent) = blocks[i].text
         /\ \A n \in DOMAIN sent : sent[n].kind = "tool_use" =>
              sent[n].call \in 1..Len(blocks) /\ blocks[sent[n].call].kind = "tool_use"
    /\ provider = "openai" =>
         /\ \A pos \in Position : toolAt[pos] # 0 =>
              Picked(CallPick(pos), sent) = blocks[toolAt[pos]].text
         /\ \A n \in DOMAIN sent : sent[n].kind = "tool_use" =>
              sent[n].call \in Position /\ toolAt[sent[n].call] # 0

Heard ==
    \A i \in 1..Len(blocks) : blocks[i].kind = "thinking" =>
        \A r \in Rule : Found(r, blocks[i].text) => r \in fired

Stored ==
    ended /\ provider # "gemini" => finished = TextsOf(Kept(blocks, IsThinking))

Inv ==
    /\ Typed
    /\ Rendered(out, blocks)
    /\ Open
    /\ Stopped
    /\ Carried
    /\ Heard
    /\ OneHintPerRule
    /\ Stored

-----------------------------------------------------------------------------
(***************************************************************************)
(* Texts sent and texts made.                                              *)
(***************************************************************************)
LEMMA PickTypes ==
    /\ \A k : MadePick(k) \in [Made -> Seq(Token)] /\ PiecePick(k) \in [SentPiece -> Seq(Token)]
    /\ \A c : CallPick(c) \in [SentPiece -> Seq(Token)]
<1>1. <<>> \in Seq(Token)
  BY EmptySeq
<1>2. \A b \in Made : b.text \in Seq(Token)
  BY DEF Made
<1>3. \A p \in SentPiece : p.text \in Seq(Token)
  BY DEF SentPiece
<1>4. \A k : MadePick(k) \in [Made -> Seq(Token)]
  BY <1>1, <1>2 DEF MadePick
<1>5. \A k : PiecePick(k) \in [SentPiece -> Seq(Token)]
  BY <1>1, <1>3 DEF PiecePick
<1>6. \A c : CallPick(c) \in [SentPiece -> Seq(Token)]
  BY <1>1, <1>3 DEF CallPick
<1>7. QED
  BY <1>4, <1>5, <1>6

\* A piece, among the texts of a kind.
LEMMA SentMore ==
    ASSUME NEW sn \in Seq(SentPiece), NEW p \in SentPiece, NEW k
    PROVE  /\ p.kind = k => Picked(PiecePick(k), Append(sn, p)) = Picked(PiecePick(k), sn) \o p.text
           /\ p.kind # k => Picked(PiecePick(k), Append(sn, p)) = Picked(PiecePick(k), sn)
<1> DEFINE f == PiecePick(k)
<1>1. f \in [SentPiece -> Seq(Token)]
  BY PickTypes
<1>2. (p.kind = k => f[p] = p.text) /\ (p.kind # k => f[p] = <<>>)
  BY DEF PiecePick
<1> HIDE DEF f
<1>3. Picked(f, Append(sn, p)) = Picked(f, sn) \o f[p]
  BY <1>1, PickedAppend
<1>4. p.kind # k => Picked(f, Append(sn, p)) = Picked(f, sn)
  BY <1>1, <1>2, PickedNothing
<1>5. QED
  BY <1>2, <1>3, <1>4 DEF f

LEMMA MadeMore ==
    ASSUME NEW bs \in Seq(Made), NEW b \in Made, NEW k
    PROVE  /\ b.kind = k => Picked(MadePick(k), Append(bs, b)) = Picked(MadePick(k), bs) \o b.text
           /\ b.kind # k \/ b.text = <<>> =>
                Picked(MadePick(k), Append(bs, b)) = Picked(MadePick(k), bs)
<1> DEFINE f == MadePick(k)
<1>1. f \in [Made -> Seq(Token)]
  BY PickTypes
<1>2. (b.kind = k => f[b] = b.text) /\ (b.kind # k \/ b.text = <<>> => f[b] = <<>>)
  BY DEF MadePick
<1> HIDE DEF f
<1>3. Picked(f, Append(bs, b)) = Picked(f, bs) \o f[b]
  BY <1>1, PickedAppend
<1>4. b.kind # k \/ b.text = <<>> => Picked(f, Append(bs, b)) = Picked(f, bs)
  BY <1>1, <1>2, PickedNothing
<1>5. QED
  BY <1>2, <1>3, <1>4 DEF f

LEMMA MadeLonger ==
    ASSUME NEW bs \in Seq(Made), NEW i \in 1..Len(bs), NEW t \in Seq(Token), NEW k
    PROVE  /\ bs[i].kind = k /\ (\A j \in 1..Len(bs) : i < j => bs[j].kind # k) =>
                Picked(MadePick(k), Extended(bs, i, t)) = Picked(MadePick(k), bs) \o t
           /\ bs[i].kind # k =>
                Picked(MadePick(k), Extended(bs, i, t)) = Picked(MadePick(k), bs)
<1> DEFINE f == MadePick(k)
           b == Lengthened(bs[i], t)
<1>1. f \in [Made -> Seq(Token)]
  BY PickTypes
<1>2. bs[i] \in Made /\ \A j \in 1..Len(bs) : bs[j] \in Made
  BY ElementOfSeq
<1>3. b \in Made /\ b.kind = bs[i].kind /\ b.text = bs[i].text \o t
  BY <1>2, Grown
<1>4. Extended(bs, i, t) = Swapped(bs, i, b)
  BY Longer
<1> HIDE DEF b
<1>5. ASSUME bs[i].kind = k, \A j \in 1..Len(bs) : i < j => bs[j].kind # k
      PROVE  Picked(f, Extended(bs, i, t)) = Picked(f, bs) \o t
  <2>1. f[b] = f[bs[i]] \o t
    BY <1>2, <1>3, <1>5 DEF MadePick
  <2>2. \A j \in 1..Len(bs) : i < j => f[bs[j]] = <<>>
    BY <1>2, <1>5 DEF MadePick
  <2> HIDE DEF f
  <2>3. Picked(f, Swapped(bs, i, b)) = Picked(f, bs) \o t
    BY <1>1, <1>3, <2>1, <2>2, PickedExtend
  <2>4. QED
    BY <1>4, <2>3
<1>6. ASSUME bs[i].kind # k PROVE Picked(f, Extended(bs, i, t)) = Picked(f, bs)
  <2>1. f[b] = f[bs[i]]
    BY <1>2, <1>3, <1>6 DEF MadePick
  <2> HIDE DEF f
  <2>2. Picked(f, Swapped(bs, i, b)) = Picked(f, bs)
    BY <1>1, <1>3, <2>1, PickedReplace
  <2>3. QED
    BY <1>4, <2>2
<1>7. QED
  BY <1>5, <1>6

LEMMA TextsEmpty ==
    ASSUME NEW sn \in Seq(SentPiece), NEW bs \in Seq(Made), SameTexts(sn, bs),
           NEW b \in Made, b.text = <<>>
    PROVE  SameTexts(sn, Append(bs, b))
BY MadeMore DEF SameTexts

LEMMA TextsNew ==
    ASSUME NEW sn \in Seq(SentPiece), NEW bs \in Seq(Made), SameTexts(sn, bs),
           NEW p \in SentPiece, NEW b \in Made, b.kind = p.kind, b.text = p.text
    PROVE  SameTexts(Append(sn, p), Append(bs, b))
<1> SUFFICES ASSUME NEW k \in TextKind
             PROVE  Picked(PiecePick(k), Append(sn, p)) = Picked(MadePick(k), Append(bs, b))
  BY DEF SameTexts
<1>1. Picked(PiecePick(k), sn) = Picked(MadePick(k), bs)
  BY DEF SameTexts
<1>2. CASE p.kind = k
  <2>1. Picked(PiecePick(k), Append(sn, p)) = Picked(PiecePick(k), sn) \o p.text
    BY <1>2, SentMore
  <2>2. Picked(MadePick(k), Append(bs, b)) = Picked(MadePick(k), bs) \o b.text
    BY <1>2, MadeMore
  <2>3. QED
    BY <1>1, <2>1, <2>2
<1>3. CASE p.kind # k
  <2>1. Picked(PiecePick(k), Append(sn, p)) = Picked(PiecePick(k), sn)
    BY <1>3, SentMore
  <2>2. Picked(MadePick(k), Append(bs, b)) = Picked(MadePick(k), bs)
    BY <1>3, MadeMore
  <2>3. QED
    BY <1>1, <2>1, <2>2
<1>4. QED
  BY <1>2, <1>3

LEMMA TextsLonger ==
    ASSUME NEW sn \in Seq(SentPiece), NEW bs \in Seq(Made), SameTexts(sn, bs),
           NEW p \in SentPiece, NEW i \in 1..Len(bs), bs[i].kind = p.kind,
           p.kind \in TextKind => \A j \in 1..Len(bs) : i < j => bs[j].kind # p.kind
    PROVE  SameTexts(Append(sn, p), Extended(bs, i, p.text))
<1> SUFFICES ASSUME NEW k \in TextKind
             PROVE  Picked(PiecePick(k), Append(sn, p)) = Picked(MadePick(k), Extended(bs, i, p.text))
  BY DEF SameTexts
<1>1. Picked(PiecePick(k), sn) = Picked(MadePick(k), bs) /\ p.text \in Seq(Token)
  BY DEF SameTexts, SentPiece
<1>2. CASE p.kind = k
  <2>1. Picked(PiecePick(k), Append(sn, p)) = Picked(PiecePick(k), sn) \o p.text
    BY <1>2, SentMore
  <2>2. Picked(MadePick(k), Extended(bs, i, p.text)) = Picked(MadePick(k), bs) \o p.text
    BY <1>1, <1>2, MadeLonger
  <2>3. QED
    BY <1>1, <2>1, <2>2
<1>3. CASE p.kind # k
  <2>1. Picked(PiecePick(k), Append(sn, p)) = Picked(PiecePick(k), sn)
    BY <1>3, SentMore
  <2>2. Picked(MadePick(k), Extended(bs, i, p.text)) = Picked(MadePick(k), bs)
    BY <1>1, <1>3, MadeLonger
  <2>3. QED
    BY <1>1, <2>1, <2>2
<1>4. QED
  BY <1>2, <1>3

\* A piece, among the arguments of a call.
LEMMA CallMore ==
    ASSUME NEW sn \in Seq(SentPiece), NEW p \in SentPiece, NEW c
    PROVE  /\ p.kind = "tool_use" /\ p.call = c =>
                Picked(CallPick(c), Append(sn, p)) = Picked(CallPick(c), sn) \o p.text
           /\ p.kind # "tool_use" \/ p.call # c =>
                Picked(CallPick(c), Append(sn, p)) = Picked(CallPick(c), sn)
<1> DEFINE f == CallPick(c)
<1>1. f \in [SentPiece -> Seq(Token)]
  BY PickTypes
<1>2. /\ (p.kind = "tool_use" /\ p.call = c => f[p] = p.text)
      /\ (p.kind # "tool_use" \/ p.call # c => f[p] = <<>>)
  BY DEF CallPick
<1> HIDE DEF f
<1>3. Picked(f, Append(sn, p)) = Picked(f, sn) \o f[p]
  BY <1>1, PickedAppend
<1>4. p.kind # "tool_use" \/ p.call # c => Picked(f, Append(sn, p)) = Picked(f, sn)
  BY <1>1, <1>2, PickedNothing
<1>5. QED
  BY <1>2, <1>3, <1>4 DEF f

LEMMA CallNone ==
    ASSUME NEW sn \in Seq(SentPiece), NEW c,
           \A n \in DOMAIN sn : sn[n].kind = "tool_use" => sn[n].call # c
    PROVE  Picked(CallPick(c), sn) = <<>>
<1> DEFINE f == CallPick(c)
<1>1. f \in [SentPiece -> Seq(Token)]
  BY PickTypes
<1>2. \A n \in DOMAIN sn : sn[n] \in SentPiece
  BY LenProperties, ElementOfSeq
<1>3. \A n \in DOMAIN sn : f[sn[n]] = <<>>
  BY <1>2 DEF CallPick
<1> HIDE DEF f
<1>4. Picked(f, sn) = <<>>
  BY <1>1, <1>3, PickedNone
<1>5. QED
  BY <1>4 DEF f

-----------------------------------------------------------------------------
(***************************************************************************)
(* Steps.                                                                  *)
(***************************************************************************)
LEMMA OpenIs ==
    ASSUME Typed, Rendered(out, blocks)
    PROVE  OpenBlocks = (1..Len(blocks)) \ Closed(out)
<1> DEFINE N == Len(blocks)
<1>1. N \in Nat
  BY LenProperties DEF Typed
<1>2. ASSUME NEW n \in DOMAIN out, out[n].type = "start" PROVE out[n].index \in 1..N
  <2>1. out[n].index \in 0..N /\ (out[n].index = 0 <=> out[n].type = "message_stop")
    BY DEF Rendered
  <2>2. QED
    BY <1>1, <1>2, <2>1
<1>3. ASSUME NEW i \in 1..N PROVE i \in IndicesOf("start")
  <2>1. Where(out, "start", i) # {}
    BY DEF Rendered, Shape
  <2>2. QED
    BY <2>1 DEF Where, IndicesOf
<1>4. \A i \in 1..N : i \in IndicesOf("stop") <=> i \in Closed(out)
  BY <1>1 DEF IndicesOf, Closed, Where
<1>5. IndicesOf("start") = 1..N
  BY <1>2, <1>3 DEF IndicesOf
<1>6. QED
  BY <1>4, <1>5 DEF OpenBlocks

LEMMA FireOK ==
    ASSUME Typed, OneHintPerRule, NEW k, NEW i, FireIfThinking(k, i)
    PROVE  /\ fired' \subseteq Rule /\ fired \subseteq fired' /\ hints' \in [Rule -> Nat]
           /\ OneHintPerRule'
           /\ k = "thinking" => \A r \in Rule : Found(r, blocks'[i].text) => r \in fired'
<1> DEFINE newly == {r \in Rule \ fired : Found(r, blocks'[i].text)}
           eager == {r \in newly : Len(Detected[r]) <= EagerLimit}
<1>1. CASE k # "thinking"
  <2>1. UNCHANGED <<fired, hints>>
    BY <1>1 DEF FireIfThinking
  <2>2. QED
    BY <1>1, <2>1 DEF Typed, OneHintPerRule
<1>2. CASE k = "thinking"
  <2>1. fired' = fired \cup newly /\ hints' = [r \in Rule |-> hints[r] + IF r \in eager THEN 1 ELSE 0]
    BY <1>2 DEF FireIfThinking, Fire
  <2>2. newly \subseteq Rule \ fired /\ \A r \in Rule : Found(r, blocks'[i].text) => r \in fired \cup newly
    OBVIOUS
  <2>3. \A r \in Rule : r \in eager <=> r \in newly /\ Len(Detected[r]) <= EagerLimit
    OBVIOUS
  <2> HIDE DEF newly, eager
  <2>4. hints \in [Rule -> Nat] /\ fired \subseteq Rule
    BY DEF Typed
  <2>5. hints' \in [Rule -> Nat]
    BY <2>1, <2>4
  <2>6. ASSUME NEW r \in Rule
        PROVE  hints'[r] = IF r \in fired' /\ Len(Detected[r]) <= EagerLimit THEN 1 ELSE 0
    <3>1. hints[r] = IF r \in fired /\ Len(Detected[r]) <= EagerLimit THEN 1 ELSE 0
      BY DEF OneHintPerRule
    <3>2. hints'[r] = hints[r] + IF r \in eager THEN 1 ELSE 0
      BY <2>1
    <3>3. CASE r \in eager
      BY <2>1, <2>2, <2>3, <3>1, <3>2, <3>3
    <3>4. CASE r \notin eager
      BY <2>1, <2>2, <2>3, <2>4, <3>1, <3>2, <3>4
    <3>5. QED
      BY <3>3, <3>4
  <2>7. QED
    BY <2>1, <2>2, <2>4, <2>5, <2>6 DEF OneHintPerRule
<1>3. QED
  BY <1>1, <1>2

LEMMA HeardStep ==
    ASSUME Heard, fired \subseteq fired', NEW i,
           \A j \in 1..Len(blocks') : j # i => j \in 1..Len(blocks) /\ blocks'[j] = blocks[j],
           i \in 1..Len(blocks') /\ blocks'[i].kind = "thinking" =>
             \A r \in Rule : Found(r, blocks'[i].text) => r \in fired'
    PROVE  Heard'
BY DEF Heard

LEMMA NothingMatches == \A r : ~Found(r, <<>>)
BY DEF Found, Matches, Starts

LEMMA BlockStartOK ==
    ASSUME Inv, NEW kind \in Kind, BlockStart(kind)
    PROVE  Inv'
<1> DEFINE n == Len(blocks)
           b == [kind |-> kind, text |-> <<>>]
           e == Start(n + 1, kind)
<1>1. /\ Typed /\ Rendered(out, blocks) /\ Open /\ Stopped /\ Carried
      /\ Heard /\ OneHintPerRule /\ Stored
  BY DEF Inv
<1>2. /\ provider = "anthropic" /\ OpenBlocks = {} /\ ended = FALSE
      /\ blocks' = Append(blocks, b) /\ out' = out \o <<e>>
      /\ UNCHANGED <<provider, openByKind, toolAt, fired, hints, finished, ended, sent>>
  BY <1>1 DEF BlockStart, Yield, Typed
<1>3. n \in Nat /\ blocks \in Seq(Made) /\ out \in Seq(Event) /\ sent \in Seq(SentPiece)
  BY <1>1, LenProperties DEF Typed
<1>4. b \in Made /\ b.kind = kind /\ b.text = <<>>
  BY EmptySeq DEF Made
<1>5. e \in Event /\ e.type = "start" /\ e.index = n + 1 /\ e.kind = kind
  BY <1>3, EmptySeq DEF Start, Event
<1> HIDE DEF b, e
<1>6. /\ blocks' \in Seq(Made) /\ Len(blocks') = n + 1 /\ blocks'[n + 1] = b
      /\ \A i \in 1..n : blocks'[i] = blocks[i]
  BY <1>2, <1>3, <1>4, AppendProperties
<1>7. out' = Append(out, e) /\ out' \in Seq(Event)
  BY <1>2, <1>3, <1>5, Data!OneMore, AppendProperties
<1>8. Rendered(out', blocks') /\ Closed(out') = Closed(out)
  BY <1>1, <1>2, <1>3, <1>5, <1>7, RenderStart DEF b
<1>9. Typed'
  <2>1. openByKind' \in [TextKind -> 0..(n + 1)]
    BY <1>1, <1>2, <1>3 DEF Typed
  <2>2. toolAt' \in [Position -> 0..(n + 1)]
    BY <1>1, <1>2, <1>3 DEF Typed
  <2>3. QED
    BY <1>1, <1>2, <1>6, <1>7, <2>1, <2>2 DEF Typed
<1>10. Open'
  BY <1>1, <1>2 DEF Open
<1>11. Stopped'
  <2>1. \A i \in 1..n : i \in Closed(out)
    BY <1>1, <1>2, OpenIs
  <2>2. \A i \in 1..Len(blocks') : i # Len(blocks') => i \in 1..n
    BY <1>3, <1>6
  <2>3. Closed(out') \subseteq 1..Len(blocks')
    BY <1>1, <1>3, <1>6, <1>8 DEF Stopped
  <2>4. QED
    BY <1>2, <1>8, <2>1, <2>2, <2>3 DEF Stopped
<1>12. Carried'
  <2>1. SameTexts(sent', blocks')
    BY <1>1, <1>2, <1>3, <1>4, TextsEmpty DEF Carried
  <2>2. \A m \in DOMAIN sent : sent[m].kind = "tool_use" =>
          sent[m].call \in 1..n /\ blocks[sent[m].call].kind = "tool_use"
    BY <1>1, <1>2 DEF Carried
  <2>3. \A m \in DOMAIN sent' : sent'[m].kind = "tool_use" =>
          sent'[m].call \in 1..Len(blocks') /\ blocks'[sent'[m].call].kind = "tool_use"
    BY <1>2, <1>3, <1>6, <2>2
  <2>4. ASSUME NEW i \in 1..Len(blocks'), blocks'[i].kind = "tool_use"
        PROVE  Picked(CallPick(i), sent') = blocks'[i].text
    <3>1. CASE i \in 1..n
      BY <1>1, <1>2, <1>6, <2>4, <3>1 DEF Carried
    <3>2. CASE i = n + 1
      <4>1. \A m \in DOMAIN sent : sent[m].kind = "tool_use" => sent[m].call # i
        BY <1>3, <2>2, <3>2
      <4>2. Picked(CallPick(i), sent) = <<>>
        BY <1>3, <4>1, CallNone
      <4>3. QED
        BY <1>2, <1>4, <1>6, <3>2, <4>2
    <3>3. QED
      BY <1>3, <1>6, <3>1, <3>2
  <2>5. QED
    BY <1>2, <2>1, <2>3, <2>4 DEF Carried
<1>13. Heard'
  <2>1. \A j \in 1..Len(blocks') : j # n + 1 => j \in 1..n /\ blocks'[j] = blocks[j]
    BY <1>3, <1>6
  <2>2. \A r \in Rule : ~Found(r, blocks'[n + 1].text)
    BY <1>4, <1>6, NothingMatches
  <2>3. fired' = fired
    BY <1>2
  <2>4. QED
    BY <1>1, <2>1, <2>2, <2>3, HeardStep
<1>14. OneHintPerRule'
  BY <1>1, <1>2 DEF OneHintPerRule
<1>15. Stored'
  BY <1>2 DEF Stored
<1>16. QED
  BY <1>8, <1>9, <1>10, <1>11, <1>12, <1>13, <1>14, <1>15 DEF Inv

\* A block grows by a piece.
LEMMA GrowStep ==
    ASSUME Inv, ended = FALSE, NEW i \in 1..Len(blocks), NEW p \in SentPiece,
           p.kind = blocks[i].kind, sent' = Append(sent, p),
           blocks' = Extended(blocks, i, p.text),
           out' \in Seq(Event), Rendered(out', blocks'), Closed(out') = Closed(out),
           FireIfThinking(p.kind, i),
           UNCHANGED <<provider, openByKind, toolAt, finished, ended>>,
           p.kind \in TextKind => \A j \in 1..Len(blocks) : i < j => blocks[j].kind # p.kind,
           provider # "openai" /\ p.kind = "tool_use" => p.call = i,
           provider = "openai" /\ p.kind = "tool_use" => p.call \in Position /\ toolAt[p.call] = i
    PROVE  Inv'
<1> DEFINE n == Len(blocks)
<1>1. /\ Typed /\ Rendered(out, blocks) /\ Open /\ Stopped /\ Carried
      /\ Heard /\ OneHintPerRule /\ Stored
  BY DEF Inv
<1>2. n \in Nat /\ blocks \in Seq(Made) /\ sent \in Seq(SentPiece) /\ p.text \in Seq(Token)
  BY <1>1, LenProperties DEF Typed, SentPiece
<1>3. /\ blocks' \in Seq(Made) /\ Len(blocks') = n
      /\ \A j \in 1..n : blocks'[j] = IF j = i THEN Lengthened(blocks[i], p.text) ELSE blocks[j]
  BY <1>2, Longer
<1>4. /\ Lengthened(blocks[i], p.text).kind = blocks[i].kind
      /\ Lengthened(blocks[i], p.text).text = blocks[i].text \o p.text
  BY <1>2, ElementOfSeq, Grown
<1>5. \A j \in 1..n : blocks'[j].kind = blocks[j].kind
  BY <1>3, <1>4
<1>6. /\ fired' \subseteq Rule /\ fired \subseteq fired' /\ hints' \in [Rule -> Nat]
      /\ OneHintPerRule'
      /\ p.kind = "thinking" => \A r \in Rule : Found(r, blocks'[i].text) => r \in fired'
  BY <1>1, FireOK
<1>7. sent' \in Seq(SentPiece) /\ Len(sent') = Len(sent) + 1 /\ sent'[Len(sent) + 1] = p
      /\ Len(sent) \in Nat /\ \A m \in 1..Len(sent) : sent'[m] = sent[m]
      /\ DOMAIN sent = 1..Len(sent) /\ DOMAIN sent' = 1..(Len(sent) + 1)
  BY <1>2, AppendProperties, LenProperties
<1>8. Typed'
  BY <1>1, <1>3, <1>6, <1>7 DEF Typed
<1>9. Open'
  <2>1. openByKind' = openByKind /\ toolAt' = toolAt /\ provider' = provider
    OBVIOUS
  <2>2. ASSUME NEW pos \in Position, toolAt[pos] # 0 PROVE toolAt[pos] \in 1..n
    BY <1>1, <1>2, <2>2 DEF Typed
  <2>3. QED
    BY <1>1, <1>3, <1>5, <2>1, <2>2 DEF Open
<1>10. Stopped'
  BY <1>1, <1>3, <1>5 DEF Stopped
<1>11. Carried'
  <2>1. SameTexts(sent', blocks')
    <3>1. SameTexts(sent, blocks)
      BY <1>1 DEF Carried
    <3>2. QED
      BY <1>2, <3>1, TextsLonger
  <2>2. ASSUME NEW m \in DOMAIN sent', sent'[m].kind = "tool_use"
        PROVE  \/ m \in DOMAIN sent /\ sent'[m] = sent[m]
               \/ sent'[m] = p /\ p.kind = "tool_use"
    BY <1>7, <2>2
  <2>3. CASE provider # "openai"
    <3>1. ASSUME NEW m \in DOMAIN sent', sent'[m].kind = "tool_use"
          PROVE  sent'[m].call \in 1..n /\ blocks'[sent'[m].call].kind = "tool_use"
      <4>1. CASE m \in DOMAIN sent /\ sent'[m] = sent[m]
        <5>1. sent[m].call \in 1..n /\ blocks[sent[m].call].kind = "tool_use"
          BY <1>1, <2>3, <3>1, <4>1 DEF Carried
        <5>2. QED
          BY <1>5, <4>1, <5>1
      <4>2. CASE sent'[m] = p /\ p.kind = "tool_use"
        BY <1>5, <2>3, <4>2
      <4>3. QED
        BY <2>2, <3>1, <4>1, <4>2
    <3>2. ASSUME NEW j \in 1..n, blocks'[j].kind = "tool_use"
          PROVE  Picked(CallPick(j), sent') = blocks'[j].text
      <4>1. Picked(CallPick(j), sent) = blocks[j].text
        BY <1>1, <1>5, <2>3, <3>2 DEF Carried
      <4>2. CASE j = i
        <5>1. p.kind = "tool_use" /\ p.call = j
          BY <1>5, <2>3, <3>2, <4>2
        <5>2. Picked(CallPick(j), sent') = Picked(CallPick(j), sent) \o p.text
          BY <1>2, <5>1, CallMore
        <5>3. QED
          BY <1>3, <1>4, <4>1, <4>2, <5>2
      <4>3. CASE j # i
        <5>1. p.kind # "tool_use" \/ p.call # j
          BY <2>3, <4>3
        <5>2. Picked(CallPick(j), sent') = Picked(CallPick(j), sent)
          BY <1>2, <5>1, CallMore
        <5>3. QED
          BY <1>3, <4>1, <4>3, <5>2
      <4>4. QED
        BY <4>2, <4>3
    <3>3. QED
      BY <1>3, <2>1, <2>3, <3>1, <3>2 DEF Carried
  <2>4. CASE provider = "openai"
    <3>1. ASSUME NEW m \in DOMAIN sent', sent'[m].kind = "tool_use"
          PROVE  sent'[m].call \in Position /\ toolAt[sent'[m].call] # 0
      <4>1. CASE m \in DOMAIN sent /\ sent'[m] = sent[m]
        BY <1>1, <2>4, <3>1, <4>1 DEF Carried
      <4>2. CASE sent'[m] = p /\ p.kind = "tool_use"
        BY <1>2, <2>4, <4>2
      <4>3. QED
        BY <2>2, <3>1, <4>1, <4>2
    <3>2. ASSUME NEW pos \in Position, toolAt[pos] # 0
          PROVE  Picked(CallPick(pos), sent') = blocks'[toolAt[pos]].text
      <4> DEFINE j == toolAt[pos]
      <4>1. Picked(CallPick(pos), sent) = blocks[j].text /\ j \in 1..n
            /\ blocks[j].kind = "tool_use"
        BY <1>1, <1>2, <2>4, <3>2 DEF Carried, Typed, Open
      <4> HIDE DEF j
      <4>2. CASE j = i
        <5>1. p.kind = "tool_use" /\ p.call = pos
          <6>1. p.kind = "tool_use"
            BY <4>1, <4>2
          <6>2. p.call \in Position /\ toolAt[p.call] = toolAt[pos]
            BY <2>4, <4>2, <6>1 DEF j
          <6>3. QED
            BY <1>1, <2>4, <3>2, <6>1, <6>2 DEF Open
        <5>2. Picked(CallPick(pos), sent') = Picked(CallPick(pos), sent) \o p.text
          BY <1>2, <5>1, CallMore
        <5>3. QED
          BY <1>3, <1>4, <4>1, <4>2, <5>2 DEF j
      <4>3. CASE j # i
        <5>1. p.kind # "tool_use" \/ p.call # pos
          BY <2>4, <4>3 DEF j
        <5>2. Picked(CallPick(pos), sent') = Picked(CallPick(pos), sent)
          BY <1>2, <5>1, CallMore
        <5>3. QED
          BY <1>3, <4>1, <4>3, <5>2 DEF j
      <4>4. QED
        BY <4>2, <4>3
    <3>3. QED
      BY <1>3, <2>1, <2>4, <3>1, <3>2 DEF Carried
  <2>5. QED
    BY <2>3, <2>4
<1>12. Heard'
  <2>1. \A j \in 1..Len(blocks') : j # i => j \in 1..n /\ blocks'[j] = blocks[j]
    BY <1>3
  <2>2. blocks'[i].kind = "thinking" => \A r \in Rule : Found(r, blocks'[i].text) => r \in fired'
    BY <1>5, <1>6
  <2>3. QED
    BY <1>1, <1>6, <2>1, <2>2, HeardStep
<1>13. Stored'
  BY DEF Stored
<1>14. QED
  BY <1>6, <1>8, <1>9, <1>10, <1>11, <1>12, <1>13 DEF Inv

\* A piece opens a block, which a Gemini function call closes.
LEMMA NewStep ==
    ASSUME Inv, ended = FALSE, provider # "anthropic", NEW p \in SentPiece,
           sent' = Append(sent, p),
           blocks' = Append(blocks, [kind |-> p.kind, text |-> p.text]),
           out' \in Seq(Event), Rendered(out', blocks'),
           \A i : i \in Closed(out') <=> \/ i \in Closed(out)
                                         \/ /\ provider = "gemini" /\ p.kind = "tool_use"
                                            /\ i = Len(blocks) + 1,
           FireIfThinking(p.kind, Len(blocks) + 1),
           UNCHANGED <<provider, finished, ended>>,
           p.kind \in TextKind => /\ openByKind[p.kind] = 0 /\ toolAt' = toolAt
                                  /\ openByKind' = [openByKind EXCEPT ![p.kind] = Len(blocks) + 1],
           p.kind = "tool_use" => openByKind' = openByKind,
           provider # "openai" /\ p.kind = "tool_use" =>
               p.call = Len(blocks) + 1 /\ toolAt' = toolAt,
           provider = "openai" /\ p.kind = "tool_use" =>
               /\ p.call \in Position /\ toolAt[p.call] = 0
               /\ toolAt' = [toolAt EXCEPT ![p.call] = Len(blocks) + 1]
    PROVE  Inv'
<1> DEFINE n == Len(blocks)
           b == [kind |-> p.kind, text |-> p.text]
<1>1. /\ Typed /\ Rendered(out, blocks) /\ Open /\ Stopped /\ Carried
      /\ Heard /\ OneHintPerRule /\ Stored
  BY DEF Inv
<1>2. n \in Nat /\ blocks \in Seq(Made) /\ sent \in Seq(SentPiece)
  BY <1>1, LenProperties DEF Typed
<1>3. /\ p.kind \in TextKind \/ p.kind = "tool_use"
      /\ b \in Made /\ b.kind = p.kind /\ b.text = p.text
  BY DEF SentPiece, Made, Kind, TextKind
<1> HIDE DEF b
<1>4. /\ blocks' \in Seq(Made) /\ Len(blocks') = n + 1 /\ blocks'[n + 1] = b
      /\ \A j \in 1..n : blocks'[j] = blocks[j]
  BY <1>2, <1>3, AppendProperties DEF b
<1>5. /\ fired' \subseteq Rule /\ fired \subseteq fired' /\ hints' \in [Rule -> Nat]
      /\ OneHintPerRule'
      /\ p.kind = "thinking" => \A r \in Rule : Found(r, blocks'[n + 1].text) => r \in fired'
  BY <1>1, FireOK
<1>6. sent' \in Seq(SentPiece) /\ Len(sent') = Len(sent) + 1 /\ sent'[Len(sent) + 1] = p
      /\ Len(sent) \in Nat /\ \A m \in 1..Len(sent) : sent'[m] = sent[m]
      /\ DOMAIN sent = 1..Len(sent) /\ DOMAIN sent' = 1..(Len(sent) + 1)
  BY <1>2, AppendProperties, LenProperties
<1>7. /\ openByKind \in [TextKind -> 0..n] /\ toolAt \in [Position -> 0..n]
      /\ provider' = provider /\ ended' = FALSE
  BY <1>1 DEF Typed
<1>8. \A j \in 1..(n + 1) : j \in 1..n \/ j = n + 1
  BY <1>2
<1>9. openByKind' \in [TextKind -> 0..(n + 1)] /\ toolAt' \in [Position -> 0..(n + 1)]
  <2>1. openByKind' \in [TextKind -> 0..(n + 1)]
    <3>1. CASE p.kind \in TextKind
      BY <1>2, <1>7, <3>1
    <3>2. CASE p.kind = "tool_use"
      BY <1>2, <1>7, <3>2
    <3>3. QED
      BY <1>3, <3>1, <3>2
  <2>2. toolAt' \in [Position -> 0..(n + 1)]
    <3>1. toolAt' = toolAt \/ \E pos \in Position : toolAt' = [toolAt EXCEPT ![pos] = n + 1]
      BY <1>3
    <3>2. QED
      BY <1>2, <1>7, <3>1
  <2>3. QED
    BY <2>1, <2>2
<1>10. Typed'
  BY <1>1, <1>4, <1>5, <1>6, <1>9 DEF Typed
<1>11. Open'
  <2>1. ASSUME NEW k \in TextKind, NEW i \in 1..(n + 1)
        PROVE  blocks'[i].kind = k <=> openByKind'[k] = i
    <3>1. \A j \in 1..n : blocks[j].kind = k <=> openByKind[k] = j
      BY <1>1 DEF Open
    <3>2. CASE p.kind = k
      <4>1. openByKind'[k] = n + 1 /\ openByKind[k] = 0
        BY <1>7, <3>2
      <4>2. CASE i \in 1..n
        BY <1>2, <1>4, <3>1, <4>1, <4>2
      <4>3. CASE i = n + 1
        BY <1>3, <1>4, <3>2, <4>1, <4>3
      <4>4. QED
        BY <1>8, <4>2, <4>3
    <3>3. CASE p.kind # k
      <4>1. openByKind'[k] = openByKind[k] /\ openByKind[k] \in 0..n
        BY <1>3, <1>7, <3>3
      <4>2. CASE i \in 1..n
        BY <1>4, <3>1, <4>1, <4>2
      <4>3. CASE i = n + 1
        BY <1>2, <1>3, <1>4, <3>3, <4>1, <4>3
      <4>4. QED
        BY <1>8, <4>2, <4>3
    <3>4. QED
      BY <3>2, <3>3
  <2>2. CASE provider # "openai"
    <3>1. toolAt' = toolAt
      BY <1>3, <2>2
    <3>2. QED
      BY <1>1, <1>4, <1>7, <2>1, <2>2, <3>1 DEF Open
  <2>3. CASE provider = "openai"
    <3>1. /\ \A pos \in Position : toolAt[pos] # 0 => blocks[toolAt[pos]].kind = "tool_use"
          /\ \A i \in 1..n : blocks[i].kind = "tool_use" => \E pos \in Position : toolAt[pos] = i
          /\ \A q, r \in Position : toolAt[q] = toolAt[r] /\ toolAt[q] # 0 => q = r
      BY <1>1, <2>3 DEF Open
    <3>2. CASE p.kind # "tool_use"
      <4>1. toolAt' = toolAt
        BY <1>3, <3>2
      <4>2. ASSUME NEW pos \in Position, toolAt[pos] # 0 PROVE toolAt[pos] \in 1..n
        BY <1>2, <1>7, <4>2
      <4>3. \A pos \in Position : toolAt'[pos] # 0 => blocks'[toolAt'[pos]].kind = "tool_use"
        BY <1>4, <3>1, <4>1, <4>2
      <4>4. \A i \in 1..(n + 1) : blocks'[i].kind = "tool_use" =>
              \E pos \in Position : toolAt'[pos] = i
        BY <1>3, <1>4, <1>8, <3>1, <3>2, <4>1
      <4>5. QED
        BY <1>4, <1>7, <2>1, <2>3, <3>1, <4>1, <4>3, <4>4 DEF Open
    <3>3. CASE p.kind = "tool_use"
      <4> DEFINE c == p.call
      <4>1. c \in Position /\ toolAt[c] = 0 /\ toolAt' = [toolAt EXCEPT ![c] = n + 1]
        BY <2>3, <3>3
      <4> HIDE DEF c
      <4>2. toolAt'[c] = n + 1 /\ \A pos \in Position : pos # c => toolAt'[pos] = toolAt[pos]
        BY <1>7, <4>1
      <4>3. ASSUME NEW pos \in Position, pos # c, toolAt[pos] # 0
            PROVE  toolAt[pos] \in 1..n /\ toolAt[pos] # n + 1
        BY <1>2, <1>7, <4>3
      <4>4. ASSUME NEW pos \in Position, toolAt'[pos] # 0
            PROVE  blocks'[toolAt'[pos]].kind = "tool_use"
        <5>1. CASE pos = c
          BY <1>3, <1>4, <3>3, <4>2, <5>1
        <5>2. CASE pos # c
          BY <1>4, <3>1, <4>2, <4>3, <4>4, <5>2
        <5>3. QED
          BY <5>1, <5>2
      <4>5. ASSUME NEW i \in 1..(n + 1), blocks'[i].kind = "tool_use"
            PROVE  \E pos \in Position : toolAt'[pos] = i
        <5>1. CASE i \in 1..n
          <6>1. PICK pos \in Position : toolAt[pos] = i
            BY <1>4, <3>1, <4>5, <5>1
          <6>2. pos # c
            BY <1>2, <4>1, <5>1, <6>1
          <6>3. QED
            BY <4>2, <6>1, <6>2
        <5>2. CASE i = n + 1
          BY <4>1, <4>2, <5>2
        <5>3. QED
          BY <1>8, <5>1, <5>2
      <4>6. ASSUME NEW q \in Position, NEW r \in Position,
                   toolAt'[q] = toolAt'[r], toolAt'[q] # 0
            PROVE  q = r
        BY <3>1, <4>2, <4>3, <4>6
      <4>7. /\ provider' = "openai"
            /\ \A k \in TextKind : \A i \in 1..Len(blocks') :
                 blocks'[i].kind = k <=> openByKind'[k] = i
        BY <1>4, <1>7, <2>1, <2>3
      <4>8. /\ \A pos \in Position : toolAt'[pos] # 0 => blocks'[toolAt'[pos]].kind = "tool_use"
            /\ \A i \in 1..Len(blocks') : blocks'[i].kind = "tool_use" =>
                 \E pos \in Position : toolAt'[pos] = i
        BY <1>4, <4>4, <4>5
      <4>9. \A q, r \in Position : toolAt'[q] = toolAt'[r] /\ toolAt'[q] # 0 => q = r
        BY <4>6
      <4>10. QED
        BY <4>7, <4>8, <4>9, Zenon DEF Open
    <3>4. QED
      BY <3>2, <3>3
  <2>4. QED
    BY <2>2, <2>3
<1>12. Stopped'
  <2>1. Closed(out') \subseteq 1..Len(blocks')
    BY <1>1, <1>2, <1>4 DEF Stopped
  <2>2. provider = "gemini" => \A i \in 1..(n + 1) : blocks'[i].kind = "tool_use" => i \in Closed(out')
    BY <1>1, <1>3, <1>4, <1>8 DEF Stopped
  <2>3. \A i \in Closed(out') : blocks'[i].kind = "tool_use" /\ provider = "gemini"
    <3>1. \A i \in Closed(out) : i \in 1..n /\ blocks[i].kind = "tool_use" /\ provider = "gemini"
      BY <1>1 DEF Stopped
    <3>2. QED
      BY <1>3, <1>4, <3>1
  <2>4. QED
    BY <1>4, <1>7, <2>1, <2>2, <2>3 DEF Stopped
<1>13. Carried'
  <2>1. SameTexts(sent', blocks')
    <3>1. SameTexts(sent, blocks)
      BY <1>1 DEF Carried
    <3>2. QED
      BY <1>2, <1>3, <3>1, TextsNew DEF b
  <2>2. ASSUME NEW m \in DOMAIN sent', sent'[m].kind = "tool_use"
        PROVE  \/ m \in DOMAIN sent /\ sent'[m] = sent[m]
               \/ sent'[m] = p /\ p.kind = "tool_use"
    BY <1>6, <2>2
  <2>3. CASE provider # "openai"
    <3>1. \A m \in DOMAIN sent : sent[m].kind = "tool_use" =>
            sent[m].call \in 1..n /\ blocks[sent[m].call].kind = "tool_use"
      BY <1>1, <2>3 DEF Carried
    <3>2. ASSUME NEW m \in DOMAIN sent', sent'[m].kind = "tool_use"
          PROVE  sent'[m].call \in 1..(n + 1) /\ blocks'[sent'[m].call].kind = "tool_use"
      <4>1. CASE m \in DOMAIN sent /\ sent'[m] = sent[m]
        <5>1. sent[m].call \in 1..n /\ blocks[sent[m].call].kind = "tool_use"
          BY <3>1, <3>2, <4>1
        <5>2. QED
          BY <1>2, <1>4, <4>1, <5>1
      <4>2. CASE sent'[m] = p /\ p.kind = "tool_use"
        BY <1>2, <1>3, <1>4, <2>3, <4>2
      <4>3. QED
        BY <2>2, <3>2, <4>1, <4>2
    <3>3. ASSUME NEW j \in 1..(n + 1), blocks'[j].kind = "tool_use"
          PROVE  Picked(CallPick(j), sent') = blocks'[j].text
      <4>1. CASE j \in 1..n
        <5>1. Picked(CallPick(j), sent) = blocks[j].text
          BY <1>1, <1>4, <2>3, <3>3, <4>1 DEF Carried
        <5>2. p.kind # "tool_use" \/ p.call # j
          BY <1>2, <2>3, <4>1
        <5>3. Picked(CallPick(j), sent') = Picked(CallPick(j), sent)
          BY <1>2, <5>2, CallMore
        <5>4. QED
          BY <1>4, <4>1, <5>1, <5>3
      <4>2. CASE j = n + 1
        <5>1. p.kind = "tool_use" /\ p.call = j
          BY <1>3, <1>4, <2>3, <3>3, <4>2
        <5>2. \A m \in DOMAIN sent : sent[m].kind = "tool_use" => sent[m].call # j
          BY <1>2, <3>1, <4>2
        <5>3. Picked(CallPick(j), sent) = <<>>
          BY <1>2, <5>2, CallNone
        <5>4. Picked(CallPick(j), sent') = Picked(CallPick(j), sent) \o p.text
          BY <1>2, <5>1, CallMore
        <5>5. p.text \in Seq(Token)
          BY DEF SentPiece
        <5>6. <<>> \o p.text = p.text
          BY <5>5, ConcatEmptySeq
        <5>7. QED
          BY <1>3, <1>4, <4>2, <5>3, <5>4, <5>6
      <4>3. QED
        BY <1>8, <4>1, <4>2
    <3>4. QED
      BY <1>4, <1>7, <2>1, <2>3, <3>2, <3>3 DEF Carried
  <2>4. CASE provider = "openai"
    <3>1. \A m \in DOMAIN sent : sent[m].kind = "tool_use" =>
            sent[m].call \in Position /\ toolAt[sent[m].call] # 0
      BY <1>1, <2>4 DEF Carried
    <3>2. \A pos \in Position :
            toolAt'[pos] = IF p.kind = "tool_use" /\ p.call = pos THEN n + 1 ELSE toolAt[pos]
      <4>1. CASE p.kind = "tool_use"
        BY <1>7, <2>4, <4>1
      <4>2. CASE p.kind # "tool_use"
        BY <1>3, <4>2
      <4>3. QED
        BY <4>1, <4>2
    <3>3. ASSUME NEW m \in DOMAIN sent', sent'[m].kind = "tool_use"
          PROVE  sent'[m].call \in Position /\ toolAt'[sent'[m].call] # 0
      <4>1. CASE m \in DOMAIN sent /\ sent'[m] = sent[m]
        BY <1>2, <3>1, <3>2, <3>3, <4>1
      <4>2. CASE sent'[m] = p /\ p.kind = "tool_use"
        BY <1>2, <2>4, <3>2, <4>2
      <4>3. QED
        BY <2>2, <3>3, <4>1, <4>2
    <3>4. ASSUME NEW pos \in Position, toolAt'[pos] # 0
          PROVE  Picked(CallPick(pos), sent') = blocks'[toolAt'[pos]].text
      <4>1. CASE p.kind = "tool_use" /\ p.call = pos
        <5>1. toolAt'[pos] = n + 1 /\ toolAt[pos] = 0
          BY <2>4, <3>2, <4>1
        <5>2. \A m \in DOMAIN sent : sent[m].kind = "tool_use" => sent[m].call # pos
          BY <3>1, <5>1
        <5>3. Picked(CallPick(pos), sent) = <<>>
          BY <1>2, <5>2, CallNone
        <5>4. Picked(CallPick(pos), sent') = Picked(CallPick(pos), sent) \o p.text
          BY <1>2, <4>1, CallMore
        <5>5. p.text \in Seq(Token)
          BY DEF SentPiece
        <5>6. <<>> \o p.text = p.text
          BY <5>5, ConcatEmptySeq
        <5>7. QED
          BY <1>3, <1>4, <5>1, <5>3, <5>4, <5>6
      <4>2. CASE ~(p.kind = "tool_use" /\ p.call = pos)
        <5>1. toolAt'[pos] = toolAt[pos] /\ toolAt[pos] # 0
          BY <3>2, <3>4, <4>2
        <5>2. toolAt[pos] \in 1..n /\ Picked(CallPick(pos), sent) = blocks[toolAt[pos]].text
          BY <1>1, <1>2, <1>7, <2>4, <5>1 DEF Carried
        <5>3. Picked(CallPick(pos), sent') = Picked(CallPick(pos), sent)
          BY <1>2, <4>2, CallMore
        <5>4. QED
          BY <1>4, <5>1, <5>2, <5>3
      <4>3. QED
        BY <4>1, <4>2
    <3>5. QED
      BY <1>7, <2>1, <2>4, <3>3, <3>4 DEF Carried
  <2>5. QED
    BY <2>3, <2>4
<1>14. Heard'
  <2>1. \A j \in 1..Len(blocks') : j # n + 1 => j \in 1..n /\ blocks'[j] = blocks[j]
    BY <1>4, <1>8
  <2>2. blocks'[n + 1].kind = "thinking" =>
          \A r \in Rule : Found(r, blocks'[n + 1].text) => r \in fired'
    BY <1>3, <1>4, <1>5
  <2>3. QED
    BY <1>1, <1>5, <2>1, <2>2, HeardStep
<1>15. Stored'
  BY <1>7 DEF Stored
<1>16. QED
  BY <1>5, <1>10, <1>11, <1>12, <1>13, <1>14, <1>15 DEF Inv

\* The events of a piece.
LEMMA DeltaOK ==
    ASSUME NEW i \in Nat, NEW k \in Kind, NEW t \in Seq(Token)
    PROVE  /\ Start(i, k) \in Event /\ Start(i, k).type = "start"
           /\ Start(i, k).index = i /\ Start(i, k).kind = k
           /\ Delta(i, k, t) \in Event /\ Delta(i, k, t).type = "delta"
           /\ Delta(i, k, t).index = i /\ Delta(i, k, t).kind = k /\ Delta(i, k, t).text = t
BY EmptySeq DEF Start, Delta, Event

LEMMA GrowEvents ==
    ASSUME NEW bs \in Seq(Made), NEW o \in Seq(Event), Rendered(o, bs),
           NEW i \in 1..Len(bs), i \notin Closed(o), NEW t \in Seq(Token)
    PROVE  /\ Append(o, Delta(i, bs[i].kind, t)) \in Seq(Event)
           /\ Rendered(Append(o, Delta(i, bs[i].kind, t)), Extended(bs, i, t))
           /\ Closed(Append(o, Delta(i, bs[i].kind, t))) = Closed(o)
<1> DEFINE e == Delta(i, bs[i].kind, t)
<1>1. bs[i] \in Made /\ i \in Nat
  BY ElementOfSeq, LenProperties
<1>2. bs[i].kind \in Kind
  BY <1>1 DEF Made
<1>3. /\ e \in Event /\ e.type = "delta" /\ e.index = i /\ e.kind = bs[i].kind /\ e.text = t
  BY <1>1, <1>2, DeltaOK
<1> HIDE DEF e
<1>4. Rendered(Append(o, e), Extended(bs, i, e.text)) /\ Closed(Append(o, e)) = Closed(o)
  BY <1>3, RenderDelta
<1>5. QED
  BY <1>3, <1>4, AppendProperties DEF e

Begun(o, i, k, t) == Append(Append(o, Start(i, k)), Delta(i, k, t))

LEMMA NewEvents ==
    ASSUME NEW bs \in Seq(Made), NEW o \in Seq(Event), Rendered(o, bs),
           NEW k \in Kind, NEW t \in Seq(Token)
    PROVE  /\ Begun(o, Len(bs) + 1, k, t) \in Seq(Event)
           /\ Rendered(Begun(o, Len(bs) + 1, k, t), Append(bs, [kind |-> k, text |-> t]))
           /\ Closed(Begun(o, Len(bs) + 1, k, t)) = Closed(o)
<1> DEFINE n == Len(bs)
           b0 == [kind |-> k, text |-> <<>>]
           b == [kind |-> k, text |-> t]
           s == Start(n + 1, k)
           e == Delta(n + 1, k, t)
           o1 == Append(o, s)
           bs1 == Append(bs, b0)
<1>1. n \in Nat /\ n + 1 \in Nat
  BY LenProperties
<1>2. /\ s \in Event /\ s.type = "start" /\ s.index = n + 1 /\ s.kind = k
      /\ e \in Event /\ e.type = "delta" /\ e.index = n + 1 /\ e.kind = k /\ e.text = t
  BY <1>1, DeltaOK
<1>3. /\ b0 \in Made /\ b0.kind = k /\ b0.text = <<>>
      /\ b \in Made /\ b.kind = k /\ b.text = t
  BY EmptySeq DEF Made
<1>4. Lengthened(b0, t) = b
  <2>1. <<>> \o t = t
    BY ConcatEmptySeq
  <2>2. QED
    BY <2>1 DEF Lengthened
<1> HIDE DEF s, e
<1>5. o1 \in Seq(Event) /\ Rendered(o1, bs1) /\ Closed(o1) = Closed(o)
  BY <1>2, AppendProperties, RenderStart
<1> HIDE DEF b0, b, o1
<1>6. bs1 \in Seq(Made) /\ Len(bs1) = n + 1 /\ bs1[n + 1] = b0
  BY <1>1, <1>3, AppendProperties
<1>7. n + 1 \notin Closed(o1)
  <2>1. \A m \in DOMAIN o : o[m].index # n + 1
    BY <1>1 DEF Rendered
  <2>2. n + 1 \notin Closed(o)
    BY <2>1 DEF Closed, Where
  <2>3. QED
    BY <1>5, <2>2
<1>8. Extended(bs1, n + 1, t) = Append(bs, b)
  <2>1. n + 1 \in 1..Len(bs1)
    BY <1>1, <1>6
  <2> HIDE DEF bs1
  <2>2. Extended(bs1, n + 1, t) = Swapped(bs1, n + 1, Lengthened(bs1[n + 1], t))
    BY <1>6, <2>1, Longer
  <2>3. Swapped(bs1, n + 1, b) = Append(bs, b)
    BY <1>3, ReplaceLast DEF bs1, Swapped
  <2>4. QED
    BY <1>4, <1>6, <2>2, <2>3
<1> HIDE DEF bs1
<1>9. n + 1 \in 1..Len(bs1) /\ e.kind = bs1[n + 1].kind
  BY <1>1, <1>2, <1>3, <1>6
<1>10. Rendered(Append(o1, e), Extended(bs1, n + 1, e.text)) /\ Closed(Append(o1, e)) = Closed(o1)
  BY <1>2, <1>5, <1>6, <1>7, <1>9, RenderDelta
<1>11. Append(o1, e) \in Seq(Event)
  BY <1>2, <1>5, AppendProperties
<1>12. QED
  BY <1>2, <1>5, <1>8, <1>10, <1>11 DEF o1, s, e, b, Begun

LEMMA BlockDeltaOK ==
    ASSUME Inv, NEW i \in OpenBlocks, NEW text, BlockDelta(i, text)
    PROVE  Inv'
<1> DEFINE k == blocks[i].kind
           p == [kind |-> k, call |-> i, text |-> text]
<1>1. /\ Typed /\ Rendered(out, blocks) /\ Stopped
      /\ i \in 1..Len(blocks) /\ i \notin Closed(out) /\ Len(blocks) \in Nat
      /\ blocks \in Seq(Made) /\ out \in Seq(Event)
  BY OpenIs, LenProperties DEF Inv, Typed
<1>2. blocks[i] \in Made
  BY <1>1, ElementOfSeq
<1>3. /\ provider = "anthropic" /\ ended = FALSE /\ sent' = Append(sent, p)
      /\ blocks' = Extended(blocks, i, text) /\ out' = out \o <<Delta(i, k, text)>>
      /\ FireIfThinking(k, i)
      /\ UNCHANGED <<provider, openByKind, toolAt, finished, ended>>
  BY <1>1 DEF BlockDelta, Send, Yield, Extended, Typed
<1>4. text \in Seq(Token)
  BY StreamingAssumption DEF BlockDelta
<1>5. p \in SentPiece /\ p.kind = k /\ p.call = i /\ p.text = text
  BY <1>1, <1>2, <1>4 DEF SentPiece, Made
<1>6. Delta(i, k, text) \in Event
  BY <1>1, <1>2, <1>4, DeltaOK DEF Made
<1>7. out' = Append(out, Delta(i, k, text))
  BY <1>1, <1>3, <1>6, Data!OneMore
<1> DEFINE o2 == Append(out, Delta(i, k, text))
<1>8. /\ out' \in Seq(Event) /\ Rendered(out', blocks') /\ Closed(out') = Closed(out)
  <2>1. o2 \in Seq(Event) /\ Rendered(o2, Extended(blocks, i, text)) /\ Closed(o2) = Closed(out)
    BY <1>1, <1>4, GrowEvents
  <2> HIDE DEF o2
  <2>2. QED
    BY <1>3, <1>7, <2>1 DEF o2
<1>9. i = Len(blocks)
  BY <1>1, <1>3 DEF Stopped
<1> HIDE DEF p
<1>10. \A j \in 1..Len(blocks) : ~(i < j)
  BY <1>1, <1>9
<1>11. QED
  BY <1>1, <1>3, <1>5, <1>8, <1>10, GrowStep

LEMMA BlockStopOK ==
    ASSUME Inv, NEW i \in OpenBlocks, BlockStop(i)
    PROVE  Inv'
<1> DEFINE n == Len(blocks)
           e == Stop(i)
<1>1. /\ Typed /\ Rendered(out, blocks) /\ Open /\ Stopped /\ Carried
      /\ Heard /\ OneHintPerRule /\ Stored
      /\ i \in 1..n /\ i \notin Closed(out) /\ n \in Nat
      /\ blocks \in Seq(Made) /\ out \in Seq(Event)
  BY OpenIs, LenProperties DEF Inv, Typed
<1>2. /\ provider = "anthropic" /\ out' = out \o <<e>>
      /\ UNCHANGED <<provider, blocks, openByKind, toolAt, fired, hints, finished, ended, sent>>
  BY DEF BlockStop, Yield, streamVars
<1>3. ended = FALSE
  BY <1>1 DEF Typed, Stopped
<1>4. e \in Event /\ e.type = "stop" /\ e.index = i
  BY <1>1, StopOK DEF StopOf, Stop
<1> HIDE DEF e
<1>5. out' = Append(out, e) /\ out' \in Seq(Event)
  BY <1>1, <1>2, <1>4, Data!OneMore, AppendProperties
<1>6. Rendered(out', blocks') /\ Closed(out') = Closed(out) \cup {i}
  <2>1. Rendered(Append(out, e), blocks) /\ Closed(Append(out, e)) = Closed(out) \cup {i}
    BY <1>1, <1>4, RenderStop
  <2>2. QED
    BY <1>2, <1>5, <2>1
<1>7. Typed'
  BY <1>1, <1>2, <1>5 DEF Typed
<1>8. Open'
  BY <1>1, <1>2 DEF Open
<1>9. Stopped'
  BY <1>1, <1>2, <1>3, <1>6 DEF Stopped
<1>10. Carried'
  BY <1>1, <1>2 DEF Carried
<1>11. Heard' /\ OneHintPerRule'
  BY <1>1, <1>2 DEF Heard, OneHintPerRule
<1>12. Stored'
  BY <1>2, <1>3 DEF Stored
<1>13. QED
  BY <1>6, <1>7, <1>8, <1>9, <1>10, <1>11, <1>12 DEF Inv

LEMMA EmitTextOK ==
    ASSUME Inv, NEW kind \in TextKind, NEW text \in Piece, EmitText(kind, text)
    PROVE  Inv'
<1> DEFINE n == Len(blocks)
           known == openByKind[kind]
           i == IF known = 0 THEN n + 1 ELSE known
           p == [kind |-> kind, call |-> i, text |-> text]
<1>1. /\ Typed /\ Rendered(out, blocks) /\ Open /\ Stopped /\ n \in Nat
      /\ blocks \in Seq(Made) /\ out \in Seq(Event) /\ known \in 0..n
      /\ openByKind \in [TextKind -> 0..n]
  BY LenProperties DEF Inv, Typed
<1>2. /\ provider # "anthropic" /\ ended = FALSE /\ sent' = Append(sent, p)
      /\ openByKind' = [openByKind EXCEPT ![kind] = i] /\ FireIfThinking(kind, i)
      /\ UNCHANGED <<provider, toolAt, finished, ended>>
  BY <1>1 DEF EmitText, Send, Typed
<1>3. text \in Seq(Token) /\ kind \in Kind /\ kind # "tool_use" /\ i \in Nat
  BY <1>1, StreamingAssumption DEF TextKind, Kind
<1>4. p \in SentPiece /\ p.kind = kind /\ p.text = text
  BY <1>3 DEF SentPiece
<1>5. CASE known = 0
  <2>1. /\ blocks' = Append(blocks, [kind |-> kind, text |-> text])
        /\ out' = out \o <<Start(n + 1, kind), Delta(n + 1, kind, text)>>
    BY <1>5 DEF EmitText, Yield
  <2>2. Start(n + 1, kind) \in Event /\ Delta(n + 1, kind, text) \in Event
    BY <1>1, <1>3, DeltaOK
  <2>3. out' = Begun(out, n + 1, kind, text)
    BY <1>1, <2>1, <2>2, Data!TwoMore DEF Begun
  <2>4. out' \in Seq(Event) /\ Rendered(out', blocks') /\ Closed(out') = Closed(out)
    <3> DEFINE o2 == Begun(out, n + 1, kind, text)
    <3>1. /\ o2 \in Seq(Event)
          /\ Rendered(o2, Append(blocks, [kind |-> kind, text |-> text]))
          /\ Closed(o2) = Closed(out)
      BY <1>1, <1>3, NewEvents
    <3>2. QED
      BY <2>1, <2>3, <3>1
  <2>5. i = n + 1
    BY <1>5
  <2> HIDE DEF p, i
  <2>6. /\ blocks' = Append(blocks, [kind |-> p.kind, text |-> p.text])
        /\ FireIfThinking(p.kind, n + 1)
        /\ openByKind[p.kind] = 0 /\ toolAt' = toolAt
        /\ openByKind' = [openByKind EXCEPT ![p.kind] = n + 1]
    BY <1>2, <1>4, <1>5, <2>1, <2>5
  <2>7. \A j : j \in Closed(out') <=> \/ j \in Closed(out)
                                      \/ /\ provider = "gemini" /\ p.kind = "tool_use"
                                         /\ j = Len(blocks) + 1
    BY <1>3, <1>4, <2>4
  <2>8. QED
    BY <1>2, <1>3, <1>4, <2>4, <2>6, <2>7, NewStep
<1>6. CASE known # 0
  <2>1. i = known /\ i \in 1..n /\ blocks[i].kind = kind
    BY <1>1, <1>2, <1>6 DEF Open
  <2>2. /\ blocks' = Extended(blocks, i, text)
        /\ out' = out \o <<Delta(i, kind, text)>>
    BY <1>6, <2>1 DEF EmitText, Yield, Extended
  <2>3. openByKind' = openByKind
    BY <1>1, <1>2, <2>1
  <2>4. i \notin Closed(out)
    BY <1>1, <1>2, <1>3, <2>1 DEF Stopped
  <2>5. \A j \in 1..n : i < j => blocks[j].kind # kind
    BY <1>1, <1>2, <2>1 DEF Open
  <2> HIDE DEF p, i
  <2>6. Delta(i, kind, text) \in Event
    BY <1>3, DeltaOK
  <2>7. out' = Append(out, Delta(i, kind, text))
    BY <1>1, <2>2, <2>6, Data!OneMore
  <2>8. out' \in Seq(Event) /\ Rendered(out', blocks') /\ Closed(out') = Closed(out)
    <3> DEFINE o2 == Append(out, Delta(i, blocks[i].kind, text))
    <3>1. /\ o2 \in Seq(Event) /\ Rendered(o2, Extended(blocks, i, text))
          /\ Closed(o2) = Closed(out)
      BY <1>1, <1>3, <2>1, <2>4, GrowEvents
    <3>2. out' = o2
      BY <2>1, <2>7
    <3> HIDE DEF o2
    <3>3. QED
      BY <2>2, <3>1, <3>2
  <2>9. QED
    BY <1>2, <1>3, <1>4, <2>1, <2>2, <2>3, <2>5, <2>8, GrowStep
<1>7. QED
  BY <1>5, <1>6

LEMMA FunctionCallOK ==
    ASSUME Inv, NEW args \in Fragment, FunctionCall(args)
    PROVE  Inv'
<1> DEFINE n == Len(blocks)
           p == [kind |-> "tool_use", call |-> n + 1, text |-> args]
           b == [kind |-> "tool_use", text |-> args]
           s == Start(n + 1, "tool_use")
           d == Delta(n + 1, "tool_use", args)
           e == [type |-> "stop", index |-> n + 1, kind |-> "tool_use", text |-> <<>>]
           o2 == Begun(out, n + 1, "tool_use", args)
           longer == Append(blocks, b)
<1>1. /\ Typed /\ Rendered(out, blocks) /\ n \in Nat
      /\ blocks \in Seq(Made) /\ out \in Seq(Event)
  BY LenProperties DEF Inv, Typed
<1>2. /\ provider = "gemini" /\ ended = FALSE /\ sent' = Append(sent, p)
      /\ blocks' = longer /\ out' = out \o <<s, d, e>>
      /\ UNCHANGED <<provider, openByKind, toolAt, fired, hints, finished, ended>>
  BY <1>1 DEF FunctionCall, Send, Yield, Typed
<1>3. args \in Seq(Token) /\ "tool_use" \in Kind /\ n + 1 \in Nat
  BY <1>1, StreamingAssumption DEF Kind
<1>4. p \in SentPiece /\ p.kind = "tool_use" /\ p.text = args /\ p.call = n + 1
  BY <1>3 DEF SentPiece
<1>5. b \in Made
  BY <1>3 DEF Made
<1>6. s \in Event /\ d \in Event
  BY <1>3, DeltaOK
<1>7. e \in Event /\ e.type = "stop" /\ e.index = n + 1
  BY <1>3, EmptySeq DEF Event
<1>8. o2 \in Seq(Event) /\ Rendered(o2, longer) /\ Closed(o2) = Closed(out)
  BY <1>1, <1>3, NewEvents
<1>9. o2 = Append(Append(out, s), d)
  BY DEF Begun
<1> HIDE DEF e, s, d, p
<1>10. out' = Append(o2, e)
  BY <1>1, <1>2, <1>6, <1>7, <1>9, Data!ThreeMore
<1>11. longer \in Seq(Made) /\ Len(longer) = n + 1 /\ n + 1 \in 1..Len(longer)
  BY <1>1, <1>5, AppendProperties
<1>12. n + 1 \notin Closed(o2)
  <2>1. \A m \in DOMAIN out : out[m].index # n + 1
    BY <1>1 DEF Rendered
  <2>2. n + 1 \notin Closed(out)
    BY <2>1 DEF Closed, Where
  <2>3. QED
    BY <1>8, <2>2
<1> HIDE DEF o2, longer
<1>13. Rendered(Append(o2, e), longer) /\ Closed(Append(o2, e)) = Closed(o2) \cup {n + 1}
  BY <1>7, <1>8, <1>11, <1>12, RenderStop
<1>14. Append(o2, e) \in Seq(Event)
  BY <1>7, <1>8, AppendProperties
<1>15. out' \in Seq(Event) /\ Rendered(out', blocks')
  BY <1>2, <1>10, <1>13, <1>14
<1>16. \A j : j \in Closed(out') <=> \/ j \in Closed(out)
                                     \/ /\ provider = "gemini" /\ p.kind = "tool_use"
                                        /\ j = Len(blocks) + 1
  <2>1. Closed(out') = Closed(out) \cup {n + 1}
    BY <1>8, <1>10, <1>13
  <2>2. \A j : j \in Closed(out') <=> j \in Closed(out) \/ j = n + 1
    BY <2>1
  <2>3. QED
    BY <1>2, <1>4, <2>2
<1>17. FireIfThinking(p.kind, Len(blocks) + 1)
  BY <1>2, <1>4 DEF FireIfThinking
<1>18. blocks' = Append(blocks, [kind |-> p.kind, text |-> p.text])
  BY <1>2, <1>4 DEF longer
<1>19. p.kind \notin TextKind
  BY <1>4 DEF TextKind
<1>20. QED
  BY <1>2, <1>4, <1>15, <1>16, <1>17, <1>18, <1>19, NewStep

LEMMA ExtendedByNothing ==
    ASSUME NEW bs \in Seq(Made), NEW i \in 1..Len(bs)
    PROVE  Extended(bs, i, <<>>) = bs
<1> DEFINE more == Extended(bs, i, <<>>)
           b == Lengthened(bs[i], <<>>)
<1>1. <<>> \in Seq(Token) /\ bs[i] \in Made
  BY EmptySeq, ElementOfSeq
<1>2. /\ more \in Seq(Made) /\ Len(more) = Len(bs)
      /\ \A j \in 1..Len(bs) : more[j] = IF j = i THEN b ELSE bs[j]
  BY <1>1, Longer
<1>3. b = bs[i]
  <2>1. bs[i].text \o <<>> = bs[i].text
    BY <1>1, ConcatEmptySeq DEF Made
  <2>2. bs[i] = [kind |-> bs[i].kind, text |-> bs[i].text]
    BY <1>1 DEF Made
  <2>3. QED
    BY <2>1, <2>2 DEF Lengthened
<1> HIDE DEF more, b
<1>4. \A j \in 1..Len(more) : more[j] = bs[j]
  BY <1>2, <1>3
<1>5. QED
  BY <1>2, <1>4, SeqEqual DEF more

LEMMA ToolFragmentOK ==
    ASSUME Inv, NEW pos \in Position, NEW args \in Fragment, ToolFragment(pos, args)
    PROVE  Inv'
<1> DEFINE n == Len(blocks)
           known == toolAt[pos]
           i == IF known = 0 THEN n + 1 ELSE known
           p == [kind |-> "tool_use", call |-> pos, text |-> args]
           s == Start(n + 1, "tool_use")
           b == [kind |-> "tool_use", text |-> args]
<1>1. /\ Typed /\ Rendered(out, blocks) /\ Open /\ Stopped /\ n \in Nat
      /\ blocks \in Seq(Made) /\ out \in Seq(Event) /\ known \in 0..n
      /\ toolAt \in [Position -> 0..n]
  BY LenProperties DEF Inv, Typed
<1>2. /\ provider = "openai" /\ ended = FALSE /\ sent' = Append(sent, p)
      /\ toolAt' = [toolAt EXCEPT ![pos] = i]
      /\ UNCHANGED <<provider, openByKind, fired, hints, finished, ended>>
  BY <1>1 DEF ToolFragment, Send, Typed
<1>3. args \in Seq(Token) /\ "tool_use" \in Kind /\ i \in Nat /\ n + 1 \in Nat
  BY <1>1, StreamingAssumption DEF Kind
<1>4. p \in SentPiece /\ p.kind = "tool_use" /\ p.text = args /\ p.call = pos
      /\ p.kind \notin TextKind
  BY <1>3 DEF SentPiece, TextKind
<1>5. \A j : FireIfThinking(p.kind, j)
  BY <1>2, <1>4 DEF FireIfThinking
<1>6. s \in Event /\ s.type = "start" /\ s.index = n + 1 /\ s.kind = "tool_use"
      /\ Delta(n + 1, "tool_use", args) \in Event
  BY <1>3, DeltaOK
<1>7. CASE known = 0
  <2>1. blocks' = Append(blocks, b)
    BY <1>7 DEF ToolFragment
  <2>2. out' \in Seq(Event) /\ Rendered(out', blocks') /\ Closed(out') = Closed(out)
    <3>1. CASE args = <<>>
      <4>1. out' = out \o (<<s>> \o <<>>)
        BY <1>7, <3>1 DEF ToolFragment, Yield
      <4>2. <<s>> \o <<>> = <<s>>
        BY <1>6, ConcatEmptySeq
      <4> HIDE DEF s
      <4>3. out' = Append(out, s)
        BY <1>1, <1>6, <4>1, <4>2, Data!OneMore
      <4>4. /\ Rendered(Append(out, s), Append(blocks, [kind |-> "tool_use", text |-> <<>>]))
            /\ Closed(Append(out, s)) = Closed(out)
        BY <1>1, <1>3, <1>6, RenderStart
      <4>5. Append(out, s) \in Seq(Event)
        BY <1>1, <1>6, AppendProperties
      <4>6. QED
        BY <2>1, <3>1, <4>3, <4>4, <4>5
    <3>2. CASE args # <<>>
      <4> DEFINE d == Delta(n + 1, "tool_use", args)
                 o2 == Begun(out, n + 1, "tool_use", args)
      <4>1. out' = out \o (<<s>> \o <<d>>)
        BY <1>7, <3>2 DEF ToolFragment, Yield
      <4> HIDE DEF s, d
      <4>2. <<s>> \in Seq(Event) /\ s \in Event /\ d \in Event
        BY <1>6 DEF d
      <4>3. <<s>> \o <<d>> = Append(<<s>>, d)
        BY <4>2, Data!OneMore
      <4>4. out \o Append(<<s>>, d) = Append(out \o <<s>>, d)
        BY <1>1, <4>2, Data!ConcatAppend
      <4>5. out' = o2
        <5>1. out \o <<s>> = Append(out, s)
          BY <1>1, <4>2, Data!OneMore
        <5>2. QED
          BY <4>1, <4>3, <4>4, <5>1 DEF Begun, s, d
      <4>6. o2 \in Seq(Event) /\ Rendered(o2, Append(blocks, b)) /\ Closed(o2) = Closed(out)
        BY <1>1, <1>3, NewEvents
      <4> HIDE DEF o2
      <4>7. QED
        BY <2>1, <4>5, <4>6
    <3>3. QED
      BY <3>1, <3>2
  <2>3. i = n + 1 /\ toolAt' = [toolAt EXCEPT ![p.call] = n + 1]
        /\ p.call \in Position /\ toolAt[p.call] = 0
    BY <1>2, <1>7
  <2>4. \A j : j \in Closed(out') <=> \/ j \in Closed(out)
                                      \/ /\ provider = "gemini" /\ p.kind = "tool_use"
                                         /\ j = Len(blocks) + 1
    BY <1>2, <2>2
  <2>5. blocks' = Append(blocks, [kind |-> p.kind, text |-> p.text])
    BY <2>1
  <2> HIDE DEF p
  <2>6. QED
    BY <1>2, <1>4, <1>5, <2>2, <2>3, <2>4, <2>5, NewStep
<1>8. CASE known # 0
  <2>1. i = known /\ i \in 1..n /\ blocks[i].kind = "tool_use"
    BY <1>1, <1>2, <1>8 DEF Open
  <2>2. blocks' = Extended(blocks, i, args)
    BY <1>8, <2>1 DEF ToolFragment, Extended
  <2>3. toolAt' = toolAt
    BY <1>1, <1>2, <2>1
  <2>4. i \notin Closed(out)
    BY <1>1, <1>2, <2>1 DEF Stopped
  <2>5. out' \in Seq(Event) /\ Rendered(out', blocks') /\ Closed(out') = Closed(out)
    <3>1. CASE args = <<>>
      <4>1. out' = out \o <<>>
        BY <1>8, <3>1 DEF ToolFragment, Yield
      <4>2. out' = out
        BY <1>1, <4>1, ConcatEmptySeq
      <4>3. Extended(blocks, i, <<>>) = blocks
        BY <1>1, <2>1, ExtendedByNothing
      <4>4. QED
        BY <1>1, <2>2, <3>1, <4>2, <4>3
    <3>2. CASE args # <<>>
      <4> DEFINE d == Delta(i, "tool_use", args)
                 o2 == Append(out, Delta(i, blocks[i].kind, args))
      <4>1. out' = out \o <<d>>
        BY <1>8, <2>1, <3>2 DEF ToolFragment, Yield
      <4>2. d \in Event
        BY <1>3, DeltaOK
      <4> HIDE DEF d
      <4>3. out' = Append(out, d)
        BY <1>1, <4>1, <4>2, Data!OneMore
      <4>4. out' = o2
        BY <2>1, <4>3 DEF d
      <4> HIDE DEF i
      <4>5. o2 \in Seq(Event) /\ Rendered(o2, Extended(blocks, i, args)) /\ Closed(o2) = Closed(out)
        BY <1>1, <1>3, <2>1, <2>4, GrowEvents
      <4> HIDE DEF o2
      <4>6. QED
        BY <2>2, <4>4, <4>5
    <3>3. QED
      BY <3>1, <3>2
  <2> HIDE DEF p, i
  <2>6. QED
    BY <1>1, <1>2, <1>4, <1>5, <2>1, <2>2, <2>3, <2>4, <2>5, GrowStep
<1>9. QED
  BY <1>7, <1>8

\* What End closes is open, and after it nothing is.
LEMMA WhatEndCloses ==
    ASSUME Typed, Open, Stopped, ended = FALSE
    PROVE  /\ TextBlocks \subseteq 1..Len(blocks) /\ ToolBlocks \subseteq 1..Len(blocks)
           /\ TextBlocks \cap Closed(out) = {} /\ ToolBlocks \cap Closed(out) = {}
           /\ TextBlocks \cap ToolBlocks = {}
           /\ provider # "anthropic" =>
                1..Len(blocks) \subseteq Closed(out) \cup TextBlocks \cup ToolBlocks
<1> DEFINE n == Len(blocks)
<1>1. /\ n \in Nat /\ provider \in {"anthropic", "gemini", "openai"}
      /\ openByKind \in [TextKind -> 0..n] /\ toolAt \in [Position -> 0..n]
      /\ \A i \in 1..n : blocks[i].kind \in Kind
  <2>1. blocks \in Seq(Made)
    BY DEF Typed
  <2>2. n \in Nat /\ \A i \in 1..n : blocks[i] \in Made
    BY <2>1, LenProperties, ElementOfSeq
  <2>3. \A i \in 1..n : blocks[i].kind \in Kind
    BY <2>2 DEF Made
  <2>4. provider \in {"anthropic", "gemini", "openai"}
    BY StreamingAssumption DEF Typed
  <2>5. openByKind \in [TextKind -> 0..n] /\ toolAt \in [Position -> 0..n]
    BY DEF Typed
  <2>6. QED
    BY <2>2, <2>3, <2>4, <2>5
<1>2. \A i \in TextBlocks : \E k \in TextKind : openByKind[k] = i /\ i # 0
  BY DEF TextBlocks, TextKind
<1>3. \A i \in ToolBlocks : \E pos \in Position : toolAt[pos] = i /\ i # 0
  BY DEF ToolBlocks
<1>4. ASSUME NEW i \in TextBlocks
      PROVE  i \in 1..n /\ i \notin Closed(out) /\ blocks[i].kind # "tool_use"
  <2>1. PICK k \in TextKind : openByKind[k] = i /\ i # 0
    BY <1>2
  <2>2. i \in 1..n /\ provider # "anthropic"
    BY <1>1, <2>1 DEF Open
  <2>3. blocks[i].kind = k /\ k # "tool_use"
    BY <2>1, <2>2 DEF Open, TextKind
  <2>4. QED
    BY <2>2, <2>3 DEF Stopped
<1>5. ASSUME NEW i \in ToolBlocks
      PROVE  i \in 1..n /\ i \notin Closed(out) /\ blocks[i].kind = "tool_use"
  <2>1. PICK pos \in Position : toolAt[pos] = i /\ i # 0
    BY <1>3
  <2>2. i \in 1..n /\ provider = "openai"
    BY <1>1, <2>1 DEF Open
  <2>3. blocks[i].kind = "tool_use"
    BY <2>1, <2>2 DEF Open
  <2>4. QED
    BY <2>2, <2>3 DEF Stopped
<1>6. ASSUME provider # "anthropic", NEW i \in 1..n
      PROVE  i \in Closed(out) \cup TextBlocks \cup ToolBlocks
  <2>1. i # 0
    BY <1>1
  <2>2. CASE blocks[i].kind \in TextKind
    <3>1. openByKind[blocks[i].kind] = i
      BY <1>6, <2>2 DEF Open
    <3>2. QED
      BY <2>1, <2>2, <3>1 DEF TextBlocks, TextKind
  <2>3. CASE blocks[i].kind = "tool_use" /\ provider = "gemini"
    BY <2>3 DEF Stopped
  <2>4. CASE blocks[i].kind = "tool_use" /\ provider = "openai"
    <3>1. PICK pos \in Position : toolAt[pos] = i
      BY <2>4 DEF Open
    <3>2. QED
      BY <2>1, <3>1 DEF ToolBlocks
  <2>5. QED
    BY <1>1, <1>6, <2>2, <2>3, <2>4 DEF Kind, TextKind
<1>7. QED
  BY <1>4, <1>5, <1>6

LEMMA InOrderOK ==
    ASSUME NEW n \in Nat, NEW S \in SUBSET (1..n)
    PROVE  InOrder(S) \in Seq(1..n) /\ Once(InOrder(S)) /\ Members(InOrder(S)) = S
<1>1. S \in SUBSET Nat /\ IsFiniteSet(S)
  <2>1. IsFiniteSet(1..n)
    BY FS_Interval
  <2>2. IsFiniteSet(S)
    BY <2>1, FS_Subset
  <2>3. QED
    BY <2>2
<1> DEFINE q == InOrder(S)
<1>2. /\ q \in Seq(S) /\ \A a, b \in DOMAIN q : q[a] = q[b] => a = b
      /\ {q[a] : a \in DOMAIN q} = S
  BY <1>1, OrderOK
<1> HIDE DEF q
<1>3. q \in Seq(1..n)
  <2>1. Len(q) \in Nat /\ q \in [1..Len(q) -> S]
    BY <1>2, LenProperties
  <2>2. q \in [1..Len(q) -> 1..n]
    BY <2>1
  <2>3. QED
    BY <2>1, <2>2, SeqDef
<1>4. QED
  BY <1>2, <1>3 DEF q, Once, Members

LEMMA EndOK ==
    ASSUME Inv, End
    PROVE  Inv'
<1> DEFINE n == Len(blocks)
           s1 == Stops(blocks, InOrder(TextBlocks))
           s2 == Stops(blocks, InOrder(ToolBlocks))
           o1 == out \o s1
           o2 == o1 \o s2
           m == MessageStop
<1>1. /\ Typed /\ Rendered(out, blocks) /\ Open /\ Stopped /\ Carried
      /\ Heard /\ OneHintPerRule /\ n \in Nat
      /\ blocks \in Seq(Made) /\ out \in Seq(Event)
  BY LenProperties DEF Inv, Typed
<1>2. /\ ended = FALSE /\ ended' = TRUE
      /\ (OpenBlocks = {} \/ provider # "anthropic")
      /\ finished' = IF provider = "gemini" THEN <<>> ELSE TextsOf(Kept(blocks, IsThinking))
      /\ UNCHANGED <<provider, blocks, openByKind, toolAt, fired, hints, sent>>
  BY <1>1 DEF End, Typed, streamVars
<1>3. out' = out \o Append(s1 \o s2, m)
  BY DEF End, Yield, StopAll, Stops, Stop, StopOf
<1>4. /\ TextBlocks \subseteq 1..n /\ ToolBlocks \subseteq 1..n
      /\ TextBlocks \cap Closed(out) = {} /\ ToolBlocks \cap Closed(out) = {}
      /\ TextBlocks \cap ToolBlocks = {}
      /\ provider # "anthropic" => 1..n \subseteq Closed(out) \cup TextBlocks \cup ToolBlocks
  BY <1>1, <1>2, WhatEndCloses
<1> DEFINE q1 == InOrder(TextBlocks)
           q2 == InOrder(ToolBlocks)
<1>5. /\ q1 \in Seq(1..n) /\ Once(q1) /\ Members(q1) = TextBlocks
      /\ q2 \in Seq(1..n) /\ Once(q2) /\ Members(q2) = ToolBlocks
  BY <1>1, <1>4, InOrderOK
<1> HIDE DEF q1, q2
<1>6. /\ s1 \in Seq(Event) /\ o1 \in Seq(Event) /\ Rendered(o1, blocks)
      /\ Closed(o1) = Closed(out) \cup TextBlocks
  <2>1. Members(q1) \cap Closed(out) = {}
    BY <1>4, <1>5
  <2>2. /\ Stops(blocks, q1) \in Seq(Event) /\ out \o Stops(blocks, q1) \in Seq(Event)
        /\ Rendered(out \o Stops(blocks, q1), blocks)
        /\ Closed(out \o Stops(blocks, q1)) = Closed(out) \cup Members(q1)
    BY <1>1, <1>5, <2>1, RenderStops
  <2>3. QED
    BY <1>5, <2>2 DEF q1
<1> HIDE DEF o1
<1>7. /\ s2 \in Seq(Event) /\ o2 \in Seq(Event) /\ Rendered(o2, blocks)
      /\ Closed(o2) = Closed(o1) \cup ToolBlocks
  <2>1. Members(q2) \cap Closed(o1) = {}
    BY <1>4, <1>5, <1>6
  <2>2. /\ Stops(blocks, q2) \in Seq(Event) /\ o1 \o Stops(blocks, q2) \in Seq(Event)
        /\ Rendered(o1 \o Stops(blocks, q2), blocks)
        /\ Closed(o1 \o Stops(blocks, q2)) = Closed(o1) \cup Members(q2)
    BY <1>1, <1>5, <1>6, <2>1, RenderStops
  <2>3. QED
    BY <1>5, <2>2 DEF q2
<1> HIDE DEF s1, s2
<1>8. m \in Event /\ m.type = "message_stop" /\ m.index = 0
  BY EmptySeq DEF MessageStop, Event
<1> HIDE DEF m
<1>9. out' = Append(o2, m)
  <2>1. s1 \o s2 \in Seq(Event)
    BY <1>6, <1>7, ConcatProperties
  <2>2. out \o Append(s1 \o s2, m) = Append(out \o (s1 \o s2), m)
    BY <1>1, <1>8, <2>1, Data!ConcatAppend
  <2>3. out \o (s1 \o s2) = (out \o s1) \o s2
    BY <1>1, <1>6, <1>7, Regroup DEF OneByOne, AtOnce
  <2>4. QED
    BY <1>3, <2>2, <2>3 DEF o1
<1> HIDE DEF o2
<1>10. Rendered(Append(o2, m), blocks) /\ Closed(Append(o2, m)) = Closed(o2)
  BY <1>1, <1>7, <1>8, RenderEnd
<1>11. out' \in Seq(Event) /\ Rendered(out', blocks')
       /\ Closed(out') = Closed(out) \cup TextBlocks \cup ToolBlocks
  <2>1. Append(o2, m) \in Seq(Event)
    BY <1>7, <1>8, AppendProperties
  <2>2. QED
    BY <1>2, <1>6, <1>7, <1>9, <1>10, <2>1
<1>12. 1..n \subseteq Closed(out')
  <2>1. CASE provider = "anthropic"
    <3>1. (1..n) \ Closed(out) = {}
      BY <1>1, <1>2, <2>1, OpenIs
    <3>2. QED
      BY <1>11, <3>1
  <2>2. CASE provider # "anthropic"
    BY <1>4, <1>11, <2>2
  <2>3. QED
    BY <2>1, <2>2
<1>13. Typed'
  BY <1>1, <1>2, <1>11 DEF Typed
<1>14. Open' /\ Carried' /\ Heard' /\ OneHintPerRule'
  <2>1. Open'
    BY <1>1, <1>2 DEF Open
  <2>2. Carried'
    BY <1>1, <1>2 DEF Carried
  <2>3. Heard' /\ OneHintPerRule'
    BY <1>1, <1>2 DEF Heard, OneHintPerRule
  <2>4. QED
    BY <2>1, <2>2, <2>3
<1>15. Stopped'
  <2>1. Closed(out') \subseteq 1..n
    BY <1>1, <1>4, <1>11 DEF Stopped
  <2>2. QED
    BY <1>2, <1>12, <2>1 DEF Stopped
<1>16. Stored'
  BY <1>2 DEF Stored
<1>17. QED
  BY <1>11, <1>13, <1>14, <1>15, <1>16 DEF Inv

LEMMA InitOK == Init => Inv
<1> SUFFICES ASSUME Init PROVE Inv
  OBVIOUS
<1>1. /\ provider \in Provider /\ blocks = <<>> /\ out = <<>> /\ sent = <<>>
      /\ openByKind = [k \in TextKind |-> 0] /\ toolAt = [pos \in Position |-> 0]
      /\ fired = {} /\ hints = [r \in Rule |-> 0] /\ ended = FALSE
  BY DEF Init, TextKind
<1>2. Len(blocks) = 0 /\ DOMAIN out = {} /\ DOMAIN sent = {} /\ 1..Len(blocks) = {}
  BY <1>1
<1>3. Typed
  <2>1. blocks \in Seq(Made) /\ out \in Seq(Event) /\ sent \in Seq(SentPiece)
    BY <1>1, EmptySeq
  <2>2. 0..Len(blocks) = {0}
    BY <1>2
  <2>3. openByKind \in [TextKind -> 0..Len(blocks)] /\ toolAt \in [Position -> 0..Len(blocks)]
    BY <1>1, <2>2
  <2>4. hints \in [Rule -> Nat] /\ fired \subseteq Rule
    BY <1>1
  <2>5. QED
    BY <1>1, <2>1, <2>3, <2>4 DEF Typed
<1>4. Rendered(out, blocks)
  BY <1>2 DEF Rendered
<1>5. Open
  BY <1>1, <1>2 DEF Open
<1>6. Stopped
  <2>1. Closed(out) = {}
    BY <1>2 DEF Closed, Where
  <2>2. QED
    BY <1>1, <1>2, <2>1 DEF Stopped
<1>7. Carried
  <2>1. SameTexts(sent, blocks)
    BY <1>1, PickedEmpty DEF SameTexts
  <2>2. \A pos \in Position : toolAt[pos] = 0
    BY <1>1
  <2>3. QED
    BY <1>2, <2>1, <2>2 DEF Carried
<1>8. Heard
  BY <1>2 DEF Heard
<1>9. OneHintPerRule
  BY <1>1 DEF OneHintPerRule
<1>10. Stored
  BY <1>1 DEF Stored
<1>11. QED
  BY <1>3, <1>4, <1>5, <1>6, <1>7, <1>8, <1>9, <1>10 DEF Inv

LEMMA StutterOK == Inv /\ UNCHANGED vars => Inv'
BY DEF vars, Inv, Typed, Rendered, Open, Stopped, Carried, Heard, OneHintPerRule, Stored

LEMMA StepOK == Inv /\ [Next]_vars => Inv'
<1> SUFFICES ASSUME Inv, [Next]_vars PROVE Inv'
  OBVIOUS
<1>1. CASE \E kind \in Kind : BlockStart(kind)
  BY <1>1, BlockStartOK
<1>2. CASE \E i \in OpenBlocks, text \in Piece \cup Fragment : BlockDelta(i, text)
  BY <1>2, BlockDeltaOK
<1>3. CASE \E i \in OpenBlocks : BlockStop(i)
  BY <1>3, BlockStopOK
<1>4. CASE \E kind \in {"thinking", "text"}, text \in Piece : EmitText(kind, text)
  BY <1>4, EmitTextOK DEF TextKind
<1>5. CASE \E args \in Fragment : FunctionCall(args)
  BY <1>5, FunctionCallOK
<1>6. CASE \E pos \in Position, args \in Fragment : ToolFragment(pos, args)
  BY <1>6, ToolFragmentOK
<1>7. CASE End
  BY <1>7, EndOK
<1>8. CASE UNCHANGED vars
  BY <1>8, StutterOK
<1>9. QED
  BY <1>1, <1>2, <1>3, <1>4, <1>5, <1>6, <1>7, <1>8 DEF Next

\* Whatever the provider sends, in whatever pieces and order, the events and
\* the dispatcher's record agree with the blocks the wrapper has made.
THEOREM Invariance == Spec => []Inv
BY InitOK, StepOK, PTL DEF Spec

-----------------------------------------------------------------------------
(***************************************************************************)
(* What follows from it.                                                   *)
(***************************************************************************)
LEMMA AtMostOne ==
    ASSUME NEW S, \A a, b \in S : a = b
    PROVE  IsFiniteSet(S) /\ Cardinality(S) <= 1
<1>1. CASE S = {}
  BY <1>1, FS_EmptySet
<1>2. CASE S # {}
  <2>1. PICK a \in S : TRUE
    BY <1>2
  <2>2. S = {a}
    BY <2>1
  <2>3. IsFiniteSet({a}) /\ Cardinality({a}) = 1
    BY FS_Singleton
  <2>4. QED
    BY <2>2, <2>3
<1>3. QED
  BY <1>1, <1>2

LEMMA OfKindIs ==
    /\ \A bs \in Seq(Made) : \A k : OfKind(bs, k) = Picked(MadePick(k), bs)
    /\ \A sn \in Seq(SentPiece) : \A k : OfKind(sn, k) = Picked(PiecePick(k), sn)
<1>1. ASSUME NEW bs \in Seq(Made), NEW k PROVE OfKind(bs, k) = Picked(MadePick(k), bs)
  <2>1. \A n \in DOMAIN bs : bs[n] \in Made
    BY LenProperties, ElementOfSeq
  <2>2. [n \in DOMAIN bs |-> IF bs[n].kind = k THEN bs[n].text ELSE <<>>] = Picks(MadePick(k), bs)
    BY <2>1 DEF Picks, MadePick
  <2>3. QED
    BY <2>2 DEF OfKind, TextWhere, Picked
<1>2. ASSUME NEW sn \in Seq(SentPiece), NEW k PROVE OfKind(sn, k) = Picked(PiecePick(k), sn)
  <2>1. \A n \in DOMAIN sn : sn[n] \in SentPiece
    BY LenProperties, ElementOfSeq
  <2>2. [n \in DOMAIN sn |-> IF sn[n].kind = k THEN sn[n].text ELSE <<>>] = Picks(PiecePick(k), sn)
    BY <2>1 DEF Picks, PiecePick
  <2>3. QED
    BY <2>2 DEF OfKind, TextWhere, Picked
<1>3. QED
  BY <1>1, <1>2

LEMMA ArgsOfIs ==
    ASSUME sent \in Seq(SentPiece), NEW c
    PROVE  ArgsOf(c) = Picked(CallPick(c), sent)
<1>1. \A n \in DOMAIN sent : sent[n] \in SentPiece
  BY LenProperties, ElementOfSeq
<1>2. [n \in DOMAIN sent |-> IF sent[n].kind = "tool_use" /\ sent[n].call = c
                             THEN sent[n].text ELSE <<>>] = Picks(CallPick(c), sent)
  BY <1>1 DEF Picks, CallPick
<1>3. QED
  BY <1>2 DEF ArgsOf, TextWhere, Picked

\* Whatever the provider, every block is started once, its deltas are of its
\* kind and come before its one stop, and all are stopped when the message is.
THEOREM EventsLikeTheSDK == Spec => []EventsWellFormed
<1>1. Inv => EventsWellFormed
  <2> SUFFICES ASSUME Inv PROVE EventsWellFormed
    OBVIOUS
  <2>1. Rendered(out, blocks) /\ Stopped /\ Len(blocks) \in Nat
    BY LenProperties DEF Inv, Typed
  <2>2. ASSUME NEW i \in {out[n].index : n \in DOMAIN out} \ {0}
        PROVE  /\ Cardinality(Where(out, "start", i)) = 1
               /\ Cardinality(Where(out, "stop", i)) <= 1
               /\ \A m \in Where(out, "start", i),
                     n \in Where(out, "delta", i) \cup Where(out, "stop", i) : m < n
               /\ \A m \in Where(out, "delta", i), n \in Where(out, "stop", i) : m < n
               /\ \A m \in Where(out, "delta", i), n \in Where(out, "start", i) :
                     out[m].kind = out[n].kind
               /\ ended => Where(out, "stop", i) # {}
    <3>1. i \in 1..Len(blocks)
      <4>1. i \in 0..Len(blocks) /\ i # 0
        BY <2>1 DEF Rendered
      <4>2. QED
        BY <2>1, <4>1
    <3>2. Shape(out, i, blocks[i].kind)
      BY <2>1, <3>1 DEF Rendered
    <3>3. PICK s \in Where(out, "start", i) :
             /\ Where(out, "start", i) = {s} /\ out[s].kind = blocks[i].kind
             /\ \A m \in Where(out, "delta", i) \cup Where(out, "stop", i) : s < m
      BY <3>2 DEF Shape
    <3>4. Cardinality(Where(out, "start", i)) = 1
      BY <3>3, FS_Singleton
    <3>5. Cardinality(Where(out, "stop", i)) <= 1
      BY <3>2, AtMostOne DEF Shape
    <3>6. \A m \in Where(out, "delta", i) : out[m].kind = blocks[i].kind
      BY <3>2 DEF Shape
    <3>7. \A m \in Where(out, "delta", i), n \in Where(out, "stop", i) : m < n
      BY <3>2 DEF Shape
    <3>8. ended => Where(out, "stop", i) # {}
      BY <2>1, <3>1 DEF Stopped, Closed
    <3>9. QED
      BY <3>3, <3>4, <3>5, <3>6, <3>7, <3>8
  <2>3. QED
    BY <2>2 DEF EventsWellFormed, Where
<1>2. QED
  BY <1>1, Invariance, PTL

\* The message rebuilt from the events holds all that was sent, per kind of
\* text and per tool call, however the calls interleave.
THEOREM AllIsRebuilt == Spec => []NothingIsLost
<1>1. Inv => NothingIsLost
  <2> SUFFICES ASSUME Inv PROVE NothingIsLost
    OBVIOUS
  <2>1. /\ blocks \in Seq(Made) /\ sent \in Seq(SentPiece) /\ Carried /\ Rebuild = blocks
        /\ toolAt \in [Position -> 0..Len(blocks)]
    BY RebuildIs DEF Inv, Typed
  <2>2. \A k \in {"thinking", "text"} : OfKind(Rebuild, k) = OfKind(sent, k)
    BY <2>1, OfKindIs DEF Carried, SameTexts, TextKind
  <2>3. ASSUME NEW call \in Calls
        PROVE  \E n \in DOMAIN Rebuild :
                 Rebuild[n].kind = "tool_use" /\ Rebuild[n].text = ArgsOf(call)
    <3>1. PICK m \in DOMAIN sent : sent[m].kind = "tool_use" /\ sent[m].call = call
      BY DEF Calls
    <3>2. ArgsOf(call) = Picked(CallPick(call), sent)
      BY <2>1, ArgsOfIs
    <3>3. DOMAIN blocks = 1..Len(blocks) /\ Len(blocks) \in Nat
      BY <2>1, LenProperties
    <3>4. CASE provider # "openai"
      <4>1. call \in 1..Len(blocks) /\ blocks[call].kind = "tool_use"
        BY <2>1, <3>1, <3>4 DEF Carried
      <4>2. blocks[call].text = Picked(CallPick(call), sent)
        BY <2>1, <3>4, <4>1 DEF Carried
      <4>3. QED
        BY <2>1, <3>2, <3>3, <4>1, <4>2
    <3>5. CASE provider = "openai"
      <4>1. call \in Position /\ toolAt[call] # 0
        BY <2>1, <3>1, <3>5 DEF Carried
      <4>2. blocks[toolAt[call]].text = Picked(CallPick(call), sent)
        BY <2>1, <3>5, <4>1 DEF Carried
      <4>3. toolAt[call] \in 1..Len(blocks)
        BY <2>1, <3>3, <4>1
      <4>4. blocks[toolAt[call]].kind = "tool_use"
        BY <3>5, <4>1 DEF Inv, Open
      <4>5. QED
        BY <2>1, <3>2, <3>3, <4>2, <4>3, <4>4
    <3>6. QED
      BY <3>4, <3>5
  <2>4. QED
    BY <2>2, <2>3 DEF NothingIsLost
<1>2. QED
  BY <1>1, Invariance, PTL

\* With a stager, a rule that matches a rebuilt thinking block fired while it
\* was streamed, wherever the provider cut the text into pieces.
THEOREM NoMatchSlips == Spec => []NothingSlips
<1>1. Inv => NothingSlips
  <2> SUFFICES ASSUME Inv PROVE NothingSlips
    OBVIOUS
  <2>1. blocks \in Seq(Made) /\ Rebuild = blocks /\ Heard
    BY RebuildIs DEF Inv, Typed
  <2>2. DOMAIN blocks = 1..Len(blocks)
    BY <2>1, LenProperties
  <2>3. QED
    BY <2>1, <2>2 DEF NothingSlips, Heard, Found
<1>2. QED
  BY <1>1, Invariance, PTL

\* The stager is handed a rule's files once, if they are few and it has fired.
THEOREM HandedOnce == Spec => []OneHintPerRule
<1>1. Inv => OneHintPerRule
  BY DEF Inv
<1>2. QED
  BY <1>1, Invariance, PTL

\* The thinking text kept in the session is what the consumer rebuilt.
THEOREM SessionAgrees == Spec => []SessionKeepsThinking
<1>1. Inv => SessionKeepsThinking
  <2> SUFFICES ASSUME Inv PROVE SessionKeepsThinking
    OBVIOUS
  <2>1. Rebuild = blocks /\ Stored
    BY RebuildIs DEF Inv, Typed
  <2>2. QED
    BY <2>1 DEF SessionKeepsThinking, Stored
<1>2. QED
  BY <1>1, Invariance, PTL
=============================================================================
