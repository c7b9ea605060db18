---------------------------- MODULE CodecsProofs ----------------------------
(***************************************************************************)
(* Proofs about Codecs for any archives, any sizes of the target and any   *)
(* number of changes of the cold tier by others.                           *)
(***************************************************************************)
EXTENDS Codecs, SequenceTheorems, TLAPS

Plus(sum, m) == sum + m
Adding == INSTANCE FoldTheory WITH Op <- Plus, Base <- 0

-----------------------------------------------------------------------------
(***************************************************************************)
(* What the members of a file expand to.                                   *)
(***************************************************************************)
LEMMA TotalIsSum == \A a : Total(a) = Adding!Fold(a.members)
BY DEF Total, FoldLeft, MapThenFoldSet, Max, Plus,
       Adding!Fold, Adding!FoldLeft, Adding!MapThenFoldSet, Adding!Max

\* Members of natural sizes expand to a natural size.
LEMMA SumIsNat == \A s \in Seq(Nat) : Adding!Fold(s) \in Nat
<1> DEFINE T == {n \in Nat : \A s \in Seq(Nat) : Len(s) = n => Adding!Fold(s) \in Nat}
<1>1. 0 \in T
  BY Adding!FoldEmpty, EmptySeq
<1>2. ASSUME NEW n \in T PROVE n + 1 \in T
  <2> SUFFICES ASSUME NEW s \in Seq(Nat), Len(s) = n + 1 PROVE Adding!Fold(s) \in Nat
    OBVIOUS
  <2>1. s # <<>>
    BY EmptySeq
  <2>2. PICK f \in Seq(Nat), m \in Nat : s = Append(f, m)
    BY <2>1, SequenceEmptyOrAppend
  <2>3. Len(f) = n
    BY <2>2, AppendProperties, LenProperties
  <2>4. Adding!Fold(f) \in Nat
    BY <2>3
  <2>5. Adding!Fold(s) = Plus(Adding!Fold(f), m)
    BY <2>2, Adding!FoldAppend
  <2>6. QED
    BY <2>4, <2>5 DEF Plus
<1>3. T = Nat
  <2> HIDE DEF T
  <2>1. T \subseteq Nat
    BY DEF T
  <2>2. QED
    BY <1>1, <1>2, <2>1, Adding!InductiveSet
<1>4. QED
  BY <1>3, LenProperties

\* A single member expands to itself.
LEMMA SumOfOne == \A m \in Nat : Adding!Fold(<<m>>) = m
<1> SUFFICES ASSUME NEW m \in Nat PROVE Adding!Fold(<<m>>) = m
  OBVIOUS
<1>1. <<>> \in Seq(Nat) /\ <<m>> = Append(<<>>, m)
  BY EmptySeq
<1>2. Adding!Fold(Append(<<>>, m)) = Plus(Adding!Fold(<<>>), m)
  BY <1>1, Adding!FoldAppend
<1>3. QED
  BY <1>1, <1>2, Adding!FoldEmpty DEF Plus

\* The last member is no larger than all of them.
LEMMA LastWithinSum ==
    ASSUME NEW s \in Seq(Nat), s # <<>>
    PROVE  Last(s) \in Nat /\ Last(s) <= Adding!Fold(s)
<1>1. PICK f \in Seq(Nat), m \in Nat : s = Append(f, m)
  BY SequenceEmptyOrAppend
<1>2. Last(s) = m
  BY <1>1, AppendProperties, LenProperties DEF Last
<1>3. Adding!Fold(s) = Plus(Adding!Fold(f), m) /\ Adding!Fold(f) \in Nat
  BY <1>1, Adding!FoldAppend, SumIsNat
<1>4. QED
  BY <1>2, <1>3 DEF Plus

FileOK(a) ==
    /\ a.members \in Seq(Nat) /\ a.broken \in BOOLEAN
    /\ a.stored \in Nat

LEMMA FilesOK ==
    ASSUME NEW n \in Name, NEW a \in File[n]
    PROVE  /\ FileOK(a) /\ Total(a) \in Nat
           /\ n = "plain" => a.stored = Total(a) /\ ~a.broken
           /\ n # "plain" => (a.stored = 0 <=> a.members = <<>> /\ ~a.broken)
<1>1. CASE n = "plain"
  <2>1. PICK size \in Nat : a = Whole(size)
    BY <1>1, CodecsAssumption DEF File
  <2>2. a.members = <<size>> /\ a.broken = FALSE /\ a.broken \in BOOLEAN /\ a.stored = size
    BY <2>1 DEF Whole
  <2>3. Total(a) = size
    BY <2>2, TotalIsSum, SumOfOne
  <2>4. QED
    <3>1. a.members \in Seq(Nat) /\ size \in Nat
      BY <2>2
    <3>2. FileOK(a)
      BY <2>2, <3>1 DEF FileOK
    <3>3. Total(a) \in Nat /\ a.stored = Total(a)
      BY <2>2, <2>3
    <3>4. QED
      BY <1>1, <2>2, <3>2, <3>3
<1>2. CASE n # "plain"
  <2>1. a \in Archive
    BY <1>2 DEF File
  <2>2. QED
    BY <1>2, <2>1, CodecsAssumption, TotalIsSum, SumIsNat DEF FileOK
<1>3. QED
  BY <1>1, <1>2

LEMMA Names ==
    /\ Name = {"plain", "gz", "zst", "bz2", "xz"}
    /\ Len(CODECS) = 4 /\ \A k \in 1..4 : CODECS[k] \in Name \ {"plain"}
    /\ \A n \in Name \ {"plain"} : \E k \in 1..4 : CODECS[k] = n
<1>1. DOMAIN CODECS = 1..4 /\ Len(CODECS) = 4
  BY DEF CODECS
<1>2. CODECS[1] = "gz" /\ CODECS[2] = "zst" /\ CODECS[3] = "bz2" /\ CODECS[4] = "xz"
  BY DEF CODECS
<1>3. ToSet(CODECS) = {"gz", "zst", "bz2", "xz"}
  BY <1>1, <1>2 DEF ToSet
<1>4. QED
  BY <1>1, <1>2, <1>3 DEF Name

\* The size that is estimated of a whole archive.
LEMMA EstimateIsNat ==
    ASSUME NEW n \in Name \ {"plain"}, NEW a \in File[n], NEW size \in ExpandedSizes(n, a)
    PROVE  size \in Nat
<1>1. FileOK(a) /\ (a.stored = 0 <=> a.members = <<>> /\ ~a.broken) /\ Word \in Nat \ {0}
  BY FilesOK, CodecsAssumption
<1>2. \A isize \in Nat : GzipSize(a, isize) \in Nat
  BY <1>1 DEF GzipSize, FileOK, FALLBACK_RATIO
<1>3. a.stored * FALLBACK_RATIO \in Nat
  BY <1>1 DEF FileOK, FALLBACK_RATIO
<1>4. a.stored # 0 => Trailer(a) \subseteq Nat
  <2>1. CASE a.broken
    BY <1>1, <2>1 DEF Trailer
  <2>2. CASE ~a.broken /\ a.stored # 0
    <3>1. a.members \in Seq(Nat) /\ a.members # <<>>
      BY <1>1, <2>2 DEF FileOK
    <3>2. Len(a.members) \in DOMAIN a.members
      BY <3>1, EmptySeq, LenProperties
    <3>3. Last(a.members) \in Nat
      BY <3>1, <3>2, ElementOfSeq, LenProperties DEF Last
    <3>4. QED
      BY <1>1, <2>2, <3>3 DEF Trailer
  <2>3. QED
    BY <1>1, <2>1, <2>2 DEF FileOK
<1>5. QED
  BY <1>2, <1>3, <1>4 DEF ExpandedSizes

-----------------------------------------------------------------------------
(***************************************************************************)
(* The inductive invariant.                                                *)
(***************************************************************************)
\* The variables keep their types, and a file that was read is a file.
Typed ==
    /\ TypeOK
    /\ cold = [n \in Name |-> cold[n]]
    /\ steady \subseteq {n \in Name : Present(n)}
    /\ pc = "placed" => read \in File[plan.source]

\* The target was absent or its stat failed where archives are looked at.
Passed == "plain" \in steady => plan.source = "plain" /\ pc \notin {"probe", "estimate"}

\* Each archive of a codec that is behind the search is lost, failed or useless.
Useless(n) == n \in steady => n \in failed \/ ~Available(n)
Behind ==
    /\ \A k \in 1..(probe - 1) : Useless(CODECS[k])
    /\ pc = "miss" /\ "plain" \notin failed => \A n \in Name : Useless(n)

\* What was estimated, and then read, is the file the plan was made of, unless
\* it changed or could not be read.
Estimated ==
    /\ pc \in {"target", "stat", "probe", "estimate"} => plan = NoPlan
    /\ pc \in {"planned", "placed"} /\ plan.source \in steady \ failed =>
         LET a == cold[plan.source] IN
         IF plan.source = "plain" THEN plan.size = a.stored
         ELSE plan.size \in ExpandedSizes(plan.source, a)

Read ==
    pc = "placed" =>
        /\ dest = Total(read) /\ ~Raises(plan.source, read)
        /\ plan.source \in steady => read = cold[plan.source]

Inv == Typed /\ Passed /\ Behind /\ Estimated /\ Read

LEMMA InvInit == Init => Inv
<1> SUFFICES ASSUME Init PROVE Inv
  OBVIOUS
<1>1. \A n \in Name : cold[n] \in File[n] \cup {NoFile}
  BY DEF Init
<1>2. Typed
  BY <1>1, Names, CodecsAssumption DEF Init, Typed, TypeOK, NoPlan, Present
<1>3. QED
  BY <1>2, Names DEF Init, Inv, Passed, Behind, Estimated, Read, NoPlan

\* What resolve and materialise read does not change under them.
LEMMA ColdSame ==
    UNCHANGED coldVars =>
        /\ \A n \in Name : Present(n)' = Present(n) /\ Available(n)' = Available(n)
        /\ cold' = cold /\ steady' = steady /\ changes' = changes
BY DEF coldVars, Present, Available

LEMMA ProbeTargetInv ==
    ASSUME Inv, ProbeTarget PROVE Inv'
<1> USE Names DEF Inv, ProbeTarget
<1>1. Typed' /\ probe = probe'
  BY ColdSame DEF Typed, TypeOK, Fails
<1>2. Passed'
  BY ColdSame DEF Passed, Typed, Estimated, NoPlan, Fails
<1>3. Behind'
  BY ColdSame DEF Behind, Typed, TypeOK, Useless, Available, coldVars, Fails
<1>4. Estimated' /\ Read'
  BY ColdSame DEF Estimated, Read, NoPlan
<1>5. QED
  BY <1>1, <1>2, <1>3, <1>4

LEMMA StatTargetInv ==
    ASSUME Inv, StatTarget PROVE Inv'
<1> USE Names DEF Inv, StatTarget
<1>1. Typed'
  <2>1. plan'.source \in Name /\ plan'.size \in Nat
    <3>1. CASE UNCHANGED plan
      BY <3>1 DEF Typed, TypeOK
    <3>2. CASE Present("plain") /\ plan' = [source |-> "plain", size |-> cold["plain"].stored]
      <4>1. cold["plain"] \in File["plain"]
        BY <3>2 DEF Typed, TypeOK, Present
      <4>2. QED
        BY <3>2, <4>1, FilesOK DEF FileOK
    <3>3. QED
      BY <3>1, <3>2
  <2>2. QED
    BY <2>1, ColdSame DEF Typed, TypeOK, Fails
<1>2. Passed'
  BY ColdSame DEF Passed, Estimated, NoPlan
<1>3. Behind'
  BY ColdSame DEF Behind, Typed, TypeOK, Useless, Available, coldVars, Fails
<1>4. Estimated' /\ Read'
  BY ColdSame DEF Estimated, Read, NoPlan
<1>5. QED
  BY <1>1, <1>2, <1>3, <1>4

\* A codec that is given up is useless.
LEMMA NextCodecInv ==
    ASSUME Inv, pc = "probe", Codec \in failed' \/ ~(Present(Codec) /\ Available(Codec)),
           failed \subseteq failed', failed' \subseteq Name, NextCodec,
           UNCHANGED <<coldVars, plan, dest, read>>
    PROVE  Inv'
<1> USE Names DEF Inv
<1>0. probe \in 1..4 /\ Codec \in Name \ {"plain"}
  BY DEF Typed, TypeOK, Codec
<1>1. Typed'
  <2>1. probe' \in 1..4 /\ pc' \in {"probe", "miss"}
    BY <1>0 DEF NextCodec
  <2>2. QED
    BY <2>1, ColdSame DEF Typed, TypeOK
<1>2. Passed'
  BY ColdSame DEF Passed
<1>3. Behind'
  <2>1. steady' = steady /\ \A n \in Name : Available(n)' = Available(n)
    BY ColdSame
  <2>2. Codec \in steady => Codec \in failed' \/ ~Available(Codec)
    BY <1>0 DEF Typed
  <2>3. \A k \in 1..probe : CODECS[k] \in steady => CODECS[k] \in failed' \/ ~Available(CODECS[k])
    BY <1>0, <2>2 DEF Behind, Useless, Codec
  <2>4. CASE probe = 4
    <3>1. pc' = "miss" /\ probe' = probe
      BY <2>4 DEF NextCodec
    <3>2. "plain" \notin steady
      BY DEF Passed
    <3>3. \A n \in Name : n \in steady => n \in failed' \/ ~Available(n)
      BY <2>3, <2>4, <3>2
    <3>4. QED
      BY <1>0, <2>1, <2>3, <3>1, <3>3 DEF Behind, Useless
  <2>5. CASE probe # 4
    <3>1. pc' = "probe" /\ probe' = probe + 1
      BY <2>5 DEF NextCodec
    <3>2. QED
      BY <1>0, <2>1, <2>3, <3>1 DEF Behind, Useless
  <2>6. QED
    BY <2>4, <2>5
<1>4. Estimated' /\ Read'
  BY ColdSame DEF Estimated, Read, NextCodec
<1>5. QED
  BY <1>1, <1>2, <1>3, <1>4

LEMMA ProbingInv ==
    ASSUME Inv, SkipCodec \/ FindArchive PROVE Inv'
<1>0. probe \in 1..4 /\ Codec \in Name \ {"plain"} /\ failed \subseteq Name
  BY Names DEF Inv, Typed, TypeOK, Codec
<1>1. CASE SkipCodec
  BY <1>0, <1>1, NextCodecInv DEF SkipCodec, Fails
<1>2. CASE FindArchive
  <2> USE <1>2, Names DEF Inv, FindArchive
  <2>1. Typed'
    BY ColdSame DEF Typed, TypeOK
  <2>2. Passed' /\ Estimated' /\ Read'
    BY ColdSame DEF Passed, Estimated, Read
  <2>3. Behind'
    BY ColdSame DEF Behind, Useless, Typed, TypeOK
  <2>4. QED
    BY <2>1, <2>2, <2>3
<1>3. QED
  BY <1>1, <1>2

LEMMA EstimateInv ==
    ASSUME Inv, Estimate PROVE Inv'
<1> USE Names DEF Inv, Estimate
<1>0. probe \in 1..4 /\ Codec \in Name \ {"plain"}
  BY DEF Typed, TypeOK, Codec
<1>1. plan'.source = Codec /\ plan'.size \in Nat
      /\ (Codec \notin failed' => plan'.size \in ExpandedSizes(Codec, cold[Codec]))
  <2>1. CASE plan' = [source |-> Codec, size |-> 0] /\ Fails(Codec)
    BY <2>1 DEF Fails
  <2>2. CASE Present(Codec) /\ \E size \in ExpandedSizes(Codec, cold[Codec]) :
               plan' = [source |-> Codec, size |-> size]
    <3>1. cold[Codec] \in File[Codec]
      BY <1>0, <2>2 DEF Typed, TypeOK, Present
    <3>2. QED
      BY <1>0, <2>2, <3>1, EstimateIsNat
  <2>3. QED
    BY <2>1, <2>2
<1>2. Typed'
  BY <1>0, <1>1, ColdSame DEF Typed, TypeOK, Fails
<1>3. Passed' /\ Read'
  BY ColdSame DEF Passed, Read
<1>4. Behind'
  BY <1>0, ColdSame DEF Behind, Useless, Fails
<1>5. Estimated'
  BY <1>0, <1>1, ColdSame DEF Estimated
<1>6. QED
  BY <1>2, <1>3, <1>4, <1>5

LEMMA MaterialiseInv ==
    ASSUME Inv, Materialise \/ OpenFails PROVE Inv'
<1> USE Names DEF Inv
<1>0. probe \in 1..4 /\ pc = "planned" /\ plan' = plan /\ UNCHANGED <<coldVars, probe>>
      /\ pc' \in {"placed", "error"} /\ failed' \subseteq Name /\ failed \subseteq failed'
  BY DEF Typed, TypeOK, Materialise, OpenFails, Fails
<1>1. /\ pc' = "placed" => read' = cold[plan.source] /\ read' \in File[plan.source]
      /\ dest' \in Nat /\ Read'
  <2>1. CASE Materialise
    <3>1. cold[plan.source] \in File[plan.source]
      BY <2>1 DEF Materialise, Typed, TypeOK, Present
    <3>2. QED
      BY <2>1, <3>1, FilesOK, ColdSame DEF Materialise, Typed, TypeOK, Read
  <2>2. CASE OpenFails
    BY <2>2 DEF OpenFails, Typed, TypeOK, Read
  <2>3. QED
    BY <2>1, <2>2
<1>2. Typed'
  BY <1>0, <1>1, ColdSame DEF Typed, TypeOK
<1>3. Passed' /\ Estimated'
  BY <1>0, ColdSame DEF Passed, Estimated
<1>4. Behind'
  BY <1>0, ColdSame DEF Behind, Useless
<1>5. QED
  BY <1>1, <1>2, <1>3, <1>4

\* Others only take names out of steady.
LEMMA ChangeInv ==
    ASSUME Inv, Change PROVE Inv'
<1> USE Names DEF Inv
<1>n. PICK n \in Name : \E f \in File[n] \cup {NoFile} :
        cold' = [cold EXCEPT ![n] = f] /\ steady' = steady \ {n}
  BY DEF Change
<1>0. PICK f \in File[n] \cup {NoFile} :
        cold' = [cold EXCEPT ![n] = f] /\ steady' = steady \ {n}
  BY <1>n
<1>1. \A m \in steady' : m \in steady /\ m # n /\ cold'[m] = cold[m]
  BY <1>0 DEF Typed, TypeOK
<1>2. \A m \in Name : cold'[m] = cold[m] \/ (m = n /\ cold'[m] = f)
  BY <1>0 DEF Typed
<1>3. Typed'
  <2>1. \A m \in Name : cold'[m] \in File[m] \cup {NoFile}
    BY <1>0, <1>2 DEF Typed, TypeOK
  <2>2. steady' \subseteq {m \in Name : Present(m)'}
    BY <1>1 DEF Typed, Present
  <2>3. changes' \in 0..MaxChanges
    BY CodecsAssumption DEF Change, Typed, TypeOK
  <2>4. QED
    BY <1>0, <1>1, <2>1, <2>2, <2>3 DEF Change, Typed, TypeOK
<1>4. Passed'
  BY <1>1 DEF Passed, Change
<1>5. Behind'
  BY <1>1 DEF Behind, Useless, Change, Available
<1>6. Estimated' /\ Read'
  BY <1>1 DEF Estimated, Read, Change
<1>7. QED
  BY <1>3, <1>4, <1>5, <1>6

THEOREM Invariance == Spec => []Inv
<1>1. Inv /\ [Next]_vars => Inv'
  <2> SUFFICES ASSUME Inv, [Next]_vars PROVE Inv'
    OBVIOUS
  <2>1. CASE UNCHANGED vars
    BY <2>1 DEF vars, Inv, Typed, TypeOK, Passed, Behind, Useless, Estimated, Read,
                Present, Available
  <2>2. QED
    BY <2>1, ProbeTargetInv, StatTargetInv, ProbingInv, EstimateInv, MaterialiseInv,
       ChangeInv DEF Next
<1>2. QED
  BY InvInit, <1>1, PTL DEF Spec
-----------------------------------------------------------------------------
(***************************************************************************)
(* The properties.                                                         *)
(***************************************************************************)
\* The variables keep their types, for any archives and sizes.
THEOREM TypeCorrect == Spec => []TypeOK
<1>1. Inv => TypeOK
  BY DEF Inv, Typed
<1>2. QED
  BY <1>1, Invariance, PTL

\* resolve() gives up only when it has tried every codec: no file that stays,
\* can be expanded and raises no error is missed.
THEOREM NothingMissed == Spec => []PresentIsFound
<1>1. Inv => PresentIsFound
  BY DEF Inv, Behind, Useless, Typed, TypeOK, PresentIsFound
<1>2. QED
  BY <1>1, Invariance, PTL

\* resolve() never plans an archive beside a target that stays.
THEOREM TargetFirst == Spec => []PlainIsPreferred
<1>1. Inv => PlainIsPreferred
  BY DEF Inv, Passed, PlainIsPreferred
<1>2. QED
  BY <1>1, Invariance, PTL

\* When the reservation for an unchanged archive is too small, its trailer
\* said so: it holds several members, or 2^32 bytes and more.
THEOREM ShortReservation == Spec => []ShortOnlyIfBelieved
<1>1. Inv => ShortOnlyIfBelieved
  <2> DEFINE a == read
  <2> SUFFICES ASSUME Inv, pc = "placed", plan.source \in steady \ failed,
                      plan.size < dest, dest <= a.stored * FALLBACK_RATIO
               PROVE  /\ plan.source = "gz"
                      /\ Last(a.members) % Word > a.stored
                      /\ Len(a.members) > 1 \/ dest >= Word
    BY DEF ShortOnlyIfBelieved
  <2>1. /\ plan.source \in Name /\ a \in File[plan.source] /\ dest = Total(a)
        /\ a = cold[plan.source] /\ plan.size \in Nat /\ ~Raises(plan.source, a)
    BY DEF Inv, Typed, TypeOK, Read
  <2>2. FileOK(a) /\ dest \in Nat /\ Word \in Nat \ {0}
    BY <2>1, FilesOK, CodecsAssumption
  <2> HIDE DEF a
  <2>3. plan.source # "plain"
    <3>1. plan.source = "plain" => plan.size = a.stored /\ a.stored = dest
      BY <2>1, FilesOK DEF Inv, Estimated
    <3>2. QED
      BY <2>2, <3>1
  <2>4. plan.size \in ExpandedSizes(plan.source, a)
    BY <2>1, <2>3 DEF Inv, Estimated
  <2>5. plan.size # a.stored * FALLBACK_RATIO
    BY <2>2 DEF FileOK, FALLBACK_RATIO
  <2>6. plan.source = "gz" /\ a.stored # 0
    BY <2>2, <2>4, <2>5 DEF ExpandedSizes, FALLBACK_RATIO
  <2>7. ~a.broken /\ a.members # <<>>
    BY <2>1, <2>3, <2>6, FilesOK DEF Raises
  <2>8. PICK isize \in Trailer(a) : plan.size = GzipSize(a, isize)
    BY <2>4, <2>6 DEF ExpandedSizes
  <2>9. isize = Last(a.members) % Word
    BY <2>7, <2>8 DEF Trailer
  <2>10. a.members \in Seq(Nat) /\ Len(a.members) \in DOMAIN a.members
    BY <2>2, <2>7, EmptySeq, LenProperties DEF FileOK
  <2>11. Last(a.members) \in Nat /\ isize \in Nat
    BY <2>2, <2>9, <2>10, ElementOfSeq, LenProperties DEF Last
  <2>12. isize > a.stored /\ plan.size = isize
    BY <2>2, <2>5, <2>8, <2>11 DEF GzipSize, FileOK
  <2>13. Len(a.members) = 1 => dest = Last(a.members)
    <3> SUFFICES ASSUME Len(a.members) = 1 PROVE dest = Last(a.members)
      OBVIOUS
    <3>1. a.members = <<a.members[1]>> /\ a.members[1] \in Nat
      BY <2>10, ElementOfSeq
    <3>2. Total(a) = a.members[1]
      BY <3>1, TotalIsSum, SumOfOne
    <3>3. QED
      BY <2>1, <3>2 DEF Last
  <2>14. dest < Word => dest % Word = dest
    BY <2>2
  <2>15. Len(a.members) > 1 \/ dest >= Word
    <3>1. Len(a.members) \in Nat /\ Len(a.members) >= 1
      BY <2>10, LenProperties
    <3>2. Len(a.members) > 1 \/ Len(a.members) = 1
      <4> DEFINE n == Len(a.members)
      <4>1. n \in Nat /\ n >= 1
        BY <3>1
      <4> HIDE DEF n
      <4>2. n > 1 \/ n = 1
        BY <4>1
      <4>3. QED
        BY <4>2 DEF n
    <3>3. dest >= Word \/ dest < Word
      BY <2>2
    <3>4. ASSUME Len(a.members) = 1, dest < Word PROVE FALSE
      <4>1. isize = dest
        BY <2>9, <2>13, <2>14, <3>4
      <4>2. QED
        BY <2>2, <2>11, <2>12, <4>1
    <3>5. QED
      BY <3>2, <3>3, <3>4, Zenon
  <2>16. QED
    BY <2>6, <2>9, <2>12, <2>15
<1>2. QED
  BY <1>1, Invariance, PTL

\* When the reservation for an unchanged archive is too large, it is the guess.
THEOREM LongReservation == Spec => []OverOnlyIfGuessed
<1>1. Inv => OverOnlyIfGuessed
  <2> DEFINE a == read
  <2> SUFFICES ASSUME Inv, pc = "placed", plan.source \in steady \ failed, plan.size > dest
               PROVE  plan.size = a.stored * FALLBACK_RATIO
    BY DEF OverOnlyIfGuessed
  <2>1. /\ plan.source \in Name /\ a \in File[plan.source] /\ dest = Total(a)
        /\ a = cold[plan.source] /\ plan.size \in Nat /\ ~Raises(plan.source, a)
    BY DEF Inv, Typed, TypeOK, Read
  <2>2. FileOK(a) /\ dest \in Nat /\ Word \in Nat \ {0}
    BY <2>1, FilesOK, CodecsAssumption
  <2> HIDE DEF a
  <2>3. plan.source # "plain"
    <3>1. plan.source = "plain" => plan.size = a.stored /\ a.stored = dest
      BY <2>1, FilesOK DEF Inv, Estimated
    <3>2. QED
      BY <2>2, <3>1
  <2>4. plan.size \in ExpandedSizes(plan.source, a)
    BY <2>1, <2>3 DEF Inv, Estimated
  <2>5. CASE plan.source # "gz" \/ a.stored = 0
    BY <2>2, <2>4, <2>5 DEF ExpandedSizes
  <2>6. CASE plan.source = "gz" /\ a.stored # 0
    <3>1. ~a.broken /\ a.members # <<>> /\ a.members \in Seq(Nat)
      BY <2>1, <2>2, <2>3, <2>6, FilesOK DEF Raises, FileOK
    <3>2. PICK isize \in Trailer(a) : plan.size = GzipSize(a, isize)
      BY <2>4, <2>6 DEF ExpandedSizes
    <3>3. isize = Last(a.members) % Word
      BY <3>1, <3>2 DEF Trailer
    <3>4. Last(a.members) \in Nat /\ Last(a.members) <= dest
      BY <2>1, <3>1, LastWithinSum, TotalIsSum
    <3>5. isize <= dest
      <4>1. ASSUME NEW x \in Nat PROVE x % Word \in Nat /\ x % Word <= x
        BY <2>2
      <4>2. QED
        BY <2>2, <3>3, <3>4, <4>1
    <3>6. QED
      BY <2>2, <3>2, <3>3, <3>4, <3>5 DEF GzipSize
  <2>7. QED
    BY <2>5, <2>6
<1>2. QED
  BY <1>1, Invariance, PTL
=============================================================================
