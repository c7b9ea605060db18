--------------------------- MODULE SessionProofs ----------------------------
(***************************************************************************)
(* Proofs about Session and Harness for any rules and texts, any prior,    *)
(* any replies, results and recordings, and sessions of any length.        *)
(***************************************************************************)
EXTENDS Harness, SequenceTheorems, FiniteSetTheorems, TLAPS

BlockType == {"thinking", "text", "tool_result"}
Block == [type : BlockType, text : Seq(Token), turn : Nat]

ScanAtomic(s, b) == ScanBlock(s, b, FALSE)
Run == INSTANCE FoldTheory WITH Op <- ScanAtomic, Base <- Nothing

-----------------------------------------------------------------------------
(***************************************************************************)
(* What a run of the detector finds.                                       *)
(***************************************************************************)
LEMMA RunIs == \A bs : RunDetector(bs, FALSE) = Run!Fold(bs).acts
BY DEF RunDetector, ScanAtomic, FoldLeft, MapThenFoldSet, Max,
       Run!Fold, Run!FoldLeft, Run!MapThenFoldSet, Run!Max

LEMMA FlattenSame == \A s : FlattenSeq(s) = Run!FlattenSeq(s)
BY DEF FlattenSeq, Run!FlattenSeq

\* A match that starts inside the new text is a match of that text alone.
LEMMA HitIsMatch ==
    ASSUME NEW r \in Rule, NEW acc \in Seq(Token), NEW text \in Seq(Token),
           AtomicHits(r, acc, text)
    PROVE  Matches(r, text)
<1> DEFINE whole == acc \o text
<1>1. /\ whole \in Seq(Token) /\ Len(whole) = Len(acc) + Len(text)
      /\ \A j \in 1..Len(text) : whole[Len(acc) + j] = text[j]
      /\ Len(acc) \in Nat /\ Len(text) \in Nat
      /\ DOMAIN whole = 1..Len(whole) /\ DOMAIN text = 1..Len(text)
  BY ConcatProperties, LenProperties
<1> HIDE DEF whole
<1>2. Starts(r, whole) \subseteq Nat /\ Starts(r, whole) # {}
  BY <1>1 DEF AtomicHits, Matches, Starts, whole
<1>3. PICK m \in Starts(r, whole) : \A n \in Starts(r, whole) : m <= n
  BY <1>2, Run!Least
<1>4. Min(Starts(r, whole)) \in Starts(r, whole)
  BY <1>3, Zenon DEF Min
<1>5. PICK i \in DOMAIN whole : /\ i > Len(acc)
                                /\ \E w \in Words[r] :
                                     /\ OccursAt(w, whole, i)
                                     /\ r \in Bounded => AtBoundary(whole, i + Len(w) - 1)
  BY <1>4 DEF AtomicHits, Starts, whole
<1>6. PICK w \in Words[r] : /\ OccursAt(w, whole, i)
                            /\ r \in Bounded => AtBoundary(whole, i + Len(w) - 1)
  BY <1>5
<1>7. w \in Seq(Token) /\ Len(w) \in Nat /\ Len(w) > 0 /\ DOMAIN w = 1..Len(w)
  BY DetectorAssumption, LenProperties
<1> DEFINE j == i - Len(acc)
<1>8. j \in 1..Len(text) /\ i = Len(acc) + j
  BY <1>1, <1>5
<1> HIDE DEF j
<1>9. j + Len(w) - 1 <= Len(text)
  BY <1>1, <1>6, <1>7, <1>8 DEF OccursAt
<1>10. OccursAt(w, text, j)
  <2> SUFFICES ASSUME NEW k \in DOMAIN w PROVE text[j + k - 1] = w[k]
    BY <1>9 DEF OccursAt
  <2>1. j + k - 1 \in 1..Len(text) /\ Len(acc) + (j + k - 1) = i + k - 1
    BY <1>1, <1>7, <1>8, <1>9
  <2>2. whole[i + k - 1] = w[k]
    BY <1>6 DEF OccursAt
  <2>3. whole[Len(acc) + (j + k - 1)] = text[j + k - 1]
    BY <1>1, <2>1
  <2>4. QED
    BY <2>1, <2>2, <2>3
<1>11. r \in Bounded => AtBoundary(text, j + Len(w) - 1)
  <2> SUFFICES ASSUME r \in Bounded, j + Len(w) - 1 # Len(text)
               PROVE  text[j + Len(w)] \notin WordToken
    BY <1>7, <1>8 DEF AtBoundary
  <2> DEFINE la == Len(acc)
             lt == Len(text)
             lw == Len(w)
  <2>1. /\ la \in Nat /\ lt \in Nat /\ lw \in Nat /\ lw > 0 /\ j \in 1..lt
        /\ i = la + j /\ j + lw - 1 <= lt /\ j + lw - 1 # lt
    BY <1>1, <1>7, <1>8, <1>9
  <2> HIDE DEF la, lt, lw
  <2>4. /\ i + lw - 1 # la + lt /\ (i + lw - 1) + 1 = i + lw
        /\ j + lw - 1 + 1 = j + lw
        /\ j + lw \in 1..lt /\ i + lw = la + (j + lw)
    BY <2>1
  <2>2. whole[i + Len(w)] \notin WordToken
    BY <1>1, <1>6, <2>4 DEF AtBoundary, la, lt, lw
  <2>3. QED
    BY <1>1, <2>2, <2>4 DEF la, lt, lw
<1>12. j \in DOMAIN text
  BY <1>1, <1>8
<1>13. j \in Starts(r, text)
  BY <1>10, <1>11, <1>12 DEF Starts
<1>14. QED
  BY <1>13 DEF Matches

\* A block adds its text, and only activations it holds the match of.
LEMMA ScanStep ==
    ASSUME NEW s, s.acc \in Seq(Token), NEW b \in Block
    PROVE  /\ ScanAtomic(s, b).acc \in Seq(Token)
           /\ s.acts \subseteq ScanAtomic(s, b).acts
           /\ \A a \in ScanAtomic(s, b).acts \ s.acts :
                /\ a.rule \in Rule /\ a.source = b.type /\ a.turn = b.turn
                /\ Matches(a.rule, b.text)
<1>1. b.text \in Seq(Token) /\ s.acc \o b.text \in Seq(Token)
  BY ConcatProperties DEF Block
<1>2. CASE ~Scannable(b)
  BY <1>2 DEF ScanAtomic, ScanBlock
<1>3. CASE Scannable(b)
  <2> DEFINE hits == {r \in Rule \ Names(s.acts) : AtomicHits(r, s.acc, b.text)}
             new == {[rule |-> r, source |-> b.type, turn |-> b.turn] : r \in hits}
  <2>1. ScanAtomic(s, b) = [acc |-> s.acc \o b.text, acts |-> s.acts \cup new]
    BY <1>3 DEF ScanAtomic, ScanBlock
  <2>2. \A r \in hits : Matches(r, b.text)
    BY <1>1, HitIsMatch
  <2>3. QED
    BY <1>1, <2>1, <2>2
<1>4. QED
  BY <1>2, <1>3

\* Each activation leads to a block that holds a match.
Audited(found, bs) ==
    \A a \in found : /\ a.rule \in Rule
                     /\ \E i \in 1..Len(bs) : /\ bs[i].type = a.source
                                              /\ bs[i].turn = a.turn
                                              /\ Matches(a.rule, bs[i].text)

LEMMA RunStep ==
    ASSUME NEW bs \in Seq(Block), NEW b \in Block
    PROVE  Run!Fold(Append(bs, b)) = ScanAtomic(Run!Fold(bs), b)
BY Run!FoldAppend

LEMMA RunOK ==
    \A bs \in Seq(Block) : /\ Run!Fold(bs).acc \in Seq(Token)
                           /\ Audited(Run!Fold(bs).acts, bs)
<1> DEFINE T == {bs \in Seq(Block) : /\ Run!Fold(bs).acc \in Seq(Token)
                                     /\ Audited(Run!Fold(bs).acts, bs)}
<1>1. <<>> \in T
  <2>1. Run!Fold(<<>>) = Nothing /\ Nothing.acc = <<>> /\ Nothing.acts = {}
    BY Run!FoldEmpty DEF Nothing
  <2>2. <<>> \in Seq(Token) /\ <<>> \in Seq(Block)
    BY EmptySeq
  <2>3. QED
    BY <2>1, <2>2 DEF Audited
<1>2. ASSUME NEW bs \in Seq(Block), NEW b \in Block, bs \in T
      PROVE  Append(bs, b) \in T
  <2> DEFINE s == Run!Fold(bs)
             longer == Append(bs, b)
  <2>1. /\ longer \in Seq(Block) /\ Len(longer) = Len(bs) + 1 /\ Len(bs) \in Nat
        /\ longer[Len(bs) + 1] = b /\ \A i \in 1..Len(bs) : longer[i] = bs[i]
    BY AppendProperties, LenProperties
  <2>2. s.acc \in Seq(Token) /\ Audited(s.acts, bs) /\ Run!Fold(longer) = ScanAtomic(s, b)
    BY <1>2, RunStep
  <2> HIDE DEF s, longer
  <2>3. /\ ScanAtomic(s, b).acc \in Seq(Token)
        /\ \A a \in ScanAtomic(s, b).acts \ s.acts :
             /\ a.rule \in Rule /\ a.source = b.type /\ a.turn = b.turn
             /\ Matches(a.rule, b.text)
    BY <2>2, ScanStep
  <2>4. 1..Len(bs) \subseteq 1..Len(longer) /\ Len(bs) + 1 \in 1..Len(longer)
    BY <2>1
  <2>5. Audited(ScanAtomic(s, b).acts, longer)
    <3> SUFFICES ASSUME NEW a \in ScanAtomic(s, b).acts
                 PROVE  /\ a.rule \in Rule
                        /\ \E i \in 1..Len(longer) : /\ longer[i].type = a.source
                                                     /\ longer[i].turn = a.turn
                                                     /\ Matches(a.rule, longer[i].text)
      BY DEF Audited
    <3>1. CASE a \in s.acts
      BY <2>1, <2>2, <2>4, <3>1 DEF Audited
    <3>2. CASE a \notin s.acts
      BY <2>1, <2>3, <2>4, <3>2
    <3>3. QED
      BY <3>1, <3>2
  <2>6. QED
    BY <2>1, <2>2, <2>3, <2>5 DEF longer
<1>3. Seq(Block) \subseteq T
  <2> HIDE DEF T
  <2>1. QED
    BY <1>1, <1>2, Run!InductiveSeqs
<1>4. QED
  BY <1>3

\* A run over more blocks keeps the activations of the run over fewer.
LEMMA RunGrows ==
    ASSUME NEW bs \in Seq(Block)
    PROVE  \A new \in Seq(Block) : Run!Fold(bs).acts \subseteq Run!Fold(bs \o new).acts
<1> DEFINE T == {new \in Seq(Block) : Run!Fold(bs).acts \subseteq Run!Fold(bs \o new).acts}
<1>1. <<>> \in T
  BY EmptySeq, ConcatEmptySeq
<1>2. ASSUME NEW new \in Seq(Block), NEW b \in Block, new \in T
      PROVE  Append(new, b) \in T
  <2> DEFINE both == bs \o new
  <2>1. /\ both \in Seq(Block) /\ Append(new, b) \in Seq(Block)
        /\ bs \o Append(new, b) = Append(both, b)
    BY Run!ConcatAppend, ConcatProperties, AppendProperties
  <2> HIDE DEF both
  <2>2. Run!Fold(Append(both, b)) = ScanAtomic(Run!Fold(both), b)
    BY <2>1, RunStep
  <2>3. Run!Fold(both).acts \subseteq ScanAtomic(Run!Fold(both), b).acts
    BY <2>1, RunOK, ScanStep
  <2>4. Run!Fold(bs).acts \subseteq Run!Fold(both).acts
    BY <1>2 DEF both
  <2>5. QED
    BY <2>1, <2>2, <2>3, <2>4
<1>3. Seq(Block) \subseteq T
  <2> HIDE DEF T
  <2>1. QED
    BY <1>1, <1>2, Run!InductiveSeqs
<1>4. QED
  BY <1>3

-----------------------------------------------------------------------------
(***************************************************************************)
(* The inductive invariant.                                                *)
(***************************************************************************)
Plain == [type : BlockType, text : Seq(Token)]
Piece == [type : {"thinking", "text"}, text : Seq(Token), block : Nat]
ToolOutput == [text : Seq(Token), listed : SUBSET Path, killed : BOOLEAN]
TurnLog == [pieces : Seq(Piece), results : Seq(ToolOutput)]

Typed ==
    /\ blocks \in Seq(Block)
    /\ turn \in Nat
    /\ pos \in Nat \ {0}
    /\ nPrefetched \in Nat
    /\ reported \subseteq Path
    /\ staged \subseteq Path
    /\ prior \in [Bucket -> SUBSET Path]
    /\ log \in Seq(TurnLog)

\* The detector's lists are those of a run over all that it was fed.
Current ==
    /\ acts = Run!Fold(blocks).acts
    /\ fired = Names(acts)
    /\ heard = [r \in Rule |-> IF r \in fired THEN 1 ELSE 0]

\* Where a session can be: only what the microbenchmarks record is replayed,
\* and a recording that is over has a turn.
Placed ==
    /\ bench = "path_b" => mode = "staged"
    /\ bench # "path_b" /\ phase # "turn" => Len(log) > 0
    /\ phase = "replay" => bench # "path_b" /\ turn < Len(log)
    /\ mode = "replay" <=> phase \in {"replay", "replayed"}

HandedOut ==
    /\ bench = "path_b" => FiredIsStaged
    /\ bench # "path_b" /\ mode = "baseline" => staged = {}
    /\ bench # "path_b" /\ mode # "baseline" /\ (mode = "replay" \/ bench = "aiob")
         => Named(fired) \subseteq staged
    /\ bench # "path_b" /\ mode # "baseline" /\ mode # "replay" /\ bench # "aiob"
         => Named(fired) \cap Existing \subseteq staged

Mentioned ==
    bench = "path_b" => MentionedIsStaged /\ reported \cap Existing \subseteq staged

Inv == Typed /\ Current /\ Placed /\ HandedOut /\ Mentioned /\ OssCountsFilesOnce

-----------------------------------------------------------------------------
(***************************************************************************)
(* What is fed is a sequence of blocks.                                    *)
(***************************************************************************)
LEMMA StampedOK ==
    ASSUME turn \in Nat, NEW bs \in Seq(Plain)
    PROVE  /\ Stamped(bs) \in Seq(Block) /\ Len(Stamped(bs)) = Len(bs)
           /\ \A i \in 1..Len(bs) : Stamped(bs)[i] = Stamp(bs[i])
<1>1. Len(bs) \in Nat /\ DOMAIN bs = 1..Len(bs) /\ \A i \in 1..Len(bs) : bs[i] \in Plain
  BY LenProperties, ElementOfSeq
<1>2. \A i \in 1..Len(bs) : Stamp(bs[i]) \in Block
  BY <1>1 DEF Stamp, Plain, Block
<1>3. QED
  BY <1>1, <1>2 DEF Stamped

LEMMA WrittenOK ==
    ASSUME NEW reply \in Reply PROVE reply.blocks \in Seq(Plain) /\ reply.tools \in BOOLEAN
<1>1. /\ reply.blocks \in Seq([type : {"thinking", "text"}, text : Seq(Token)])
      /\ reply.tools \in BOOLEAN
  BY SessionAssumption
<1>2. [type : {"thinking", "text"}, text : Seq(Token)] \subseteq Plain
  BY DEF Plain, BlockType
<1>3. QED
  BY <1>1, <1>2, SeqMonotonic

LEMMA ReturnedOK ==
    ASSUME turn \in Nat, NEW results \in Seq(ToolOutput)
    PROVE  ToolBlocks(results) \in Seq(Block)
<1>1. /\ Len(results) \in Nat /\ DOMAIN results = 1..Len(results)
      /\ \A i \in 1..Len(results) : results[i] \in ToolOutput
  BY LenProperties, ElementOfSeq
<1>2. \A i \in 1..Len(results) :
        Stamp([type |-> "tool_result", text |-> results[i].text]) \in Block
  BY <1>1 DEF Stamp, ToolOutput, Block, BlockType
<1>3. QED
  BY <1>1, <1>2 DEF ToolBlocks

LEMMA ResultType == Result \subseteq Seq(ToolOutput)
BY SessionAssumption DEF ToolOutput

Survivors(results) == Kept(results, LAMBDA r : ~r.killed)

LEMMA SurvivorsOK ==
    ASSUME NEW results \in Seq(ToolOutput)
    PROVE  Survivors(results) \in Seq(ToolOutput)
<1> DEFINE parts == [i \in DOMAIN results |->
                       IF ~results[i].killed THEN <<results[i]>> ELSE <<>>]
<1>1. /\ Len(results) \in Nat /\ DOMAIN results = 1..Len(results)
      /\ \A i \in 1..Len(results) : results[i] \in ToolOutput
  BY LenProperties, ElementOfSeq
<1>2. parts \in Seq(Seq(ToolOutput))
  <2>1. \A i \in 1..Len(results) :
          (IF ~results[i].killed THEN <<results[i]>> ELSE <<>>) \in Seq(ToolOutput)
    BY <1>1
  <2>2. QED
    BY <1>1, <2>1
<1>3. FlattenSeq(parts) \in Seq(ToolOutput)
  BY <1>2, Run!FlattenType, FlattenSame
<1>4. QED
  BY <1>3 DEF Survivors, Kept

LEMMA TextOK ==
    ASSUME NEW bs \in Seq(Plain), NEW type
    PROVE  TextOf(bs, type) \in Seq(Token)
<1> DEFINE parts == [i \in DOMAIN bs |-> IF bs[i].type = type THEN bs[i].text ELSE <<>>]
<1>1. Len(bs) \in Nat /\ DOMAIN bs = 1..Len(bs) /\ \A i \in 1..Len(bs) : bs[i] \in Plain
  BY LenProperties, ElementOfSeq
<1>2. parts \in Seq(Seq(Token))
  <2>1. \A i \in 1..Len(bs) : (IF bs[i].type = type THEN bs[i].text ELSE <<>>) \in Seq(Token)
    BY <1>1 DEF Plain
  <2>2. QED
    BY <1>1, <2>1
<1>3. QED
  BY <1>2, Run!FlattenType, FlattenSame DEF TextOf

LEMMA MergedOK ==
    ASSUME NEW bs \in Seq(Plain)
    PROVE  Merged(bs, "thinking") \o Merged(bs, "text") \in Seq(Plain)
<1>1. \A type \in BlockType : Merged(bs, type) \in Seq(Plain)
  <2> TAKE type \in BlockType
  <2> DEFINE b == [type |-> type, text |-> TextOf(bs, type)]
  <2>1. b \in Plain
    BY TextOK DEF Plain
  <2>2. <<b>> \in Seq(Plain) /\ <<>> \in Seq(Plain)
    BY <2>1
  <2>3. QED
    BY <2>2, Zenon DEF Merged
<1>2. QED
  BY <1>1, ConcatProperties DEF BlockType

LEMMA LoadedOK ==
    ASSUME NEW pieces \in Seq(Piece)
    PROVE  LoadTrajectory(pieces) \in Seq(Plain)
<1> DEFINE IsLast(i) == \A j \in DOMAIN pieces : SameBlock(pieces[i], pieces[j]) => j <= i
           Own(p) == [i \in DOMAIN pieces |->
                        IF SameBlock(p, pieces[i]) THEN pieces[i].text ELSE <<>>]
           Joined(p) == FlattenSeq(Own(p))
           parts == [i \in DOMAIN pieces |->
              IF IsLast(i) THEN <<[type |-> pieces[i].type, text |-> Joined(pieces[i])]>>
              ELSE <<>>]
<1>1. /\ Len(pieces) \in Nat /\ DOMAIN pieces = 1..Len(pieces)
      /\ \A i \in 1..Len(pieces) : pieces[i] \in Piece
  BY LenProperties, ElementOfSeq
<1>2. ASSUME NEW p PROVE Joined(p) \in Seq(Token)
  <2>1. \A i \in 1..Len(pieces) :
          (IF SameBlock(p, pieces[i]) THEN pieces[i].text ELSE <<>>) \in Seq(Token)
    BY <1>1 DEF Piece
  <2>2. Own(p) \in Seq(Seq(Token))
    BY <1>1, <2>1
  <2>3. QED
    BY <2>2, Run!FlattenType, FlattenSame
<1> HIDE DEF Joined
<1>3. parts \in Seq(Seq(Plain))
  <2>1. \A i \in 1..Len(pieces) :
          [type |-> pieces[i].type, text |-> Joined(pieces[i])] \in Plain
    BY <1>1, <1>2 DEF Piece, Plain, BlockType
  <2>2. \A i \in 1..Len(pieces) :
          (IF IsLast(i) THEN <<[type |-> pieces[i].type, text |-> Joined(pieces[i])]>>
           ELSE <<>>) \in Seq(Plain)
    BY <2>1
  <2>3. QED
    BY <1>1, <2>2
<1>4. FlattenSeq(parts) \in Seq(Plain)
  BY <1>3, Run!FlattenType, FlattenSame
<1>5. QED
  BY <1>4 DEF LoadTrajectory, Joined

-----------------------------------------------------------------------------
(***************************************************************************)
(* What a feed does, whoever asks for it.                                  *)
(***************************************************************************)
Fresh(new) == New(RunDetector(blocks \o new, FALSE))

LEMMA FeedOK ==
    ASSUME Typed, Current, NEW new \in Seq(Block), Feed(new)
    PROVE  /\ blocks' \in Seq(Block)
           /\ Current'
           /\ acts \subseteq acts'
           /\ fired' = fired \cup Fresh(new)
           /\ Fresh(new) \subseteq Rule /\ fired' \subseteq Rule
<1> DEFINE more == blocks \o new
           found == Run!Fold(more).acts
<1>1. more \in Seq(Block)
  BY ConcatProperties DEF Typed
<1>2. RunDetector(more, FALSE) = found
  BY RunIs
<1>3. acts \subseteq found /\ Audited(found, more)
  BY <1>1, RunGrows, RunOK DEF Typed, Current
<1> HIDE DEF more, found
<1>4. /\ blocks' = more /\ acts' = found /\ fired' = fired \cup Names(found)
      /\ heard' = [r \in Rule |-> heard[r] + IF r \in New(found) THEN 1 ELSE 0]
      /\ Fresh(new) = New(found)
  BY <1>2 DEF Feed, Fresh, more
<1>5. Names(acts) \subseteq Names(found) /\ Names(found) \subseteq Rule
  BY <1>3 DEF Names, Audited
<1>6. fired' = Names(found) /\ New(found) = Names(found) \ fired
  BY <1>4, <1>5 DEF Current, New
<1>7. heard' = [r \in Rule |-> IF r \in Names(found) THEN 1 ELSE 0]
  <2>1. \A r \in Rule : heard[r] + (IF r \in New(found) THEN 1 ELSE 0)
                        = IF r \in Names(found) THEN 1 ELSE 0
    <3> TAKE r \in Rule
    <3>1. heard[r] = IF r \in fired THEN 1 ELSE 0
      BY DEF Current
    <3>2. r \in fired => r \in Names(found)
      BY <1>5 DEF Current
    <3>3. QED
      BY <1>6, <3>1, <3>2
  <2>2. QED
    BY <1>4, <2>1
<1>8. QED
  BY <1>1, <1>3, <1>4, <1>5, <1>6, <1>7 DEF Current, found, more

LEMMA FilesArePaths ==
    ASSUME Typed PROVE \A r \in Rule : FilesOf(r) \subseteq Path
<1> SUFFICES ASSUME NEW r \in Rule PROVE FilesOf(r) \subseteq Path
  OBVIOUS
<1>1. TargetKeys[r] \subseteq Bucket
  BY SessionAssumption
<1>2. \A k \in Bucket : prior[k] \subseteq Path
  BY DEF Typed
<1>3. QED
  BY <1>1, <1>2 DEF FilesOf, DetectedFiles

\* No listing changes the files of a rule.
LEMMA FilesStay ==
    ASSUME \A k \in Bucket \ {Discovered} : prior'[k] = prior[k]
    PROVE  \A r \in Rule : FilesOf(r)' = FilesOf(r)
<1> SUFFICES ASSUME NEW r \in Rule PROVE FilesOf(r)' = FilesOf(r)
  OBVIOUS
<1>1. TargetKeys[r] \subseteq Bucket \ {Discovered}
  BY SessionAssumption
<1>2. {prior'[k] : k \in TargetKeys[r]} = {prior[k] : k \in TargetKeys[r]}
  BY <1>1
<1>3. QED
  BY <1>2 DEF FilesOf, DetectedFiles

\* The feeds of the microbenchmarks.
LEMMA HandOK ==
    ASSUME Inv, bench # "path_b", NEW new \in Seq(Block), FeedAndHand(new),
           UNCHANGED <<bench, provider, mode>>
    PROVE  /\ Current' /\ HandedOut' /\ Mentioned' /\ OssCountsFilesOnce'
           /\ blocks' \in Seq(Block) /\ staged' \subseteq Path /\ nPrefetched' \in Nat
           /\ prior' = prior /\ reported' = reported
           /\ acts \subseteq acts'
<1> DEFINE rules == Fresh(new)
           handed == Handed(rules)
<1>1. /\ Feed(new) /\ staged' = staged \cup handed
      /\ nPrefetched' = nPrefetched + Cardinality(handed)
      /\ prior' = prior /\ reported' = reported
  BY DEF FeedAndHand, Fresh
<1>2. /\ blocks' \in Seq(Block) /\ Current' /\ acts \subseteq acts'
      /\ fired' = fired \cup rules /\ rules \subseteq Rule
  BY <1>1, FeedOK DEF Inv
<1> HIDE DEF rules, handed
<1>3. Named(rules) \subseteq Path
  BY <1>2, FilesArePaths DEF Inv, Named
<1>4. handed \subseteq Path
  BY <1>3 DEF handed, Handed, AiobHanded, OssHanded, DsbHanded
<1>5. IsFiniteSet(handed) /\ IsFiniteSet(staged) /\ Cardinality(handed) \in Nat
  BY <1>4, DetectorAssumption, FS_Subset, FS_CardinalityType DEF Inv, Typed
<1>6. Named(fired)' = Named(fired) \cup Named(rules)
  <2>1. \A r : FilesOf(r)' = FilesOf(r)
    BY <1>1 DEF FilesOf
  <2>2. Named(fired)' = UNION {FilesOf(r) : r \in fired \cup rules}
    BY <1>2, <2>1 DEF Named
  <2>3. QED
    BY <2>2 DEF Named
<1>7. HandedOut'
  <2>1. /\ bench' # "path_b" /\ mode' = mode /\ bench' = bench
    OBVIOUS
  <2>2. mode = "baseline" => handed = {}
    BY DEF handed, Handed
  <2>3. mode # "baseline" /\ (mode = "replay" \/ bench = "aiob") => handed = Named(rules)
    BY DEF handed, Handed, AiobHanded
  <2>4. mode # "baseline" /\ mode # "replay" /\ bench # "aiob"
          => Named(rules) \cap Existing \subseteq staged \cup handed
    BY DEF handed, Handed, OssHanded, DsbHanded
  <2>5. HandedOut
    BY DEF Inv
  <2>6. QED
    BY <1>1, <1>6, <2>1, <2>2, <2>3, <2>4, <2>5 DEF HandedOut
<1>8. OssCountsFilesOnce'
  <2> SUFFICES ASSUME bench = "bench", provider = "oss", mode = "staged"
               PROVE  nPrefetched' = Cardinality(staged')
    BY DEF OssCountsFilesOnce
  <2>1. nPrefetched = Cardinality(staged)
    BY DEF Inv, OssCountsFilesOnce
  <2>2. handed \cap staged = {}
    BY DEF handed, Handed, OssHanded
  <2>3. Cardinality(staged \cup handed)
          = Cardinality(staged) + Cardinality(handed) - Cardinality(staged \cap handed)
    BY <1>5, FS_Union
  <2>4. Cardinality(staged \cap handed) = 0 /\ Cardinality(staged) \in Nat
    BY <1>5, <2>2, FS_EmptySet, FS_CardinalityType
  <2>5. QED
    BY <1>1, <1>5, <2>1, <2>3, <2>4
<1>9. QED
  BY <1>1, <1>2, <1>4, <1>5, <1>7, <1>8 DEF Inv, Typed, Mentioned

\* The feeds of path_b_multiturn, the prior enriched before them.
LEMMA DispatchOK ==
    ASSUME Inv, bench = "path_b", NEW new \in Seq(Block), Feed(new), Dispatch(new),
           prior' \in [Bucket -> SUBSET Path],
           \A k \in Bucket \ {Discovered} : prior'[k] = prior[k],
           UNCHANGED recording
    PROVE  /\ Current' /\ HandedOut' /\ Mentioned' /\ OssCountsFilesOnce'
           /\ blocks' \in Seq(Block) /\ staged' \subseteq Path /\ reported' \subseteq Path
           /\ acts \subseteq acts'
<1> DEFINE rules == Fresh(new)
           found == HotPathScan(blocks', prior')
           hot == found \ reported
<1>1. /\ reported' = reported \cup hot
      /\ staged' = staged \cup EagerlyStaged(rules) \cup (hot \cap Existing)
      /\ bench' = bench
  BY DEF Dispatch, Fresh, recording
<1>2. /\ blocks' \in Seq(Block) /\ Current' /\ acts \subseteq acts'
      /\ fired' = fired \cup rules /\ rules \subseteq Rule /\ fired' \subseteq Rule
  BY FeedOK DEF Inv
<1>3. found \subseteq Path
  <2>1. \A k \in Bucket : prior'[k] \subseteq Path
    OBVIOUS
  <2>2. InputPath(prior') \subseteq Path
    BY <2>1 DEF InputPath
  <2>3. QED
    BY <2>2 DEF HotPathScan
<1>4. HotPathScan(blocks, prior)' = found
  OBVIOUS
<1>5. \A r \in Rule : FilesOf(r)' = FilesOf(r) /\ FilesOf(r) \subseteq Path
  BY FilesStay, FilesArePaths DEF Inv
<1> HIDE DEF rules, found
<1>6. EagerlyStaged(rules) = UNION {FilesOf(r) : r \in {q \in rules : Cardinality(FilesOf(q)) <= EagerFiles}}
  BY <1>2, <1>5 DEF EagerlyStaged
<1>7. EagerlyStaged(rules) \subseteq Path
  BY <1>2, <1>5, <1>6
<1>8. FiredIsStaged'
  <2> SUFFICES ASSUME NEW a \in acts', Cardinality(FilesOf(a.rule)') <= EagerFiles
               PROVE  FilesOf(a.rule)' \subseteq staged'
    BY DEF FiredIsStaged
  <2> DEFINE r == a.rule
  <2>1. r \in fired \cup rules /\ r \in Rule
    BY <1>2 DEF Current, Names
  <2>2. FilesOf(r)' = FilesOf(r)
    BY <1>5, <2>1
  <2>3. CASE r \in fired
    <3>1. PICK b \in acts : b.rule = r
      BY <2>3 DEF Inv, Current, Names
    <3>2. FilesOf(r) \subseteq staged
      BY <2>2, <3>1 DEF Inv, HandedOut, FiredIsStaged
    <3>3. QED
      BY <1>1, <2>2, <3>2
  <2>4. CASE r \in rules
    BY <1>1, <1>6, <2>2, <2>4
  <2>5. QED
    BY <2>1, <2>3, <2>4
<1>9. Mentioned'
  <2>1. reported \cap Existing \subseteq staged
    BY DEF Inv, Mentioned
  <2>2. MentionedIsStaged'
    BY <1>1, <1>4, <2>1 DEF MentionedIsStaged
  <2>3. QED
    BY <1>1, <2>1, <2>2 DEF Mentioned
<1>10. QED
  BY <1>1, <1>2, <1>3, <1>7, <1>8, <1>9, SessionAssumption
     DEF Inv, Typed, HandedOut, OssCountsFilesOnce

-----------------------------------------------------------------------------
(***************************************************************************)
(* The steps.                                                              *)
(***************************************************************************)
LEMMA InitOK == HarnessInit => Inv
<1> SUFFICES ASSUME HarnessInit PROVE Inv
  OBVIOUS
<1> USE DEF HarnessInit, Init
<1>1. Typed
  BY SessionAssumption DEF Typed
<1>2. Current
  BY Run!FoldEmpty DEF Current, Nothing, Names
<1>3. Placed
  BY DEF Placed
<1>4. HandedOut
  BY DEF HandedOut, FiredIsStaged, Named
<1>5. Mentioned
  <2>1. FullText(<<>>) = <<>>
    BY Run!FlattenEmpty, FlattenSame DEF FullText
  <2>2. HotPathScan(<<>>, WorkloadPrior) = {}
    BY <2>1 DEF HotPathScan, Occurs
  <2>3. QED
    BY <2>2 DEF Mentioned, MentionedIsStaged
<1>6. OssCountsFilesOnce
  BY FS_EmptySet DEF OssCountsFilesOnce
<1>7. QED
  BY <1>1, <1>2, <1>3, <1>4, <1>5, <1>6 DEF Inv

LEMMA AssistantTurnOK ==
    ASSUME Inv, bench = "path_b", AssistantTurn, UNCHANGED recording
    PROVE  Inv' /\ acts \subseteq acts'
<1>1. PICK reply \in Reply :
        /\ prior' = prior
        /\ Feed(Stamped(reply.blocks))
        /\ Dispatch(Stamped(reply.blocks))
        /\ phase' = IF reply.tools THEN "tools" ELSE "done"
  BY DEF AssistantTurn, Stamped
<1>2. Stamped(reply.blocks) \in Seq(Block)
  BY WrittenOK, StampedOK DEF Inv, Typed
<1>3. prior' \in [Bucket -> SUBSET Path] /\ \A k \in Bucket \ {Discovered} : prior'[k] = prior[k]
  BY <1>1 DEF Inv, Typed
<1>4. /\ Current' /\ HandedOut' /\ Mentioned' /\ OssCountsFilesOnce'
      /\ blocks' \in Seq(Block) /\ staged' \subseteq Path /\ reported' \subseteq Path
      /\ acts \subseteq acts'
  BY <1>1, <1>2, <1>3, DispatchOK
<1>5. turn' \in Nat
  BY DEF Inv, Typed, AssistantTurn
<1>6. Typed'
  BY <1>3, <1>4, <1>5 DEF Inv, Typed, recording
<1>7. Placed'
  BY <1>1 DEF Inv, Placed, AssistantTurn, recording
<1>8. QED
  BY <1>4, <1>6, <1>7 DEF Inv

LEMMA ToolResultsOK ==
    ASSUME Inv, bench = "path_b", ToolResults, UNCHANGED recording
    PROVE  Inv' /\ acts \subseteq acts'
<1>1. PICK results \in Result :
        /\ prior' = [prior EXCEPT ![Discovered] =
                       @ \cup UNION {results[i].listed : i \in DOMAIN results}]
        /\ Feed(ToolBlocks(results))
        /\ Dispatch(ToolBlocks(results))
  BY DEF ToolResults, ToolBlocks
<1>2. results \in Seq(ToolOutput) /\ ToolBlocks(results) \in Seq(Block)
  BY ResultType, ReturnedOK DEF Inv, Typed
<1>3. prior' \in [Bucket -> SUBSET Path] /\ \A k \in Bucket \ {Discovered} : prior'[k] = prior[k]
  <2>1. \A i \in DOMAIN results : results[i].listed \subseteq Path
    <3>1. DOMAIN results = 1..Len(results) /\ \A i \in 1..Len(results) : results[i] \in ToolOutput
      BY <1>2, LenProperties, ElementOfSeq
    <3>2. QED
      BY <3>1 DEF ToolOutput
  <2>2. UNION {results[i].listed : i \in DOMAIN results} \subseteq Path
    BY <2>1
  <2>3. QED
    BY <1>1, <2>2, SessionAssumption DEF Inv, Typed
<1>4. /\ Current' /\ HandedOut' /\ Mentioned' /\ OssCountsFilesOnce'
      /\ blocks' \in Seq(Block) /\ staged' \subseteq Path /\ reported' \subseteq Path
      /\ acts \subseteq acts'
  BY <1>1, <1>2, <1>3, DispatchOK
<1>6. Typed'
  BY <1>3, <1>4 DEF Inv, Typed, recording, ToolResults
<1>7. Placed'
  BY DEF Inv, Placed, ToolResults, recording
<1>8. QED
  BY <1>4, <1>6, <1>7 DEF Inv

LEMMA LiveTurnOK ==
    ASSUME Inv, NEW reply \in Reply, NEW fed \in Seq(Plain),
           NEW id \in [DOMAIN reply.blocks -> Nat], LiveTurn(reply, fed, id)
    PROVE  Inv' /\ acts \subseteq acts'
<1> DEFINE pieces == [i \in DOMAIN reply.blocks |->
             [type |-> reply.blocks[i].type, text |-> reply.blocks[i].text, block |-> id[i]]]
           entry == [pieces |-> pieces, results |-> <<>>]
<1>1. /\ bench # "path_b" /\ phase = "turn" /\ FeedAndHand(Stamped(fed))
      /\ log' = Append(log, entry) /\ turn' = turn + 1
      /\ phase' = IF reply.tools THEN "tools" ELSE "done"
      /\ UNCHANGED <<bench, provider, mode, pos>>
  BY DEF LiveTurn
<1>2. entry \in TurnLog
  <2>1. reply.blocks \in Seq([type : {"thinking", "text"}, text : Seq(Token)])
    BY SessionAssumption
  <2>2. /\ Len(reply.blocks) \in Nat /\ DOMAIN reply.blocks = 1..Len(reply.blocks)
        /\ \A i \in 1..Len(reply.blocks) :
             reply.blocks[i] \in [type : {"thinking", "text"}, text : Seq(Token)]
    BY <2>1, LenProperties, ElementOfSeq
  <2>3. \A i \in 1..Len(reply.blocks) :
          [type |-> reply.blocks[i].type, text |-> reply.blocks[i].text, block |-> id[i]] \in Piece
    BY <2>2 DEF Piece
  <2>4. pieces \in Seq(Piece) /\ <<>> \in Seq(ToolOutput)
    BY <2>2, <2>3
  <2>5. QED
    BY <2>4 DEF TurnLog
<1> HIDE DEF entry
<1>3. log' \in Seq(TurnLog) /\ Len(log') > 0
  <2>1. log \in Seq(TurnLog)
    BY DEF Inv, Typed
  <2>2. log' \in Seq(TurnLog) /\ Len(log') = Len(log) + 1 /\ Len(log) \in Nat
    BY <1>1, <1>2, <2>1, AppendProperties, LenProperties
  <2>3. QED
    BY <2>2
<1>4. Stamped(fed) \in Seq(Block)
  BY StampedOK DEF Inv, Typed
<1>5. /\ Current' /\ HandedOut' /\ Mentioned' /\ OssCountsFilesOnce'
      /\ blocks' \in Seq(Block) /\ staged' \subseteq Path /\ nPrefetched' \in Nat
      /\ prior' = prior /\ reported' = reported
      /\ acts \subseteq acts'
  BY <1>1, <1>4, HandOK
<1>6. Typed'
  BY <1>1, <1>3, <1>5 DEF Inv, Typed
<1>7. Placed'
  BY <1>1, <1>3 DEF Inv, Placed
<1>8. QED
  BY <1>5, <1>6, <1>7 DEF Inv

LEMMA LiveToolsOK ==
    ASSUME Inv, LiveTools PROVE Inv' /\ acts \subseteq acts'
<1>1. PICK results \in Result :
        /\ FeedAndHand(ToolBlocks(results))
        /\ log' = [log EXCEPT ![Len(log)].results = results]
  BY DEF LiveTools
<1>2. /\ bench # "path_b" /\ phase = "tools" /\ phase' \in {"done", "turn"}
      /\ UNCHANGED <<turn, bench, provider, mode, pos>>
  BY DEF LiveTools
<1>3. results \in Seq(ToolOutput) /\ ToolBlocks(results) \in Seq(Block)
  BY ResultType, ReturnedOK DEF Inv, Typed
<1>4. log' \in Seq(TurnLog) /\ Len(log') = Len(log) /\ Len(log) > 0
  <2>1. log \in Seq(TurnLog) /\ Len(log) > 0 /\ Len(log) \in Nat
    BY <1>2, LenProperties DEF Inv, Typed, Placed
  <2>2. Len(log) \in 1..Len(log)
    BY <2>1
  <2>3. log[Len(log)] \in TurnLog
    BY <2>1, <2>2, ElementOfSeq
  <2>4. [log[Len(log)] EXCEPT !.results = results] \in TurnLog
    BY <1>3, <2>3 DEF TurnLog
  <2>5. QED
    BY <1>1, <2>1, <2>2, <2>4, ExceptSeq
<1>5. /\ Current' /\ HandedOut' /\ Mentioned' /\ OssCountsFilesOnce'
      /\ blocks' \in Seq(Block) /\ staged' \subseteq Path /\ nPrefetched' \in Nat
      /\ prior' = prior /\ reported' = reported
      /\ acts \subseteq acts'
  BY <1>1, <1>2, <1>3, HandOK
<1>6. Typed'
  BY <1>2, <1>4, <1>5 DEF Inv, Typed
<1>7. Placed'
  BY <1>2, <1>4 DEF Inv, Placed
<1>8. QED
  BY <1>5, <1>6, <1>7 DEF Inv

LEMMA StartReplayOK == ASSUME Inv, StartReplay PROVE Inv'
<1> USE DEF Inv, StartReplay
<1>1. bench # "path_b" /\ Len(log) > 0
  BY DEF Placed
<1>2. Typed'
  BY EmptySeq DEF Typed
<1>3. Current'
  BY Run!FoldEmpty DEF Current, Nothing, Names
<1>4. Placed'
  BY <1>1 DEF Placed
<1>5. HandedOut'
  BY <1>1 DEF HandedOut, Named
<1>6. Mentioned' /\ OssCountsFilesOnce'
  BY <1>1 DEF Mentioned, OssCountsFilesOnce
<1>7. QED
  BY <1>2, <1>3, <1>4, <1>5, <1>6

LEMMA RecordedOK ==
    ASSUME Typed, turn < Len(log)
    PROVE  /\ log[turn + 1].pieces \in Seq(Piece)
           /\ log[turn + 1].results \in Seq(ToolOutput)
<1>1. Len(log) \in Nat /\ turn + 1 \in 1..Len(log)
  BY LenProperties DEF Typed
<1>2. log[turn + 1] \in TurnLog
  BY <1>1, ElementOfSeq DEF Typed
<1>3. QED
  BY <1>2 DEF TurnLog

LEMMA ReplayBlockOK ==
    ASSUME Inv, ReplayBlock PROVE Inv' /\ acts \subseteq acts'
<1> DEFINE loaded == LoadTrajectory(log[turn + 1].pieces)
<1>1. /\ bench # "path_b" /\ turn < Len(log) /\ turn \in Nat
      /\ pos <= Len(loaded) /\ FeedAndHand(<<Stamp(loaded[pos])>>) /\ pos' = pos + 1
      /\ UNCHANGED <<turn, phase, bench, provider, mode, log, lived>>
  BY DEF ReplayBlock, Inv, Placed, Typed
<1>2. loaded \in Seq(Plain)
  BY <1>1, RecordedOK, LoadedOK DEF Inv
<1>3. pos \in 1..Len(loaded)
  BY <1>1, <1>2, LenProperties DEF Inv, Typed
<1>4. <<Stamp(loaded[pos])>> \in Seq(Block)
  <2>1. loaded[pos] \in Plain
    BY <1>2, <1>3, ElementOfSeq
  <2>2. Stamp(loaded[pos]) \in Block
    BY <1>1, <2>1 DEF Stamp, Plain, Block
  <2>3. QED
    BY <2>2
<1>5. /\ Current' /\ HandedOut' /\ Mentioned' /\ OssCountsFilesOnce'
      /\ blocks' \in Seq(Block) /\ staged' \subseteq Path /\ nPrefetched' \in Nat
      /\ prior' = prior /\ reported' = reported
      /\ acts \subseteq acts'
  BY <1>1, <1>4, HandOK
<1>6. Typed'
  BY <1>1, <1>5 DEF Inv, Typed
<1>7. Placed'
  BY <1>1 DEF Inv, Placed
<1>8. QED
  BY <1>5, <1>6, <1>7 DEF Inv

LEMMA ReplayToolsOK ==
    ASSUME Inv, ReplayTools PROVE Inv' /\ acts \subseteq acts'
<1> DEFINE results == Survivors(log[turn + 1].results)
<1>1. /\ bench # "path_b" /\ turn < Len(log) /\ turn \in Nat
      /\ FeedAndHand(ToolBlocks(results)) /\ pos' = 1 /\ turn' = turn + 1
      /\ phase = "replay"
      /\ phase' = IF turn + 1 = Len(log) THEN "replayed" ELSE "replay"
      /\ UNCHANGED <<bench, provider, mode, log, lived>>
  BY DEF ReplayTools, Survivors, Inv, Placed, Typed
<1>2. ToolBlocks(results) \in Seq(Block)
  BY <1>1, RecordedOK, SurvivorsOK, ReturnedOK DEF Inv
<1> HIDE DEF results
<1>3. /\ Current' /\ HandedOut' /\ Mentioned' /\ OssCountsFilesOnce'
      /\ blocks' \in Seq(Block) /\ staged' \subseteq Path /\ nPrefetched' \in Nat
      /\ prior' = prior /\ reported' = reported
      /\ acts \subseteq acts'
  BY <1>1, <1>2, HandOK
<1>4. Typed'
  BY <1>1, <1>3 DEF Inv, Typed
<1>5. Placed'
  <2>1. Len(log) \in Nat
    BY LenProperties DEF Inv, Typed
  <2>2. QED
    BY <1>1, <2>1 DEF Inv, Placed
<1>6. QED
  BY <1>3, <1>4, <1>5 DEF Inv

\* Every step but the start of a replay, which follows the end of a session.
LEMMA StepOK ==
    ASSUME Inv, HarnessNext PROVE Inv' /\ (phase = "done" \/ acts \subseteq acts')
<1>1. CASE bench = "path_b" /\ AssistantTurn /\ UNCHANGED recording
  BY <1>1, AssistantTurnOK
<1>2. CASE bench = "path_b" /\ ToolResults /\ UNCHANGED recording
  BY <1>2, ToolResultsOK
<1>3. CASE AnthropicTurn
  <2>1. PICK reply \in Reply :
          LiveTurn(reply, reply.blocks, [i \in DOMAIN reply.blocks |-> i])
    BY <1>3 DEF AnthropicTurn
  <2>2. reply.blocks \in Seq(Plain) /\ DOMAIN reply.blocks \subseteq Nat
    BY WrittenOK, LenProperties
  <2>3. [i \in DOMAIN reply.blocks |-> i] \in [DOMAIN reply.blocks -> Nat]
    BY <2>2
  <2>4. QED
    BY <2>1, <2>2, <2>3, LiveTurnOK
<1>4. CASE GeminiTurn
  <2>1. PICK reply \in Reply :
          LiveTurn(reply, reply.blocks, [i \in DOMAIN reply.blocks |-> 0])
    BY <1>4 DEF GeminiTurn
  <2>2. reply.blocks \in Seq(Plain)
    BY WrittenOK
  <2>3. [i \in DOMAIN reply.blocks |-> 0] \in [DOMAIN reply.blocks -> Nat]
    OBVIOUS
  <2>4. QED
    BY <2>1, <2>2, <2>3, LiveTurnOK
<1>5. CASE OssTurn
  <2>1. PICK reply \in Reply :
          LiveTurn(reply, Merged(reply.blocks, "thinking") \o Merged(reply.blocks, "text"),
                   [i \in DOMAIN reply.blocks |-> 0])
    BY <1>5 DEF OssTurn
  <2>2. Merged(reply.blocks, "thinking") \o Merged(reply.blocks, "text") \in Seq(Plain)
    BY WrittenOK, MergedOK
  <2>3. [i \in DOMAIN reply.blocks |-> 0] \in [DOMAIN reply.blocks -> Nat]
    OBVIOUS
  <2>4. QED
    BY <2>1, <2>2, <2>3, LiveTurnOK
<1>6. CASE LiveTools
  BY <1>6, LiveToolsOK
<1>7. CASE StartReplay
  BY <1>7, StartReplayOK DEF StartReplay
<1>8. CASE ReplayBlock
  BY <1>8, ReplayBlockOK
<1>9. CASE ReplayTools
  BY <1>9, ReplayToolsOK
<1>10. QED
  BY <1>1, <1>2, <1>3, <1>4, <1>5, <1>6, <1>7, <1>8, <1>9 DEF HarnessNext

\* Nothing that the invariant speaks of is outside harnessVars.
LEMMA StutterOK == ASSUME Inv, UNCHANGED harnessVars PROVE Inv'
<1> USE DEF Inv, harnessVars, vars, recording
<1>1. Typed' /\ Current' /\ Placed'
  BY DEF Typed, Current, Placed
<1>2. \A r : FilesOf(r)' = FilesOf(r)
  BY DEF FilesOf
<1>3. FiredIsStaged' = FiredIsStaged
  BY <1>2 DEF FiredIsStaged
<1>4. Named(fired)' = Named(fired)
  BY <1>2 DEF Named
<1>5. HandedOut'
  BY <1>3, <1>4 DEF HandedOut
<1>6. Mentioned' /\ OssCountsFilesOnce'
  BY DEF Mentioned, MentionedIsStaged, OssCountsFilesOnce
<1>7. QED
  BY <1>1, <1>5, <1>6

THEOREM Invariance == HarnessSpec => []Inv
<1>1. Inv /\ [HarnessNext]_harnessVars => Inv'
  BY StepOK, StutterOK
<1>2. QED
  BY InitOK, <1>1, PTL DEF HarnessSpec

-----------------------------------------------------------------------------
(***************************************************************************)
(* The properties.                                                         *)
(***************************************************************************)
\* A rule is returned as new once, in the feed in which it fires, whatever
\* the text before and after it.
THEOREM ReturnedOnce == HarnessSpec => []HeardOnce
<1>1. Inv => HeardOnce
  BY DEF Inv, Current, HeardOnce
<1>2. QED
  BY <1>1, Invariance, PTL

\* An activation's source and turn lead to a block that holds a match, in
\* transcripts of any length.
THEOREM Audit == HarnessSpec => []ActivationAudit
<1>1. Inv => ActivationAudit
  <2> SUFFICES ASSUME Inv PROVE ActivationAudit
    OBVIOUS
  <2>1. Audited(acts, blocks)
    BY RunOK DEF Inv, Typed, Current
  <2>2. DOMAIN blocks = 1..Len(blocks)
    BY LenProperties DEF Inv, Typed
  <2>3. QED
    BY <2>1, <2>2 DEF Audited, ActivationAudit
<1>2. QED
  BY <1>1, Invariance, PTL

\* Whatever fired has been handed to the stager, by each script its own way.
THEOREM NothingFiredIsForgotten == HarnessSpec => []FiredIsHanded
<1>1. Inv => FiredIsHanded
  BY DEF Inv, HandedOut, Current, Placed, FiredIsHanded
<1>2. QED
  BY <1>1, Invariance, PTL

\* Whatever the transcript mentions has been reported, and staged if it exists.
THEOREM MentionsReachTheStager == HarnessSpec => []MentionsAreStaged
<1>1. Inv => MentionsAreStaged
  BY DEF Inv, Mentioned, MentionsAreStaged
<1>2. QED
  BY <1>1, Invariance, PTL

\* The OpenAI loop counts every file once.
THEOREM FilesAreCountedOnce == HarnessSpec => []OssCountsFilesOnce
<1>1. Inv => OssCountsFilesOnce
  BY DEF Inv
<1>2. QED
  BY <1>1, Invariance, PTL

\* Re-running the detector on a longer transcript revises nothing.
THEOREM Stability == HarnessSpec => ActivationsStable
<1>1. Inv /\ [HarnessNext]_harnessVars => [phase = "done" \/ acts \subseteq acts']_vars
  BY StepOK DEF harnessVars
<1>2. QED
  BY <1>1, Invariance, PTL DEF HarnessSpec, ActivationsStable

-----------------------------------------------------------------------------
(***************************************************************************)
(* The rules that fire depend on the texts alone: neither the turns nor    *)
(* the types of the blocks, nor blocks without text, make a difference.    *)
(***************************************************************************)
Texts(bs) == [i \in DOMAIN bs |-> bs[i].text]

ReadText(s, t) == [acc |-> s.acc \o t,
                   rules |-> s.rules \cup {r \in Rule : AtomicHits(r, s.acc, t)}]
Unread == [acc |-> <<>>, rules |-> {}]
Reading == INSTANCE FoldTheory WITH Op <- ReadText, Base <- Unread
Read(ts) == Reading!Fold(ts)
Reader == [acc : Seq(Token), rules : SUBSET Rule]

LEMMA ReadTextOK ==
    ASSUME NEW s \in Reader, NEW t \in Seq(Token)
    PROVE  /\ ReadText(s, t) \in Reader
           /\ t = <<>> => ReadText(s, t) = s
<1>1. s.acc \in Seq(Token) /\ s.rules \subseteq Rule /\ s = [acc |-> s.acc, rules |-> s.rules]
  BY DEF Reader
<1>2. ReadText(s, t) \in Reader
  BY <1>1, ConcatProperties DEF ReadText, Reader
<1>3. ASSUME t = <<>> PROVE ReadText(s, t) = s
  <2>1. \A r \in Rule : ~AtomicHits(r, s.acc, t)
    <3> SUFFICES ASSUME NEW r \in Rule, AtomicHits(r, s.acc, t) PROVE FALSE
      OBVIOUS
    <3>1. Matches(r, t)
      BY <1>1, HitIsMatch
    <3>2. QED
      BY <1>3, <3>1 DEF Matches, Starts
  <2>2. s.acc \o t = s.acc
    BY <1>1, <1>3, ConcatEmptySeq
  <2>3. QED
    BY <1>1, <2>1, <2>2 DEF ReadText
<1>4. QED
  BY <1>2, <1>3

LEMMA ReadStep ==
    ASSUME NEW ts \in Seq(Seq(Token)), NEW t \in Seq(Token)
    PROVE  Read(Append(ts, t)) = ReadText(Read(ts), t)
BY Reading!FoldAppend DEF Read

LEMMA ReadOK == \A ts \in Seq(Seq(Token)) : Read(ts) \in Reader
<1> DEFINE T == {ts \in Seq(Seq(Token)) : Read(ts) \in Reader}
<1>1. <<>> \in T
  <2>1. Read(<<>>) = Unread
    BY Reading!FoldEmpty DEF Read
  <2>2. <<>> \in Seq(Seq(Token)) /\ <<>> \in Seq(Token)
    BY EmptySeq
  <2>3. Unread \in Reader
    BY <2>2 DEF Unread, Reader
  <2>4. QED
    BY <2>1, <2>2, <2>3
<1>2. ASSUME NEW ts \in Seq(Seq(Token)), NEW t \in Seq(Token), ts \in T
      PROVE  Append(ts, t) \in T
  BY <1>2, ReadStep, ReadTextOK, AppendProperties
<1>3. Seq(Seq(Token)) \subseteq T
  <2> HIDE DEF T
  <2>1. QED
    BY <1>1, <1>2, Run!InductiveSeqs
<1>4. QED
  BY <1>3

LEMMA TextsOf ==
    ASSUME NEW S, NEW s \in Seq(S), \A x \in S : x.text \in Seq(Token)
    PROVE  /\ Texts(s) \in Seq(Seq(Token)) /\ Len(Texts(s)) = Len(s)
           /\ Len(s) \in Nat /\ DOMAIN s = 1..Len(s)
           /\ \A i \in 1..Len(s) : Texts(s)[i] = s[i].text
<1>1. Len(s) \in Nat /\ DOMAIN s = 1..Len(s) /\ \A i \in 1..Len(s) : s[i] \in S
  BY LenProperties, ElementOfSeq
<1>2. QED
  BY <1>1 DEF Texts

LEMMA TextsConcat ==
    ASSUME NEW S, \A x \in S : x.text \in Seq(Token), NEW bs \in Seq(S), NEW cs \in Seq(S)
    PROVE  Texts(bs \o cs) = Texts(bs) \o Texts(cs)
<1>1. \A s \in Seq(S) : /\ Texts(s) \in Seq(Seq(Token)) /\ Len(Texts(s)) = Len(s)
                        /\ \A i \in 1..Len(s) : Texts(s)[i] = s[i].text
                        /\ Len(s) \in Nat
  BY TextsOf
<1> DEFINE both == bs \o cs
           tt == Texts(bs) \o Texts(cs)
<1>2. /\ both \in Seq(S) /\ Len(both) = Len(bs) + Len(cs)
      /\ \A i \in 1..(Len(bs) + Len(cs)) :
           both[i] = IF i <= Len(bs) THEN bs[i] ELSE cs[i - Len(bs)]
  BY ConcatProperties
<1>3. /\ tt \in Seq(Seq(Token)) /\ Len(tt) = Len(bs) + Len(cs)
      /\ \A i \in 1..(Len(bs) + Len(cs)) :
           tt[i] = IF i <= Len(bs) THEN Texts(bs)[i] ELSE Texts(cs)[i - Len(bs)]
  <2> DEFINE t == Texts(bs)
             u == Texts(cs)
  <2>1. t \in Seq(Seq(Token)) /\ u \in Seq(Seq(Token)) /\ Len(t) = Len(bs) /\ Len(u) = Len(cs)
    BY <1>1
  <2> HIDE DEF t, u
  <2>2. /\ t \o u \in Seq(Seq(Token)) /\ Len(t \o u) = Len(t) + Len(u)
        /\ \A i \in 1..Len(t) + Len(u) : (t \o u)[i] = IF i <= Len(t) THEN t[i] ELSE u[i - Len(t)]
    BY <2>1, ConcatProperties
  <2>3. QED
    BY <2>1, <2>2 DEF t, u
<1>4. Texts(both) \in Seq(Seq(Token)) /\ Len(Texts(both)) = Len(bs) + Len(cs)
      /\ \A i \in 1..(Len(bs) + Len(cs)) : Texts(both)[i] = both[i].text
  BY <1>1, <1>2
<1> HIDE DEF both, tt
<1>5. \A i \in 1..(Len(bs) + Len(cs)) : Texts(both)[i] = tt[i]
  <2> TAKE i \in 1..(Len(bs) + Len(cs))
  <2>1. CASE i <= Len(bs)
    <3>1. i \in 1..Len(bs)
      BY <1>1, <2>1
    <3>2. QED
      BY <1>1, <1>2, <1>3, <1>4, <2>1, <3>1
  <2>2. CASE ~(i <= Len(bs))
    <3>1. i - Len(bs) \in 1..Len(cs)
      BY <1>1, <2>2
    <3>2. QED
      BY <1>1, <1>2, <1>3, <1>4, <2>2, <3>1
  <2>3. QED
    BY <2>1, <2>2
<1>6. QED
  BY <1>3, <1>4, <1>5, SeqEqual DEF both, tt

LEMMA PlainTexts ==
    ASSUME NEW bs \in Seq(Plain), NEW cs \in Seq(Plain)
    PROVE  Texts(bs \o cs) = Texts(bs) \o Texts(cs)
<1>1. \A x \in Plain : x.text \in Seq(Token)
  BY DEF Plain
<1>2. QED
  BY <1>1, TextsConcat

LEMMA TextsOK ==
    ASSUME NEW bs \in Seq(Block)
    PROVE  /\ Texts(bs) \in Seq(Seq(Token))
           /\ \A b \in Block : Texts(Append(bs, b)) = Append(Texts(bs), b.text)
           /\ \A cs \in Seq(Block) : Texts(bs \o cs) = Texts(bs) \o Texts(cs)
<1>1. (\A x \in Block : x.text \in Seq(Token)) /\ Texts(bs) \in Seq(Seq(Token))
  <2>1. \A x \in Block : x.text \in Seq(Token)
    BY DEF Block
  <2>2. QED
    BY <2>1, TextsOf
<1>2. \A cs \in Seq(Block) : Texts(bs \o cs) = Texts(bs) \o Texts(cs)
  BY <1>1, TextsConcat
<1>3. ASSUME NEW b \in Block PROVE Texts(Append(bs, b)) = Append(Texts(bs), b.text)
  <2>1. <<b>> \in Seq(Block) /\ Texts(<<b>>) = <<b.text>> /\ b.text \in Seq(Token)
    BY DEF Texts, Block
  <2>2. Append(bs, b) = bs \o <<b>> /\ Append(Texts(bs), b.text) = Texts(bs) \o <<b.text>>
    BY <1>1, <2>1, AppendIsConcat
  <2>3. QED
    BY <1>2, <2>1, <2>2
<1>4. QED
  BY <1>1, <1>2, <1>3

LEMMA RulesOfTexts ==
    \A bs \in Seq(Block) : /\ Run!Fold(bs).acc = Read(Texts(bs)).acc
                           /\ Names(Run!Fold(bs).acts) = Read(Texts(bs)).rules
<1> DEFINE T == {bs \in Seq(Block) : /\ Run!Fold(bs).acc = Read(Texts(bs)).acc
                                     /\ Names(Run!Fold(bs).acts) = Read(Texts(bs)).rules}
<1>1. <<>> \in T
  <2>1. Run!Fold(<<>>) = Nothing /\ Read(<<>>) = Unread /\ Texts(<<>>) = <<>>
    BY Run!FoldEmpty, Reading!FoldEmpty DEF Read, Texts
  <2>2. QED
    BY <2>1, EmptySeq DEF Nothing, Unread, Names
<1>2. ASSUME NEW bs \in Seq(Block), NEW b \in Block, bs \in T
      PROVE  Append(bs, b) \in T
  <2> DEFINE s == Run!Fold(bs)
             u == Read(Texts(bs))
             longer == Append(bs, b)
  <2>1. /\ longer \in Seq(Block) /\ b.text \in Seq(Token) /\ Texts(bs) \in Seq(Seq(Token))
        /\ Texts(longer) = Append(Texts(bs), b.text)
    BY AppendProperties, TextsOK DEF Block
  <2>2. /\ Run!Fold(longer) = ScanAtomic(s, b) /\ Read(Texts(longer)) = ReadText(u, b.text)
        /\ u \in Reader /\ s.acc = u.acc /\ Names(s.acts) = u.rules
    BY <1>2, <2>1, RunStep, ReadStep, ReadOK
  <2> HIDE DEF s, u, longer
  <2>3. ASSUME ~Scannable(b)
        PROVE  ScanAtomic(s, b).acc = ReadText(u, b.text).acc
               /\ Names(ScanAtomic(s, b).acts) = ReadText(u, b.text).rules
    <3>1. b.text = <<>>
      BY <2>3 DEF Scannable, Block, BlockType
    <3>2. ScanAtomic(s, b) = s
      BY <2>3 DEF ScanAtomic, ScanBlock
    <3>3. ReadText(u, b.text) = u
      BY <2>1, <2>2, <3>1, ReadTextOK
    <3>4. QED
      BY <2>2, <3>2, <3>3
  <2>4. ASSUME Scannable(b)
        PROVE  ScanAtomic(s, b).acc = ReadText(u, b.text).acc
               /\ Names(ScanAtomic(s, b).acts) = ReadText(u, b.text).rules
    <3> DEFINE hits == {r \in Rule \ Names(s.acts) : AtomicHits(r, s.acc, b.text)}
               new == {[rule |-> r, source |-> b.type, turn |-> b.turn] : r \in hits}
    <3>1. /\ ScanAtomic(s, b).acc = s.acc \o b.text
          /\ ScanAtomic(s, b).acts = s.acts \cup new
      BY <2>4 DEF ScanAtomic, ScanBlock
    <3>2. \A a \in new : a.rule \in hits
      OBVIOUS
    <3>3. \A r \in hits : \E a \in new : a.rule = r
      <4> TAKE r \in hits
      <4>1. [rule |-> r, source |-> b.type, turn |-> b.turn] \in new
        OBVIOUS
      <4>2. QED
        BY <4>1
    <3> HIDE DEF new
    <3>6. Names(s.acts \cup new) = Names(s.acts) \cup hits
      BY <3>2, <3>3 DEF Names
    <3>4. ReadText(u, b.text).rules = u.rules \cup {r \in Rule : AtomicHits(r, s.acc, b.text)}
      BY <2>2 DEF ReadText
    <3>5. ReadText(u, b.text).acc = s.acc \o b.text
      BY <2>2 DEF ReadText
    <3>7. Names(s.acts) \cup hits = u.rules \cup {r \in Rule : AtomicHits(r, s.acc, b.text)}
      BY <2>2
    <3>8. QED
      BY <3>1, <3>4, <3>5, <3>6, <3>7
  <2>5. /\ ScanAtomic(s, b).acc = ReadText(u, b.text).acc
        /\ Names(ScanAtomic(s, b).acts) = ReadText(u, b.text).rules
    BY <2>3, <2>4
  <2>6. QED
    BY <2>1, <2>2, <2>5 DEF longer
<1>3. Seq(Block) \subseteq T
  <2> HIDE DEF T
  <2>1. QED
    BY <1>1, <1>2, Run!InductiveSeqs
<1>4. QED
  BY <1>3

-----------------------------------------------------------------------------
(***************************************************************************)
(* What a replay loads is what the session fed, if the recording kept the  *)
(* blocks apart or the session merged them as the recording does.          *)
(***************************************************************************)
Logged(bs, id) == [i \in DOMAIN bs |->
                     [type |-> bs[i].type, text |-> bs[i].text, block |-> id[i]]]
Said == [type : {"thinking", "text"}, text : Seq(Token)]

LEMMA LoadedApart ==
    ASSUME NEW bs \in Seq(Said)
    PROVE  LoadTrajectory(Logged(bs, [i \in DOMAIN bs |-> i])) = bs
<1> DEFINE n == Len(bs)
           pieces == Logged(bs, [i \in DOMAIN bs |-> i])
           IsLast(i) == \A j \in DOMAIN pieces : SameBlock(pieces[i], pieces[j]) => j <= i
           Own(p) == [i \in DOMAIN pieces |->
                        IF SameBlock(p, pieces[i]) THEN pieces[i].text ELSE <<>>]
           Joined(p) == FlattenSeq(Own(p))
           parts == [i \in DOMAIN pieces |->
              IF IsLast(i) THEN <<[type |-> pieces[i].type, text |-> Joined(pieces[i])]>>
              ELSE <<>>]
<1>1. LoadTrajectory(pieces) = FlattenSeq(parts)
  BY DEF LoadTrajectory
<1>2. n \in Nat /\ DOMAIN bs = 1..n /\ \A i \in 1..n : bs[i] \in Said
  BY LenProperties, ElementOfSeq
<1>3. /\ DOMAIN pieces = 1..n
      /\ \A i \in 1..n : /\ pieces[i].type = bs[i].type /\ pieces[i].text = bs[i].text
                         /\ pieces[i].block = i
  BY <1>2 DEF Logged
<1> HIDE DEF n, pieces
<1>4. \A i \in 1..n : IsLast(i)
  BY <1>2, <1>3 DEF SameBlock
<1>5. ASSUME NEW i \in 1..n PROVE Joined(pieces[i]) = bs[i].text
  <2> DEFINE own == Own(pieces[i])
  <2>1. \A j \in 1..n : own[j] = IF j = i THEN bs[j].text ELSE <<>>
    BY <1>2, <1>3 DEF SameBlock
  <2>2. DOMAIN own = 1..n /\ \A j \in 1..n : own[j] \in Seq(Token)
    BY <1>2, <1>3, <2>1 DEF Said
  <2>3. own \in Seq(Seq(Token)) /\ Len(own) = n
    BY <1>2, <1>3, <2>2
  <2> HIDE DEF own
  <2>4. FlattenSeq(own) = own[i]
    BY <2>1, <2>3, Run!FlattenOne, FlattenSame
  <2>5. QED
    BY <2>1, <2>4 DEF own
<1>6. \A i \in 1..n : bs[i] = [type |-> pieces[i].type, text |-> bs[i].text]
  BY <1>2, <1>3 DEF Said
<1> HIDE DEF Joined, IsLast
<1>7. parts = [i \in DOMAIN bs |-> <<bs[i]>>]
  BY <1>2, <1>3, <1>4, <1>5, <1>6
<1>8. QED
  BY <1>1, <1>7, Run!FlattenSingles, FlattenSame DEF pieces

LEMMA LastOne ==
    ASSUME NEW n \in Nat, NEW I \in SUBSET (1..n), I # {}
    PROVE  \E i \in I : \A j \in I : j <= i
BY Run!GreatestOf

LEMMA LoadedTogether ==
    ASSUME NEW bs \in Seq(Said),
           \A i, j \in DOMAIN bs :
             i < j /\ bs[j].type = "thinking" => bs[i].type = "thinking"
    PROVE  LoadTrajectory(Logged(bs, [i \in DOMAIN bs |-> 0]))
             = Merged(bs, "thinking") \o Merged(bs, "text")
<1> DEFINE n == Len(bs)
           pieces == Logged(bs, [i \in DOMAIN bs |-> 0])
           IsLast(i) == \A j \in DOMAIN pieces : SameBlock(pieces[i], pieces[j]) => j <= i
           Own(p) == [i \in DOMAIN pieces |->
                        IF SameBlock(p, pieces[i]) THEN pieces[i].text ELSE <<>>]
           Joined(p) == FlattenSeq(Own(p))
           parts == [i \in DOMAIN pieces |->
              IF IsLast(i) THEN <<[type |-> pieces[i].type, text |-> Joined(pieces[i])]>>
              ELSE <<>>]
           whole(type) == <<[type |-> type, text |-> TextOf(bs, type)]>>
           latest(i) == \A j \in 1..n : bs[j].type = bs[i].type => j <= i
<1>1. LoadTrajectory(pieces) = FlattenSeq(parts)
  BY DEF LoadTrajectory
<1>2. n \in Nat /\ DOMAIN bs = 1..n /\ \A i \in 1..n : bs[i] \in Said
  BY LenProperties, ElementOfSeq
<1>3. /\ DOMAIN pieces = 1..n
      /\ \A i \in 1..n : /\ pieces[i].type = bs[i].type /\ pieces[i].text = bs[i].text
                         /\ pieces[i].block = 0
  BY <1>2 DEF Logged
<1> HIDE DEF n, pieces
<1>4. \A i \in 1..n : IsLast(i) <=> latest(i)
  BY <1>2, <1>3 DEF SameBlock
<1>5. ASSUME NEW i \in 1..n PROVE Joined(pieces[i]) = TextOf(bs, bs[i].type)
  <2>1. Own(pieces[i]) = [j \in DOMAIN bs |-> IF bs[j].type = bs[i].type THEN bs[j].text ELSE <<>>]
    BY <1>2, <1>3 DEF SameBlock
  <2>2. QED
    BY <2>1 DEF TextOf
<1> HIDE DEF Joined, IsLast
<1>6. \A i \in 1..n : parts[i] = IF latest(i) THEN whole(bs[i].type) ELSE <<>>
  BY <1>3, <1>4, <1>5
<1>7. \A type \in {"thinking", "text"} : whole(type) \in Seq(Plain)
  <2> TAKE type \in {"thinking", "text"}
  <2>1. bs \in Seq(Plain)
    BY SeqMonotonic DEF Said, Plain, BlockType
  <2>2. [type |-> type, text |-> TextOf(bs, type)] \in Plain
    BY <2>1, TextOK DEF Plain, BlockType
  <2>3. QED
    BY <2>2
<1>8. parts \in Seq(Seq(Plain)) /\ Len(parts) = n
  <2>1. DOMAIN parts = 1..n /\ parts = [i \in 1..n |-> parts[i]]
    BY <1>3
  <2> HIDE DEF parts, whole, latest
  <2>2. \A i \in 1..n : whole(bs[i].type) \in Seq(Plain) /\ <<>> \in Seq(Plain)
    <3>1. \A i \in 1..n : bs[i].type \in {"thinking", "text"}
      BY <1>2 DEF Said
    <3>2. <<>> \in Seq(Plain)
      BY EmptySeq
    <3>3. QED
      BY <1>7, <3>1, <3>2, Zenon
  <2>3. \A i \in 1..n : parts[i] \in Seq(Plain)
    BY <1>6, <2>2
  <2>4. QED
    BY <1>2, <2>1, <2>3
<1> HIDE DEF parts, whole
<1> DEFINE Of(type) == {i \in 1..n : bs[i].type = type}
<1>9. \A type : Merged(bs, type) = IF Of(type) # {} THEN whole(type) ELSE <<>>
  BY <1>2 DEF Merged, whole
<1>10. Of("thinking") \cup Of("text") = 1..n /\ "thinking" # "text"
  BY <1>2 DEF Said
<1>11. CASE Of("thinking") = {} /\ Of("text") = {}
  <2>1. \A i \in 1..n : parts[i] = <<>>
    BY <1>10, <1>11
  <2>2. FlattenSeq(parts) = <<>>
    BY <1>8, <2>1, Run!FlattenNone, FlattenSame
  <2>3. Merged(bs, "thinking") = <<>> /\ Merged(bs, "text") = <<>>
    BY <1>9, <1>11
  <2>4. QED
    BY <1>1, <2>2, <2>3 DEF pieces
<1>12. ASSUME NEW type \in {"thinking", "text"}, Of(type) = 1..n, n > 0
       PROVE  FlattenSeq(parts) = whole(type)
  <2>1. PICK i \in Of(type) : \A j \in Of(type) : j <= i
    BY <1>2, <1>12, LastOne
  <2>2. latest(i) /\ \A j \in 1..n : latest(j) => j = i
    BY <1>2, <1>12, <2>1
  <2>3. parts[i] = whole(type) /\ \A j \in 1..n : j # i => parts[j] = <<>>
    BY <1>6, <2>1, <2>2
  <2>4. QED
    BY <1>8, <2>1, <2>3, Run!FlattenOne, FlattenSame
<1>13. CASE Of("thinking") # {} /\ Of("text") = {}
  <2>1. Of("thinking") = 1..n /\ n > 0
    BY <1>2, <1>10, <1>13
  <2>2. FlattenSeq(parts) = whole("thinking")
    BY <1>12, <2>1
  <2>3. Merged(bs, "thinking") = whole("thinking") /\ Merged(bs, "text") = <<>>
    BY <1>9, <1>13
  <2>4. Merged(bs, "thinking") \o Merged(bs, "text") = whole("thinking")
    BY <1>7, <2>3, ConcatEmptySeq
  <2>5. QED
    BY <1>1, <2>2, <2>4 DEF pieces
<1>14. CASE Of("thinking") = {} /\ Of("text") # {}
  <2>1. Of("text") = 1..n /\ n > 0
    BY <1>2, <1>10, <1>14
  <2>2. FlattenSeq(parts) = whole("text")
    BY <1>12, <2>1
  <2>3. Merged(bs, "text") = whole("text") /\ Merged(bs, "thinking") = <<>>
    BY <1>9, <1>14
  <2>4. Merged(bs, "thinking") \o Merged(bs, "text") = whole("text")
    BY <1>7, <2>3, ConcatEmptySeq
  <2>5. QED
    BY <1>1, <2>2, <2>4 DEF pieces
<1>15. CASE Of("thinking") # {} /\ Of("text") # {}
  <2>1. PICK h \in Of("thinking") : \A j \in Of("thinking") : j <= h
    BY <1>2, <1>15, LastOne
  <2>2. PICK i \in Of("text") : \A j \in Of("text") : j <= i
    BY <1>2, <1>15, LastOne
  <2>3. h \in 1..n /\ i \in 1..n /\ bs[h].type = "thinking" /\ bs[i].type = "text"
    BY <2>1, <2>2
  <2>4. h < i
    BY <1>2, <2>3
  <2>5. latest(h) /\ latest(i) /\ \A j \in 1..n : latest(j) => j = h \/ j = i
    <3>1. \A j \in 1..n : bs[j].type = "thinking" => j <= h
      BY <2>1
    <3>2. \A j \in 1..n : bs[j].type = "text" => j <= i
      BY <2>2
    <3>3. \A j \in 1..n : bs[j].type = "thinking" \/ bs[j].type = "text"
      BY <1>10
    <3>4. ASSUME NEW j \in 1..n, latest(j), j # h, j # i PROVE FALSE
      <4>1. CASE bs[j].type = "thinking"
        BY <2>3, <3>1, <3>4, <4>1
      <4>2. CASE bs[j].type = "text"
        BY <2>3, <3>2, <3>4, <4>2
      <4>3. QED
        BY <3>3, <4>1, <4>2
    <3>5. QED
      BY <2>3, <3>1, <3>2, <3>4
  <2>6. /\ parts[h] = whole("thinking") /\ parts[i] = whole("text")
        /\ \A j \in 1..n : j # h /\ j # i => parts[j] = <<>>
    BY <1>6, <2>3, <2>5
  <2>7. FlattenSeq(parts) = whole("thinking") \o whole("text")
    BY <1>8, <2>3, <2>4, <2>6, Run!FlattenTwo, FlattenSame
  <2>8. QED
    BY <1>1, <1>9, <1>15, <2>7 DEF pieces
<1>16. QED
  BY <1>11, <1>13, <1>14, <1>15

-----------------------------------------------------------------------------
(***************************************************************************)
(* The texts of a recording.                                               *)
(***************************************************************************)
First(s, k) == [i \in 1..k |-> s[i]]

LEMMA FirstOK ==
    ASSUME NEW S, NEW s \in Seq(S)
    PROVE  /\ First(s, 0) = <<>>
           /\ First(s, Len(s)) = s
           /\ \A k \in 0..Len(s) : First(s, k) \in Seq(S) /\ Len(First(s, k)) = k
           /\ \A k \in 0..(Len(s) - 1) : /\ k + 1 \in 1..Len(s) /\ s[k + 1] \in S
                                        /\ First(s, k + 1) = Append(First(s, k), s[k + 1])
           /\ \A x \in S : \A k \in 0..Len(s) : First(Append(s, x), k) = First(s, k)
<1> DEFINE n == Len(s)
<1>1. n \in Nat /\ s \in [1..n -> S] /\ \A i \in 1..n : s[i] \in S
  BY LenProperties, ElementOfSeq
<1>2. First(s, 0) = <<>> /\ First(s, n) = s
  BY <1>1 DEF First
<1>3. \A k \in 0..n : First(s, k) \in Seq(S) /\ Len(First(s, k)) = k
  <2> TAKE k \in 0..n
  <2>1. k \in Nat /\ \A i \in 1..k : s[i] \in S
    BY <1>1
  <2>2. QED
    BY <2>1 DEF First
<1>4. ASSUME NEW k \in 0..(n - 1)
      PROVE  /\ k + 1 \in 1..n /\ s[k + 1] \in S
             /\ First(s, k + 1) = Append(First(s, k), s[k + 1])
  <2> HIDE DEF n
  <2>1. k \in Nat /\ k + 1 \in Nat /\ k \in 0..n /\ k + 1 \in 0..n /\ k + 1 \in 1..n
    BY <1>1
  <2> DEFINE a == First(s, k + 1)
             b == Append(First(s, k), s[k + 1])
  <2>2. a \in Seq(S) /\ Len(a) = k + 1 /\ \A i \in 1..(k + 1) : a[i] = s[i]
    BY <1>3, <2>1 DEF First
  <2>3. /\ b \in Seq(S) /\ Len(b) = k + 1 /\ b[k + 1] = s[k + 1]
        /\ \A i \in 1..k : b[i] = First(s, k)[i]
    BY <1>1, <1>3, <2>1, AppendProperties
  <2>4. \A i \in 1..k : First(s, k)[i] = s[i]
    BY DEF First
  <2> HIDE DEF a, b
  <2>5. \A i \in 1..(k + 1) : a[i] = b[i]
    <3> TAKE i \in 1..(k + 1)
    <3>1. i = k + 1 \/ i \in 1..k
      BY <2>1
    <3>2. QED
      BY <2>2, <2>3, <2>4, <3>1
  <2>6. a = b
    BY <2>2, <2>3, <2>5, SeqEqual
  <2>7. QED
    BY <1>1, <2>1, <2>6 DEF a, b
<1>5. ASSUME NEW x \in S, NEW k \in 0..n PROVE First(Append(s, x), k) = First(s, k)
  <2>1. \A i \in 1..n : Append(s, x)[i] = s[i]
    BY AppendProperties
  <2>2. \A i \in 1..k : i \in 1..n
    BY <1>1
  <2>3. QED
    BY <2>1, <2>2 DEF First
<1>6. QED
  BY <1>2, <1>3, <1>4, <1>5

TurnTexts(e) == Texts(LoadTrajectory(e.pieces)) \o Texts(e.results)
LogTexts(turns) == FlattenSeq([n \in DOMAIN turns |-> TurnTexts(turns[n])])

LEMMA TurnTextsOK ==
    ASSUME NEW e \in TurnLog
    PROVE  /\ Texts(LoadTrajectory(e.pieces)) \in Seq(Seq(Token))
           /\ Texts(e.results) \in Seq(Seq(Token))
           /\ TurnTexts(e) \in Seq(Seq(Token))
<1>1. e.pieces \in Seq(Piece) /\ e.results \in Seq(ToolOutput)
  BY DEF TurnLog
<1>2. LoadTrajectory(e.pieces) \in Seq(Plain)
  BY <1>1, LoadedOK
<1>3. \A x \in Plain : x.text \in Seq(Token)
  BY DEF Plain
<1>4. \A x \in ToolOutput : x.text \in Seq(Token)
  BY DEF ToolOutput
<1>5. Texts(LoadTrajectory(e.pieces)) \in Seq(Seq(Token))
  BY <1>2, <1>3, TextsOf
<1>6. Texts(e.results) \in Seq(Seq(Token))
  BY <1>1, <1>4, TextsOf
<1>7. QED
  BY <1>5, <1>6, ConcatProperties DEF TurnTexts

LEMMA LogTextsOK ==
    ASSUME NEW turns \in Seq(TurnLog)
    PROVE  /\ LogTexts(turns) \in Seq(Seq(Token))
           /\ \A e \in TurnLog : LogTexts(Append(turns, e)) = LogTexts(turns) \o TurnTexts(e)
<1> DEFINE Each(l) == [n \in DOMAIN l |-> TurnTexts(l[n])]
           n == Len(turns)
<1>1. n \in Nat /\ DOMAIN turns = 1..n /\ \A i \in 1..n : turns[i] \in TurnLog
  BY LenProperties, ElementOfSeq
<1>2. Each(turns) \in Seq(Seq(Seq(Token))) /\ Len(Each(turns)) = n
  <2>1. \A i \in 1..n : TurnTexts(turns[i]) \in Seq(Seq(Token))
    BY <1>1, TurnTextsOK
  <2>2. QED
    BY <1>1, <2>1
<1>3. LogTexts(turns) \in Seq(Seq(Token))
  BY <1>2, Run!FlattenType, FlattenSame DEF LogTexts
<1>4. ASSUME NEW e \in TurnLog PROVE LogTexts(Append(turns, e)) = LogTexts(turns) \o TurnTexts(e)
  <2> DEFINE longer == Append(turns, e)
             t == TurnTexts(e)
  <2>1. /\ longer \in Seq(TurnLog) /\ Len(longer) = n + 1 /\ DOMAIN longer = 1..(n + 1)
        /\ longer[n + 1] = e /\ \A i \in 1..n : longer[i] = turns[i]
    BY <1>1, AppendProperties, LenProperties
  <2>2. t \in Seq(Seq(Token))
    BY TurnTextsOK
  <2> HIDE DEF longer
  <2>3. \A i \in 1..n : TurnTexts(longer[i]) = TurnTexts(turns[i])
    BY <2>1
  <2>4. TurnTexts(longer[n + 1]) = t
    BY <2>1
  <2> HIDE DEF t
  <2>5. Each(longer) = Append(Each(turns), t)
    BY <1>1, <1>2, <2>1, <2>3, <2>4
  <2>6. FlattenSeq(Append(Each(turns), t)) = FlattenSeq(Each(turns)) \o t
    <3> DEFINE each == Each(turns)
    <3>1. each \in Seq(Seq(Seq(Token)))
      BY <1>2
    <3> HIDE DEF each
    <3>2. FlattenSeq(Append(each, t)) = FlattenSeq(each) \o t
      BY <2>2, <3>1, Run!FlattenAppend, FlattenSame
    <3>3. QED
      BY <3>2 DEF each
  <2>7. QED
    BY <2>5, <2>6 DEF LogTexts, longer, t
<1>5. QED
  BY <1>3, <1>4

-----------------------------------------------------------------------------
(***************************************************************************)
(* The invariant of the recordings that keep their blocks.                 *)
(***************************************************************************)
Keeping == bench # "path_b" /\ provider # "gemini"

\* The turns whose tools have been heard.
Heard == IF phase = "tools" THEN Len(log) - 1 ELSE Len(log)

\* What was fed is what was recorded.
Recorded ==
    mode # "replay" => /\ Texts(blocks) = LogTexts(log)
                       /\ pos = 1
                       /\ phase = "tools" => log[Len(log)].results = <<>>

\* The history of the live session.
Lived ==
    /\ lived \in Seq(SUBSET Rule)
    /\ Len(lived) = Heard
    /\ \A k \in 1..Heard : lived[k] = Read(LogTexts(First(log, k))).rules

NoneKilled(k) == \A n \in 1..k : \A i \in DOMAIN log[n].results : ~log[n].results[i].killed

\* A replay has been fed the recorded turns so far and a part of the next.
Repeated ==
    mode = "replay" =>
      /\ turn <= Len(log)
      /\ phase = "replayed" => pos = 1
      /\ pos = 1 /\ NoneKilled(turn) => Texts(blocks) = LogTexts(First(log, turn))
      /\ pos # 1 =>
           LET loaded == Texts(LoadTrajectory(log[turn + 1].pieces)) IN
           /\ pos - 1 <= Len(loaded)
           /\ NoneKilled(turn) =>
                Texts(blocks) = LogTexts(First(log, turn)) \o First(loaded, pos - 1)

History == Keeping => Recorded /\ Lived /\ Repeated

LEMMA RulesRead ==
    \A bs \in Seq(Block) : /\ Names(Run!Fold(bs).acts) = Read(Texts(bs)).rules
                           /\ Read(Texts(bs)).rules \subseteq Rule
<1> SUFFICES ASSUME NEW bs \in Seq(Block) PROVE Read(Texts(bs)).rules \subseteq Rule
  BY RulesOfTexts
<1>1. Texts(bs) \in Seq(Seq(Token))
  BY TextsOK
<1>2. Read(Texts(bs)) \in Reader
  BY <1>1, ReadOK
<1>3. QED
  BY <1>2 DEF Reader

LEMMA FedTexts ==
    ASSUME Typed, NEW new \in Seq(Block), Feed(new)
    PROVE  Texts(blocks') = Texts(blocks) \o Texts(new)
BY TextsOK DEF Typed, Feed

LEMMA StampedTexts ==
    ASSUME turn \in Nat
    PROVE  /\ \A bs \in Seq(Plain) : Texts(Stamped(bs)) = Texts(bs)
           /\ \A rs \in Seq(ToolOutput) : Texts(ToolBlocks(rs)) = Texts(rs)
<1>1. ASSUME NEW bs \in Seq(Plain) PROVE Texts(Stamped(bs)) = Texts(bs)
  <2>1. DOMAIN Stamped(bs) = DOMAIN bs /\ \A i \in DOMAIN bs : Stamped(bs)[i].text = bs[i].text
    BY DEF Stamped, Stamp
  <2>2. QED
    BY <2>1 DEF Texts
<1>2. ASSUME NEW rs \in Seq(ToolOutput) PROVE Texts(ToolBlocks(rs)) = Texts(rs)
  <2>1. DOMAIN ToolBlocks(rs) = DOMAIN rs /\ \A i \in DOMAIN rs : ToolBlocks(rs)[i].text = rs[i].text
    BY DEF ToolBlocks, Stamp
  <2>2. QED
    BY <2>1 DEF Texts
<1>3. QED
  BY <1>1, <1>2

LEMMA HistoryInit == HarnessInit => History
<1> SUFFICES ASSUME HarnessInit PROVE Recorded /\ Lived /\ Repeated
  BY DEF History
<1> USE DEF HarnessInit, Init
<1>1. LogTexts(<<>>) = <<>>
  <2>1. [n \in DOMAIN <<>> |-> TurnTexts(<<>>[n])] = <<>>
    OBVIOUS
  <2>2. QED
    BY <2>1, Run!FlattenEmpty, FlattenSame DEF LogTexts
<1>2. Recorded
  BY <1>1 DEF Recorded, Texts
<1>3. Lived
  BY EmptySeq DEF Lived, Heard
<1>4. QED
  BY <1>2, <1>3 DEF Repeated

\* A turn: what the recording will give back is what was fed.
LEMMA HistoryTurn ==
    ASSUME Inv, Inv', History, Keeping, NEW reply \in Reply, NEW fed \in Seq(Plain),
           NEW id \in [DOMAIN reply.blocks -> Nat], LiveTurn(reply, fed, id),
           fed = LoadTrajectory(Logged(reply.blocks, id))
    PROVE  History'
<1> DEFINE e == [pieces |-> Logged(reply.blocks, id), results |-> <<>>]
           n == Len(log)
<1>1. /\ phase = "turn" /\ Feed(Stamped(fed)) /\ log' = Append(log, e)
      /\ phase' = IF reply.tools THEN "tools" ELSE "done"
      /\ lived' = IF reply.tools THEN lived ELSE Append(lived, fired')
      /\ UNCHANGED <<bench, provider, mode, pos>>
  BY DEF LiveTurn, FeedAndHand, Logged
<1>2. mode # "replay" /\ turn \in Nat /\ log \in Seq(TurnLog) /\ log' \in Seq(TurnLog)
      /\ n \in Nat /\ Keeping'
  BY <1>1, LenProperties DEF Inv, Placed, Typed, Keeping
<1>3. /\ Recorded /\ Lived /\ Heard = n /\ lived \in Seq(SUBSET Rule) /\ Len(lived) = n
      /\ Texts(blocks) = LogTexts(log) /\ pos = 1
  BY <1>1, <1>2 DEF History, Heard, Recorded, Lived
<1>4. e \in TurnLog /\ e.results = <<>> /\ e.pieces = Logged(reply.blocks, id)
  <2>1. Len(log') = n + 1 /\ n + 1 \in 1..(n + 1) /\ log'[n + 1] = e
    BY <1>1, <1>2, AppendProperties
  <2>2. QED
    BY <1>2, <2>1, ElementOfSeq
<1> HIDE DEF e
<1>5. Len(log') = n + 1 /\ log'[n + 1] = e
  BY <1>1, <1>2, <1>4, AppendProperties
<1>6. Texts(blocks') = LogTexts(log')
  <2>1. Stamped(fed) \in Seq(Block) /\ Texts(Stamped(fed)) = Texts(fed)
    BY <1>2, StampedOK, StampedTexts
  <2>2. Texts(blocks') = LogTexts(log) \o Texts(fed)
    BY <1>1, <1>3, <2>1, FedTexts DEF Inv
  <2>3. TurnTexts(e) = Texts(fed)
    <3>1. Texts(e.results) = <<>> /\ Texts(fed) \in Seq(Seq(Token))
      <4>1. Texts(<<>>) = <<>>
        BY DEF Texts
      <4>2. fed = LoadTrajectory(e.pieces)
        BY <1>4
      <4>3. QED
        BY <1>4, <4>1, <4>2, TurnTextsOK
    <3>2. TurnTexts(e) = Texts(fed) \o <<>>
      BY <1>4, <3>1 DEF TurnTexts
    <3>3. QED
      BY <3>1, <3>2, ConcatEmptySeq
  <2>4. QED
    BY <1>1, <1>2, <1>4, <2>2, <2>3, LogTextsOK
<1>7. Recorded'
  BY <1>1, <1>2, <1>3, <1>4, <1>5, <1>6 DEF Recorded
<1>8. \A k \in 1..n : First(log', k) = First(log, k)
  BY <1>1, <1>2, <1>4, FirstOK
<1>9. \A k \in 1..n : lived[k] = Read(LogTexts(First(log', k))).rules
  BY <1>3, <1>8 DEF Lived
<1>10. Lived'
  <2>1. CASE reply.tools
    <3>1. Heard' = n /\ lived' = lived
      BY <1>1, <1>2, <1>5, <2>1 DEF Heard
    <3>2. QED
      BY <1>3, <1>9, <3>1 DEF Lived
  <2>2. CASE ~reply.tools
    <3>1. Heard' = n + 1 /\ lived' = Append(lived, fired')
      BY <1>1, <1>2, <1>5, <2>2 DEF Heard
    <3>2. fired' = Read(Texts(blocks')).rules /\ fired' \subseteq Rule
      <4>1. blocks' \in Seq(Block) /\ fired' = Names(Run!Fold(blocks').acts)
        BY DEF Inv, Typed, Current
      <4>2. QED
        BY <4>1, RulesRead
    <3>3. First(log', n + 1) = log'
      BY <1>2, <1>5, FirstOK
    <3>4. /\ lived' \in Seq(SUBSET Rule) /\ Len(lived') = n + 1 /\ lived'[n + 1] = fired'
          /\ \A k \in 1..n : lived'[k] = lived[k]
      BY <1>3, <3>1, <3>2, AppendProperties
    <3>5. \A k \in 1..(n + 1) : lived'[k] = Read(LogTexts(First(log', k))).rules
      <4> TAKE k \in 1..(n + 1)
      <4>1. k = n + 1 \/ k \in 1..n
        BY <1>2
      <4>2. CASE k = n + 1
        BY <1>6, <3>2, <3>3, <3>4, <4>2
      <4>3. CASE k \in 1..n
        BY <1>9, <3>4, <4>3
      <4>4. QED
        BY <4>1, <4>2, <4>3
    <3>6. QED
      BY <3>1, <3>4, <3>5 DEF Lived
  <2>3. QED
    BY <2>1, <2>2
<1>11. Repeated'
  BY <1>1, <1>2 DEF Repeated
<1>12. QED
  BY <1>7, <1>10, <1>11 DEF History

\* The tools' results complete the turn.
LEMMA HistoryTools ==
    ASSUME Inv, Inv', History, Keeping, LiveTools
    PROVE  History'
<1> DEFINE n == Len(log)
           front == First(log, n - 1)
           e == log[n]
           f == log'[n]
<1>1. PICK results \in Result :
        /\ Feed(ToolBlocks(results))
        /\ log' = [log EXCEPT ![n].results = results]
  BY DEF LiveTools, FeedAndHand
<1>2. /\ phase = "tools" /\ phase' \in {"done", "turn"}
      /\ lived' = Append(lived, fired')
      /\ UNCHANGED <<turn, bench, provider, mode, pos>>
  BY DEF LiveTools
<1>3. /\ mode # "replay" /\ turn \in Nat /\ log \in Seq(TurnLog) /\ log' \in Seq(TurnLog)
      /\ n \in Nat /\ n > 0 /\ Keeping'
  BY <1>2, LenProperties DEF Inv, Placed, Typed, Keeping
<1>4. /\ Lived /\ Heard = n - 1 /\ lived \in Seq(SUBSET Rule) /\ Len(lived) = n - 1
      /\ Texts(blocks) = LogTexts(log) /\ pos = 1 /\ e.results = <<>>
  BY <1>2, <1>3 DEF History, Heard, Recorded, Lived
<1>5. results \in Seq(ToolOutput)
  BY ResultType
<1>6. /\ n \in 1..n /\ e \in TurnLog /\ f = [e EXCEPT !.results = results] /\ f \in TurnLog
      /\ Len(log') = n /\ \A k \in 1..(n - 1) : log'[k] = log[k]
  <2>1. n \in 1..n /\ e \in TurnLog /\ DOMAIN log = 1..n
    BY <1>3, ElementOfSeq, LenProperties
  <2>2. f = [e EXCEPT !.results = results] /\ DOMAIN log' = 1..n
        /\ \A k \in 1..(n - 1) : log'[k] = log[k]
    BY <1>1, <1>3, <2>1
  <2>3. Len(log') = n
    BY <1>3, <2>2, LenProperties
  <2>4. f \in TurnLog
    BY <1>3, <2>1, <2>3, ElementOfSeq
  <2>5. QED
    BY <2>1, <2>2, <2>3, <2>4
<1>7. \A k \in 0..(n - 1) : First(log', k) = First(log, k)
  <2> TAKE k \in 0..(n - 1)
  <2>1. \A i \in 1..k : i \in 1..(n - 1)
    BY <1>3
  <2>2. QED
    BY <1>6, <2>1 DEF First
<1> HIDE DEF e, f, n
<1>8. /\ front \in Seq(TurnLog) /\ log = Append(front, e) /\ log' = Append(front, f)
      /\ n - 1 \in 0..(n - 1) /\ (n - 1) + 1 = n
  <2>1. n - 1 \in 0..(n - 1) /\ (n - 1) + 1 = n /\ n - 1 \in 0..n
    BY <1>3
  <2>2. /\ front \in Seq(TurnLog) /\ First(log, n) = log
        /\ First(log, (n - 1) + 1) = Append(front, log[(n - 1) + 1])
    BY <1>3, <2>1, FirstOK DEF n
  <2>3. /\ First(log', n) = log'
        /\ First(log', (n - 1) + 1) = Append(First(log', n - 1), log'[(n - 1) + 1])
    BY <1>3, <1>6, <2>1, FirstOK
  <2>4. First(log', n - 1) = front
    BY <1>7, <2>1
  <2>5. QED
    BY <2>1, <2>2, <2>3, <2>4 DEF e, f
<1> HIDE DEF front
<1>9. Texts(blocks') = LogTexts(log')
  <2> DEFINE x == LogTexts(front)
             y == Texts(LoadTrajectory(e.pieces))
             z == Texts(results)
  <2>1. /\ x \in Seq(Seq(Token)) /\ y \in Seq(Seq(Token)) /\ z \in Seq(Seq(Token))
        /\ f.pieces = e.pieces /\ f.results = results
    <3>1. f.pieces = e.pieces /\ f.results = results
      BY <1>6 DEF TurnLog
    <3>2. x \in Seq(Seq(Token))
      BY <1>8, LogTextsOK
    <3>3. y \in Seq(Seq(Token))
      BY <1>6, TurnTextsOK
    <3>4. Texts(f.results) \in Seq(Seq(Token))
      BY <1>6, TurnTextsOK
    <3>5. QED
      BY <3>1, <3>2, <3>3, <3>4
  <2>2. TurnTexts(e) = y
    <3>1. Texts(e.results) = <<>>
      BY <1>4 DEF Texts
    <3>2. TurnTexts(e) = y \o <<>>
      BY <3>1 DEF TurnTexts
    <3>3. QED
      BY <2>1, <3>2, ConcatEmptySeq
  <2>3. TurnTexts(f) = y \o z
    BY <2>1 DEF TurnTexts
  <2>4. LogTexts(log) = x \o y /\ LogTexts(log') = x \o (y \o z)
    BY <1>6, <1>8, <2>2, <2>3, LogTextsOK
  <2>5. Texts(blocks') = Texts(blocks) \o z
    <3>1. ToolBlocks(results) \in Seq(Block) /\ Texts(ToolBlocks(results)) = z
      BY <1>3, <1>5, ReturnedOK, StampedTexts
    <3>2. QED
      BY <1>1, <3>1, FedTexts DEF Inv
  <2> HIDE DEF x, y, z
  <2>6. (x \o y) \o z = x \o (y \o z)
    BY <2>1, ConcatAssociative
  <2>7. QED
    BY <1>4, <2>4, <2>5, <2>6
<1>10. Recorded'
  BY <1>2, <1>3, <1>4, <1>9 DEF Recorded
<1>11. \A k \in 1..(n - 1) : lived[k] = Read(LogTexts(First(log', k))).rules
  BY <1>4, <1>7 DEF Lived
<1>12. Lived'
  <2>1. Heard' = n
    BY <1>2, <1>6 DEF Heard
  <2>2. fired' = Read(Texts(blocks')).rules /\ fired' \subseteq Rule
    <3>1. blocks' \in Seq(Block) /\ fired' = Names(Run!Fold(blocks').acts)
      BY DEF Inv, Typed, Current
    <3>2. QED
      BY <3>1, RulesRead
  <2>3. First(log', n) = log'
    BY <1>3, <1>6, FirstOK
  <2>4. /\ lived' \in Seq(SUBSET Rule) /\ Len(lived') = n /\ lived'[n] = fired'
        /\ \A k \in 1..(n - 1) : lived'[k] = lived[k]
    BY <1>2, <1>4, <1>8, <2>2, AppendProperties
  <2>5. \A k \in 1..n : lived'[k] = Read(LogTexts(First(log', k))).rules
    <3> TAKE k \in 1..n
    <3>1. k = n \/ k \in 1..(n - 1)
      BY <1>3
    <3>2. CASE k = n
      BY <1>9, <2>2, <2>3, <2>4, <3>2
    <3>3. CASE k \in 1..(n - 1)
      BY <1>11, <2>4, <3>3
    <3>4. QED
      BY <3>1, <3>2, <3>3
  <2>6. QED
    BY <2>1, <2>4, <2>5 DEF Lived
<1>13. Repeated'
  BY <1>2, <1>3 DEF Repeated
<1>14. QED
  BY <1>10, <1>12, <1>13 DEF History

\* A replay starts before the first turn of a recording that is complete.
LEMMA HistoryStart ==
    ASSUME Inv, History, Keeping, StartReplay PROVE History'
<1>1. /\ Recorded /\ Lived /\ Keeping' /\ phase = "done" /\ mode = "baseline"
      /\ mode' = "replay" /\ phase' = "replay" /\ blocks' = <<>> /\ turn' = 0
      /\ log' = log /\ lived' = lived /\ pos' = pos /\ pos = 1
      /\ Len(log) \in Nat /\ log \in Seq(TurnLog)
  BY LenProperties DEF StartReplay, Keeping, History, Recorded, Inv, Typed
<1>2. Recorded' /\ Lived'
  BY <1>1 DEF Recorded, Lived, Heard
<1>3. LogTexts(First(log, 0)) = <<>> /\ Texts(<<>>) = <<>>
  <2>1. First(log, 0) = <<>> /\ [n \in DOMAIN <<>> |-> TurnTexts(<<>>[n])] = <<>>
    BY DEF First
  <2>2. QED
    BY <2>1, Run!FlattenEmpty, FlattenSame DEF LogTexts, Texts
<1>4. Repeated'
  BY <1>1, <1>3 DEF Repeated
<1>5. QED
  BY <1>2, <1>4 DEF History

LEMMA HistoryBlock ==
    ASSUME Inv, History, Keeping, ReplayBlock PROVE History'
<1> DEFINE loaded == LoadTrajectory(log[turn + 1].pieces)
           words == Texts(loaded)
           new == <<Stamp(loaded[pos])>>
<1>1. /\ Recorded /\ Lived /\ Repeated /\ Keeping' /\ mode = "replay" /\ phase = "replay"
      /\ turn < Len(log) /\ turn \in Nat /\ pos \in Nat /\ pos > 0
      /\ pos <= Len(loaded) /\ Feed(new) /\ pos' = pos + 1
      /\ UNCHANGED <<turn, phase, bench, provider, mode, log, lived>>
  BY DEF ReplayBlock, FeedAndHand, Keeping, History, Inv, Placed, Typed
<1>2. loaded \in Seq(Plain)
  BY <1>1, RecordedOK, LoadedOK DEF Inv
<1>3. /\ words \in Seq(Seq(Token)) /\ Len(words) = Len(loaded) /\ Len(loaded) \in Nat
      /\ \A i \in 1..Len(loaded) : words[i] = loaded[i].text
  <2>1. \A x \in Plain : x.text \in Seq(Token)
    BY DEF Plain
  <2>2. QED
    BY <1>2, <2>1, TextsOf
<1>4. new \in Seq(Block) /\ Texts(new) = <<words[pos]>>
  <2>1. pos \in 1..Len(loaded)
    BY <1>1, <1>3
  <2>2. loaded[pos] \in Plain
    BY <1>2, <2>1, ElementOfSeq
  <2>3. Stamp(loaded[pos]) \in Block /\ Stamp(loaded[pos]).text = words[pos]
    BY <1>1, <1>3, <2>1, <2>2 DEF Stamp, Plain, Block
  <2>4. QED
    BY <2>3 DEF Texts
<1>5. Texts(blocks') = Texts(blocks) \o <<words[pos]>>
  BY <1>1, <1>4, FedTexts DEF Inv
<1> HIDE DEF new
<1>6. Recorded' /\ Lived'
  BY <1>1 DEF Recorded, Lived, Heard
<1>7. /\ pos' # 1 /\ pos' - 1 = pos /\ pos <= Len(words) /\ mode' = "replay"
      /\ phase' # "replayed" /\ turn' <= Len(log')
  <2>1. Len(log) \in Nat
    BY LenProperties DEF Inv, Typed
  <2>2. QED
    BY <1>1, <1>3, <2>1
<1>8. ASSUME NoneKilled(turn)
      PROVE  Texts(blocks') = LogTexts(First(log, turn)) \o First(words, pos)
  <2> DEFINE x == LogTexts(First(log, turn))
  <2>1. x \in Seq(Seq(Token))
    <3>1. turn \in 0..Len(log) /\ log \in Seq(TurnLog)
      BY <1>1, LenProperties DEF Inv, Typed
    <3>2. QED
      BY <3>1, FirstOK, LogTextsOK
  <2>2. /\ pos - 1 \in 0..(Len(words) - 1) /\ (pos - 1) + 1 = pos
        /\ pos - 1 \in 0..Len(words)
    BY <1>1, <1>3
  <2>3. /\ First(words, 0) = <<>> /\ First(words, pos - 1) \in Seq(Seq(Token))
        /\ words[pos] \in Seq(Token)
        /\ First(words, pos) = Append(First(words, pos - 1), words[pos])
    <3> HIDE DEF words
    <3>1. /\ First(words, 0) = <<>> /\ First(words, pos - 1) \in Seq(Seq(Token))
          /\ words[(pos - 1) + 1] \in Seq(Token)
          /\ First(words, (pos - 1) + 1) = Append(First(words, pos - 1), words[(pos - 1) + 1])
      BY <1>3, <2>2, FirstOK
    <3>2. QED
      BY <2>2, <3>1
  <2>4. Texts(blocks) = x \o First(words, pos - 1)
    <3>1. CASE pos = 1
      BY <1>1, <1>8, <2>1, <2>3, <3>1, ConcatEmptySeq DEF Repeated
    <3>2. CASE pos # 1
      BY <1>1, <1>8, <3>2 DEF Repeated
    <3>3. QED
      BY <3>1, <3>2
  <2> HIDE DEF x, words
  <2> DEFINE part == First(words, pos - 1)
  <2>5. <<words[pos]>> \in Seq(Seq(Token)) /\ part \in Seq(Seq(Token))
        /\ First(words, pos) = part \o <<words[pos]>>
    BY <2>3, AppendIsConcat
  <2> HIDE DEF part
  <2>6. (x \o part) \o <<words[pos]>> = x \o (part \o <<words[pos]>>)
    BY <2>1, <2>5, ConcatAssociative
  <2>7. QED
    BY <1>5, <2>4, <2>5, <2>6 DEF x, part, words
<1>9. Repeated'
  BY <1>1, <1>7, <1>8 DEF Repeated, NoneKilled
<1>10. QED
  BY <1>6, <1>9 DEF History

\* The tools of a replayed turn, when none was killed, end it where the
\* recorded turn ends.
LEMMA HistoryReplayTools ==
    ASSUME Inv, History, Keeping, ReplayTools PROVE History'
<1> DEFINE e == log[turn + 1]
           words == Texts(LoadTrajectory(e.pieces))
           new == ToolBlocks(Survivors(e.results))
           x == LogTexts(First(log, turn))
<1>1. /\ Recorded /\ Lived /\ Repeated /\ Keeping' /\ mode = "replay" /\ phase = "replay"
      /\ turn < Len(log) /\ turn \in Nat /\ pos \in Nat /\ pos > 0
      /\ pos > Len(LoadTrajectory(e.pieces)) /\ Feed(new)
      /\ pos' = 1 /\ turn' = turn + 1
      /\ phase' = IF turn + 1 = Len(log) THEN "replayed" ELSE "replay"
      /\ UNCHANGED <<bench, provider, mode, log, lived>>
  BY DEF ReplayTools, Survivors, FeedAndHand, Keeping, History, Inv, Placed, Typed
<1>2. /\ log \in Seq(TurnLog) /\ Len(log) \in Nat /\ turn \in 0..(Len(log) - 1)
      /\ turn \in 0..Len(log) /\ e \in TurnLog
      /\ First(log, turn) \in Seq(TurnLog)
      /\ First(log, turn + 1) = Append(First(log, turn), e)
  <2>1. log \in Seq(TurnLog) /\ Len(log) \in Nat
    BY LenProperties DEF Inv, Typed
  <2>2. turn \in 0..(Len(log) - 1) /\ turn \in 0..Len(log)
    BY <1>1, <2>1
  <2>3. QED
    BY <2>1, <2>2, FirstOK
<1>3. /\ e.pieces \in Seq(Piece) /\ e.results \in Seq(ToolOutput)
      /\ words \in Seq(Seq(Token)) /\ Texts(e.results) \in Seq(Seq(Token))
      /\ x \in Seq(Seq(Token))
  <2>1. e.pieces \in Seq(Piece) /\ e.results \in Seq(ToolOutput)
    BY <1>2 DEF TurnLog
  <2>2. words \in Seq(Seq(Token)) /\ Texts(e.results) \in Seq(Seq(Token))
    BY <1>2, TurnTextsOK
  <2>3. x \in Seq(Seq(Token))
    BY <1>2, LogTextsOK
  <2>4. QED
    BY <2>1, <2>2, <2>3
<1>4. Recorded' /\ Lived'
  BY <1>1 DEF Recorded, Lived, Heard
<1>5. ASSUME NoneKilled(turn + 1)
      PROVE  Texts(blocks') = LogTexts(First(log, turn + 1))
  <2>1. NoneKilled(turn) /\ \A i \in DOMAIN e.results : ~e.results[i].killed
    <3>1. turn + 1 \in 1..(turn + 1) /\ \A n \in 1..turn : n \in 1..(turn + 1)
      BY <1>1
    <3>2. QED
      BY <1>5, <3>1 DEF NoneKilled
  <2>2. Texts(blocks) = x \o words
    <3>1. Len(words) = Len(LoadTrajectory(e.pieces)) /\ Len(words) \in Nat
      <4>1. \A p \in Plain : p.text \in Seq(Token)
        BY DEF Plain
      <4>2. LoadTrajectory(e.pieces) \in Seq(Plain)
        BY <1>3, LoadedOK
      <4>3. QED
        BY <4>1, <4>2, TextsOf
    <3>2. CASE pos = 1
      <4>1. Len(words) = 0
        BY <1>1, <3>1, <3>2
      <4>2. words = <<>>
        BY <1>3, <4>1, EmptySeq
      <4>3. Texts(blocks) = x
        BY <1>1, <2>1, <3>2 DEF Repeated
      <4> HIDE DEF x, words
      <4>4. QED
        BY <1>3, <4>2, <4>3, ConcatEmptySeq
    <3>3. CASE pos # 1
      <4>1. pos - 1 <= Len(words) /\ Texts(blocks) = x \o First(words, pos - 1)
        BY <1>1, <2>1, <3>3 DEF Repeated
      <4>2. pos - 1 = Len(words)
        BY <1>1, <3>1, <4>1
      <4> HIDE DEF x, words
      <4>3. First(words, Len(words)) = words
        BY <1>3, FirstOK
      <4>4. QED
        BY <4>1, <4>2, <4>3
    <3>4. QED
      BY <3>2, <3>3
  <2>3. Survivors(e.results) = e.results
    <3> DEFINE rs == e.results
    <3>1. [i \in DOMAIN rs |-> IF ~rs[i].killed THEN <<rs[i]>> ELSE <<>>]
            = [i \in DOMAIN rs |-> <<rs[i]>>]
      BY <2>1
    <3>2. FlattenSeq([i \in DOMAIN rs |-> <<rs[i]>>]) = rs
      BY <1>3, Run!FlattenSingles, FlattenSame
    <3>3. QED
      BY <3>1, <3>2 DEF Survivors, Kept
  <2>4. Texts(blocks') = Texts(blocks) \o Texts(e.results)
    <3>1. new \in Seq(Block) /\ Texts(new) = Texts(e.results)
      BY <1>1, <1>3, <2>3, ReturnedOK, StampedTexts
    <3> HIDE DEF new
    <3>2. QED
      BY <1>1, <3>1, FedTexts DEF Inv
  <2> DEFINE z == Texts(e.results)
  <2>5. TurnTexts(e) = words \o z
    BY DEF TurnTexts
  <2>6. LogTexts(First(log, turn + 1)) = x \o (words \o z)
    BY <1>2, <2>5, LogTextsOK
  <2> HIDE DEF x, words, z
  <2>7. (x \o words) \o z = x \o (words \o z)
    BY <1>3, ConcatAssociative DEF z
  <2>8. QED
    BY <2>2, <2>4, <2>6, <2>7 DEF z
<1>6. turn' <= Len(log') /\ pos' = 1
  BY <1>1, <1>2
<1>7. NoneKilled(turn + 1)' => NoneKilled(turn + 1)
  BY <1>1 DEF NoneKilled
<1>8. Repeated'
  BY <1>1, <1>5, <1>6 DEF Repeated, NoneKilled
<1>9. QED
  BY <1>4, <1>8 DEF History

\* A session whose recording merges what it did not, or records nothing.
LEMMA NotKeeping ==
    ASSUME ~Keeping, UNCHANGED <<bench, provider>> PROVE History'
BY DEF Keeping, History

LEMMA HistoryStep ==
    ASSUME Inv, Inv', History, HarnessNext PROVE History'
<1>1. UNCHANGED <<bench, provider>>
  BY DEF HarnessNext, AnthropicTurn, GeminiTurn, OssTurn, LiveTurn, LiveTools, StartReplay,
         ReplayBlock, ReplayTools, recording
<1>2. SUFFICES ASSUME Keeping PROVE History'
  BY <1>1, NotKeeping
<1>3. CASE AnthropicTurn
  <2>1. PICK reply \in Reply :
          LiveTurn(reply, reply.blocks, [i \in DOMAIN reply.blocks |-> i])
    BY <1>3 DEF AnthropicTurn
  <2>2. reply.blocks \in Seq(Plain) /\ DOMAIN reply.blocks \subseteq Nat
    BY WrittenOK, LenProperties
  <2>3. [i \in DOMAIN reply.blocks |-> i] \in [DOMAIN reply.blocks -> Nat]
    BY <2>2
  <2>4. reply.blocks = LoadTrajectory(Logged(reply.blocks, [i \in DOMAIN reply.blocks |-> i]))
    BY LoadedApart, SessionAssumption DEF Said
  <2>5. QED
    BY <1>2, <2>1, <2>2, <2>3, <2>4, HistoryTurn
<1>4. CASE OssTurn
  <2>1. PICK reply \in Reply :
          /\ \A i, j \in DOMAIN reply.blocks :
               i < j /\ reply.blocks[j].type = "thinking" => reply.blocks[i].type = "thinking"
          /\ LiveTurn(reply, Merged(reply.blocks, "thinking") \o Merged(reply.blocks, "text"),
                      [i \in DOMAIN reply.blocks |-> 0])
    BY <1>4 DEF OssTurn
  <2>2. Merged(reply.blocks, "thinking") \o Merged(reply.blocks, "text") \in Seq(Plain)
    BY WrittenOK, MergedOK
  <2>3. [i \in DOMAIN reply.blocks |-> 0] \in [DOMAIN reply.blocks -> Nat]
    OBVIOUS
  <2>4. LoadTrajectory(Logged(reply.blocks, [i \in DOMAIN reply.blocks |-> 0]))
          = Merged(reply.blocks, "thinking") \o Merged(reply.blocks, "text")
    <3>1. reply.blocks \in Seq(Said)
      BY SessionAssumption DEF Said
    <3>2. QED
      BY <2>1, <3>1, LoadedTogether
  <2>5. QED
    BY <1>2, <2>1, <2>2, <2>3, <2>4, HistoryTurn
<1>5. CASE LiveTools
  BY <1>2, <1>5, HistoryTools
<1>6. CASE StartReplay
  BY <1>2, <1>6, HistoryStart
<1>7. CASE ReplayBlock
  BY <1>2, <1>7, HistoryBlock
<1>8. CASE ReplayTools
  BY <1>2, <1>8, HistoryReplayTools
<1>9. QED
  BY <1>2, <1>3, <1>4, <1>5, <1>6, <1>7, <1>8 DEF HarnessNext, GeminiTurn, Keeping

THEOREM HistoryInvariance == HarnessSpec => [](Inv /\ History)
<1>1. Inv /\ Inv' /\ History /\ [HarnessNext]_harnessVars => History'
  <2>1. History /\ UNCHANGED harnessVars => History'
    BY DEF harnessVars, vars, recording, History, Keeping, Recorded, Lived, Heard, Repeated,
           NoneKilled
  <2>2. QED
    BY <2>1, HistoryStep
<1>2. QED
  BY <1>1, HistoryInit, Invariance, PTL DEF HarnessSpec

\* Turn by turn a replay fires the rules that its live session fired, unless
\* a tool was killed or the provider is one whose parts the recording merges.
THEOREM ReplayIsFaithful == HarnessSpec => []ReplayFiresTheSame
<1>1. Inv /\ History => ReplayFiresTheSame
  <2> SUFFICES ASSUME Inv, History, mode = "replay", turn > 0, pos = 1, provider # "gemini",
                      \A k \in 1..turn : \A i \in DOMAIN log[k].results : ~log[k].results[i].killed
               PROVE  fired = lived[turn]
    BY DEF ReplayFiresTheSame
  <2>1. Keeping
    BY DEF Inv, Placed, Keeping
  <2>2. Lived /\ Repeated /\ NoneKilled(turn)
    BY <2>1 DEF History, NoneKilled
  <2>3. turn <= Len(log) /\ Texts(blocks) = LogTexts(First(log, turn)) /\ Heard = Len(log)
    BY <2>2 DEF Repeated, Heard, Inv, Placed
  <2>4. turn \in 1..Heard
    BY <2>3, LenProperties DEF Inv, Typed
  <2>5. fired = Read(Texts(blocks)).rules
    BY RulesRead DEF Inv, Typed, Current
  <2>6. QED
    BY <2>2, <2>3, <2>4, <2>5 DEF Lived
<1>2. QED
  BY <1>1, HistoryInvariance, PTL

-----------------------------------------------------------------------------
(***************************************************************************)
(* A rescore reads three texts a turn where the session read its blocks.   *)
(***************************************************************************)
\* What is recorded of a turn is its text of a type, in one block or none.
Whole(e) == LoadTrajectory(e.pieces) = Merged(e.pieces, "thinking") \o Merged(e.pieces, "text")

LEMMA PiecesText ==
    ASSUME NEW bs \in Seq(Piece), NEW type \in {"thinking", "text"}
    PROVE  /\ TextOf(bs, type) \in Seq(Token)
           /\ Merged(bs, type) \in Seq(Plain)
           /\ (\A i \in DOMAIN bs : bs[i].type # type) => TextOf(bs, type) = <<>>
<1> DEFINE parts == [i \in DOMAIN bs |-> IF bs[i].type = type THEN bs[i].text ELSE <<>>]
<1>1. Len(bs) \in Nat /\ DOMAIN bs = 1..Len(bs) /\ \A i \in 1..Len(bs) : bs[i] \in Piece
  BY LenProperties, ElementOfSeq
<1>2. parts \in Seq(Seq(Token)) /\ Len(parts) = Len(bs)
  <2>1. \A i \in 1..Len(bs) : (IF bs[i].type = type THEN bs[i].text ELSE <<>>) \in Seq(Token)
    BY <1>1 DEF Piece
  <2>2. QED
    BY <1>1, <2>1
<1>3. TextOf(bs, type) \in Seq(Token)
  BY <1>2, Run!FlattenType, FlattenSame DEF TextOf
<1>4. Merged(bs, type) \in Seq(Plain)
  <2> DEFINE b == [type |-> type, text |-> TextOf(bs, type)]
  <2>1. b \in Plain
    BY <1>3 DEF Plain, BlockType
  <2>2. <<b>> \in Seq(Plain) /\ <<>> \in Seq(Plain)
    BY <2>1
  <2>3. QED
    BY <2>2, Zenon DEF Merged
<1>5. ASSUME \A i \in DOMAIN bs : bs[i].type # type PROVE TextOf(bs, type) = <<>>
  <2>1. \A i \in 1..Len(parts) : parts[i] = <<>>
    BY <1>1, <1>2, <1>5
  <2> HIDE DEF parts
  <2>2. FlattenSeq(parts) = <<>>
    BY <1>2, <2>1, Run!FlattenNone, FlattenSame
  <2>3. QED
    BY <2>2 DEF TextOf, parts
<1>6. QED
  BY <1>3, <1>4, <1>5

\* Reading one block of all the text of a type, or none if there is no such
\* block, is reading that text.
LEMMA ReadMerged ==
    ASSUME NEW ts \in Seq(Seq(Token)), NEW bs \in Seq(Piece), NEW type \in {"thinking", "text"}
    PROVE  /\ Texts(Merged(bs, type)) \in Seq(Seq(Token))
           /\ Read(ts \o Texts(Merged(bs, type))) = ReadText(Read(ts), TextOf(bs, type))
<1> DEFINE t == TextOf(bs, type)
<1>1. t \in Seq(Token) /\ <<t>> \in Seq(Seq(Token)) /\ Read(ts) \in Reader
  BY PiecesText, ReadOK
<1>2. CASE \E i \in DOMAIN bs : bs[i].type = type
  <2>1. Merged(bs, type) = <<[type |-> type, text |-> t]>>
    BY <1>2 DEF Merged
  <2>2. Texts(Merged(bs, type)) = <<t>>
    BY <2>1 DEF Texts
  <2> HIDE DEF t
  <2>3. ts \o <<t>> = Append(ts, t)
    BY <1>1, AppendIsConcat
  <2>4. QED
    BY <1>1, <2>2, <2>3, ReadStep DEF t
<1>3. CASE ~\E i \in DOMAIN bs : bs[i].type = type
  <2>1. Merged(bs, type) = <<>> /\ t = <<>>
    BY <1>3, PiecesText DEF Merged
  <2>2. Texts(Merged(bs, type)) = <<>> /\ <<>> \in Seq(Seq(Token))
    BY <2>1, EmptySeq DEF Texts
  <2>3. ts \o <<>> = ts
    BY ConcatEmptySeq
  <2>4. ReadText(Read(ts), t) = Read(ts)
    BY <1>1, <2>1, ReadTextOK
  <2>5. QED
    BY <2>2, <2>3, <2>4
<1>4. QED
  BY <1>2, <1>3

\* Reading at most one result is reading what was recorded of it.
LEMMA ReadResults ==
    ASSUME NEW ts \in Seq(Seq(Token)), NEW e \in TurnLog, Len(e.results) <= 1
    PROVE  /\ RecordedResults(e) \in Seq(Token)
           /\ Read(ts \o Texts(e.results)) = ReadText(Read(ts), RecordedResults(e))
<1> DEFINE rs == e.results
           own == [i \in DOMAIN rs |-> rs[i].text]
           kept == [i \in DOMAIN own |-> IF own[i] # <<>> THEN <<own[i]>> ELSE <<>>]
           texts == FlattenSeq(kept)
<1>1. rs \in Seq(ToolOutput) /\ Len(rs) \in Nat /\ DOMAIN rs = 1..Len(rs)
  BY LenProperties DEF TurnLog
<1>2. RecordedResults(e) = FlattenSeq([i \in DOMAIN texts |->
                             IF i = 1 THEN texts[i] ELSE <<"\n">> \o texts[i]])
  BY DEF RecordedResults, Kept
<1>3. Read(ts) \in Reader /\ <<>> \in Seq(Token) /\ ts \o <<>> = ts
  BY ReadOK, EmptySeq, ConcatEmptySeq
<1>4. CASE Len(rs) = 0
  <2>1. own = <<>> /\ kept = <<>>
    BY <1>1, <1>4
  <2>2. texts = <<>>
    BY <2>1, Run!FlattenEmpty, FlattenSame
  <2>3. RecordedResults(e) = <<>>
    BY <1>2, <2>2, Run!FlattenEmpty, FlattenSame
  <2>4. Texts(rs) = <<>>
    BY <1>1, <1>4 DEF Texts
  <2>5. QED
    BY <1>3, <2>3, <2>4, ReadTextOK
<1>5. CASE Len(rs) = 1
  <2> DEFINE t == rs[1].text
  <2>1. t \in Seq(Token) /\ own = <<t>> /\ Texts(rs) = <<t>>
    <3>1. 1 \in 1..Len(rs) /\ DOMAIN rs = 1..1
      BY <1>1, <1>5
    <3>2. rs[1] \in ToolOutput
      BY <1>1, <3>1, ElementOfSeq
    <3>3. QED
      BY <3>1, <3>2 DEF ToolOutput, Texts
  <2>2. ts \o <<t>> = Append(ts, t)
    BY <2>1, AppendIsConcat
  <2>3. Read(ts \o Texts(rs)) = ReadText(Read(ts), t)
    BY <2>1, <2>2, ReadStep
  <2>4. kept = <<IF t # <<>> THEN <<t>> ELSE <<>> >>
    <3> HIDE DEF t
    <3>1. DOMAIN own = 1..1 /\ own[1] = t
      BY <2>1
    <3> HIDE DEF own
    <3>2. kept = [i \in 1..1 |-> IF t # <<>> THEN <<t>> ELSE <<>>]
      BY <3>1
    <3>3. QED
      BY <3>2
  <2>5. RecordedResults(e) = t
    <3>1. CASE t = <<>>
      <4>1. kept = << <<>> >>
        BY <2>4, <3>1
      <4>2. texts = <<>>
        <5>1. << <<>> >> \in Seq(Seq(Seq(Token)))
          OBVIOUS
        <5>2. 1 \in 1..Len(<< <<>> >>) /\ \A j \in 1..Len(<< <<>> >>) : << <<>> >>[j] = <<>>
          OBVIOUS
        <5>3. QED
          BY <4>1, <5>1, <5>2, Run!FlattenNone, FlattenSame
      <4>3. QED
        BY <1>2, <3>1, <4>2, Run!FlattenEmpty, FlattenSame
    <3>2. CASE t # <<>>
      <4>1. kept = << <<t>> >>
        BY <2>4, <3>2
      <4> HIDE DEF t
      <4>2. << <<t>> >> = [i \in DOMAIN <<t>> |-> << <<t>>[i] >>] /\ <<t>> \in Seq(Seq(Token))
        BY <2>1
      <4>3. texts = <<t>>
        BY <4>1, <4>2, Run!FlattenSingles, FlattenSame
      <4>4. [i \in DOMAIN <<t>> |-> IF i = 1 THEN <<t>>[i] ELSE <<"\n">> \o <<t>>[i]] = <<t>>
        OBVIOUS
      <4>5. FlattenSeq(<<t>>) = t
        <5> DEFINE one == <<t>>
        <5>1. one \in Seq(Seq(Token)) /\ 1 \in 1..Len(one) /\ one[1] = t
              /\ \A j \in 1..Len(one) : j # 1 => one[j] = <<>>
          BY <4>2
        <5> HIDE DEF one
        <5>2. FlattenSeq(one) = one[1]
          BY <5>1, Run!FlattenOne, FlattenSame
        <5>3. QED
          BY <5>1, <5>2 DEF one
      <4>6. QED
        BY <1>2, <4>3, <4>4, <4>5
    <3>3. QED
      BY <3>1, <3>2
  <2>6. QED
    BY <2>1, <2>3, <2>5
<1>6. Len(rs) = 0 \/ Len(rs) = 1
  <2> DEFINE n == Len(rs)
  <2>1. n \in Nat /\ n <= 1
    BY <1>1
  <2> HIDE DEF n
  <2>2. n = 0 \/ n = 1
    BY <2>1
  <2>3. QED
    BY <2>2 DEF n
<1>7. QED
  BY <1>4, <1>5, <1>6

\* The three texts that a rescore reads of turn n.
Three(e, n) ==
    <<[type |-> "thinking", text |-> TextOf(e.pieces, "thinking"), turn |-> n - 1],
      [type |-> "text", text |-> TextOf(e.pieces, "text"), turn |-> n - 1],
      [type |-> "tool_result", text |-> RecordedResults(e), turn |-> n - 1]>>

LEMMA ThreeOK ==
    ASSUME NEW e \in TurnLog, Len(e.results) <= 1, NEW n \in Nat \ {0}
    PROVE  /\ Three(e, n) \in Seq(Block)
           /\ Texts(Three(e, n)) = <<TextOf(e.pieces, "thinking"), TextOf(e.pieces, "text"),
                                     RecordedResults(e)>>
<1>1. e.pieces \in Seq(Piece) /\ <<>> \in Seq(Seq(Token))
  BY EmptySeq DEF TurnLog
<1>2. /\ TextOf(e.pieces, "thinking") \in Seq(Token) /\ TextOf(e.pieces, "text") \in Seq(Token)
      /\ RecordedResults(e) \in Seq(Token)
  BY <1>1, PiecesText, ReadResults
<1>3. n - 1 \in Nat
  OBVIOUS
<1>4. /\ [type |-> "thinking", text |-> TextOf(e.pieces, "thinking"), turn |-> n - 1] \in Block
      /\ [type |-> "text", text |-> TextOf(e.pieces, "text"), turn |-> n - 1] \in Block
      /\ [type |-> "tool_result", text |-> RecordedResults(e), turn |-> n - 1] \in Block
  BY <1>2, <1>3 DEF Block, BlockType
<1>5. QED
  BY <1>4 DEF Three, Texts

OneByOne(s, t, u, v) == ((s \o t) \o u) \o v
AtOnce(s, t, u, v) == s \o ((t \o u) \o v)

LEMMA Regroup ==
    ASSUME NEW S, NEW s \in Seq(S), NEW t \in Seq(S), NEW u \in Seq(S), NEW v \in Seq(S)
    PROVE  OneByOne(s, t, u, v) = AtOnce(s, t, u, v)
<1> DEFINE tu == t \o u
<1>1. tu \in Seq(S)
  BY ConcatProperties
<1>2. (s \o t) \o u = s \o tu
  BY ConcatAssociative
<1> HIDE DEF tu
<1>3. (s \o tu) \o v = s \o (tu \o v)
  BY <1>1, ConcatAssociative
<1>4. QED
  BY <1>2, <1>3 DEF tu, OneByOne, AtOnce

LEMMA Pair ==
    ASSUME NEW S, NEW a \in S, NEW b \in S
    PROVE  <<a, b>> = Append(<<a>>, b)
<1> DEFINE s == <<a, b>>
           t == Append(<<a>>, b)
<1>1. <<a>> \in Seq(S) /\ Len(<<a>>) = 1 /\ <<a>>[1] = a
  OBVIOUS
<1>2. s \in Seq(S) /\ Len(s) = 2 /\ s[1] = a /\ s[2] = b
  OBVIOUS
<1>3. t \in Seq(S) /\ Len(t) = 2 /\ t[1] = a /\ t[2] = b
  BY <1>1, AppendProperties
<1> HIDE DEF s, t
<1>4. \A i \in 1..Len(s) : s[i] = t[i]
  BY <1>2, <1>3
<1>5. QED
  BY <1>2, <1>3, <1>4, SeqEqual DEF s, t

LEMMA Triple ==
    ASSUME NEW S, NEW a \in S, NEW b \in S, NEW c \in S
    PROVE  <<a, b, c>> = (<<a>> \o <<b>>) \o <<c>>
<1> DEFINE s == <<a, b, c>>
           t == Append(<<a, b>>, c)
<1>1. <<a>> \in Seq(S) /\ <<a, b>> \in Seq(S) /\ Len(<<a, b>>) = 2 /\ <<a, b>>[1] = a /\ <<a, b>>[2] = b
  OBVIOUS
<1>2. s \in Seq(S) /\ Len(s) = 3 /\ s[1] = a /\ s[2] = b /\ s[3] = c
  OBVIOUS
<1>3. t \in Seq(S) /\ Len(t) = 3 /\ t[1] = a /\ t[2] = b /\ t[3] = c
  BY <1>1, AppendProperties
<1> HIDE DEF s, t
<1>4. \A i \in 1..Len(s) : s[i] = t[i]
  BY <1>2, <1>3
<1>5. s = t
  BY <1>2, <1>3, <1>4, SeqEqual
<1>6. Append(<<a>>, b) = <<a>> \o <<b>> /\ Append(<<a, b>>, c) = <<a, b>> \o <<c>>
  BY <1>1, AppendIsConcat
<1>7. QED
  BY <1>5, <1>6, Pair DEF s, t

\* Reading them is reading the turn.
LEMMA ReadTurn ==
    ASSUME NEW ts \in Seq(Seq(Token)), NEW us \in Seq(Seq(Token)), Read(ts) = Read(us),
           NEW e \in TurnLog, Len(e.results) <= 1, Whole(e), NEW n \in Nat \ {0}
    PROVE  Read(ts \o TurnTexts(e)) = Read(us \o Texts(Three(e, n)))
<1> DEFINE a == TextOf(e.pieces, "thinking")
           b == TextOf(e.pieces, "text")
           c == RecordedResults(e)
           x == Texts(Merged(e.pieces, "thinking"))
           y == Texts(Merged(e.pieces, "text"))
           z == Texts(e.results)
           last(s) == ReadText(ReadText(ReadText(s, a), b), c)
<1>1. e.pieces \in Seq(Piece) /\ <<>> \in Seq(Seq(Token))
  BY EmptySeq DEF TurnLog
<1>2. a \in Seq(Token) /\ b \in Seq(Token) /\ c \in Seq(Token)
  BY <1>1, PiecesText, ReadResults
<1>3. x \in Seq(Seq(Token)) /\ y \in Seq(Seq(Token)) /\ z \in Seq(Seq(Token))
  BY <1>1, ReadMerged, TurnTextsOK
<1>4. TurnTexts(e) = (x \o y) \o z
  <2>1. Merged(e.pieces, "thinking") \in Seq(Plain) /\ Merged(e.pieces, "text") \in Seq(Plain)
    BY <1>1, PiecesText
  <2>2. Texts(Merged(e.pieces, "thinking") \o Merged(e.pieces, "text")) = x \o y
    BY <2>1, PlainTexts
  <2>3. QED
    BY <2>2 DEF TurnTexts, Whole
<1>5. Read(ts \o TurnTexts(e)) = last(Read(ts))
  <2>1. Read(ts \o x) = ReadText(Read(ts), a) /\ ts \o x \in Seq(Seq(Token))
    BY <1>1, <1>3, ReadMerged, ConcatProperties
  <2> DEFINE p == ts \o x
  <2>2. Read(p \o y) = ReadText(Read(p), b) /\ p \o y \in Seq(Seq(Token))
    BY <1>1, <1>3, <2>1, ReadMerged, ConcatProperties
  <2> DEFINE q == p \o y
  <2>3. Read(q \o z) = ReadText(Read(q), c)
    BY <2>2, ReadResults
  <2> HIDE DEF x, y, z
  <2>4. q \o z = ts \o ((x \o y) \o z)
    <3> DEFINE TT == Seq(Token)
    <3>1. ts \in Seq(TT) /\ x \in Seq(TT) /\ y \in Seq(TT) /\ z \in Seq(TT)
      BY <1>3
    <3> HIDE DEF TT
    <3>2. OneByOne(ts, x, y, z) = AtOnce(ts, x, y, z)
      BY <3>1, Regroup
    <3>3. QED
      BY <3>2 DEF OneByOne, AtOnce
  <2>5. QED
    BY <1>4, <2>1, <2>2, <2>3, <2>4
<1>6. Read(us \o Texts(Three(e, n))) = last(Read(us))
  <2>1. Texts(Three(e, n)) = <<a, b, c>>
    BY ThreeOK
  <2> HIDE DEF a, b, c
  <2>2. us \o <<a, b, c>> = Append(Append(Append(us, a), b), c)
    <3>1. <<a>> \in Seq(Seq(Token)) /\ <<b>> \in Seq(Seq(Token)) /\ <<c>> \in Seq(Seq(Token))
      BY <1>2
    <3> DEFINE A == <<a>>
               B == <<b>>
               C == <<c>>
               w == A \o B
    <3>2. <<a, b, c>> = w \o C /\ w \in Seq(Seq(Token))
      BY <1>2, <3>1, Triple, ConcatProperties
    <3>3. us \o w = (us \o A) \o B /\ us \o A \in Seq(Seq(Token))
          /\ (us \o A) \o B \in Seq(Seq(Token))
      BY <3>1, ConcatAssociative, ConcatProperties
    <3> HIDE DEF w
    <3>4. us \o (w \o C) = (us \o w) \o C
      BY <3>1, <3>2, ConcatAssociative
    <3>5. Append(us, a) = us \o A
      BY <1>2, AppendIsConcat
    <3> DEFINE p == Append(us, a)
    <3>6. p \in Seq(Seq(Token)) /\ p = us \o A
      BY <3>3, <3>5
    <3> HIDE DEF p
    <3>7. Append(p, b) = p \o B /\ p \o B \in Seq(Seq(Token))
      BY <1>2, <3>1, <3>6, AppendIsConcat, ConcatProperties
    <3> DEFINE q == Append(p, b)
    <3>8. q \in Seq(Seq(Token)) /\ q = p \o B
      BY <3>7
    <3> HIDE DEF q
    <3>9. Append(q, c) = q \o C
      BY <1>2, <3>8, AppendIsConcat
    <3>10. QED
      BY <3>2, <3>3, <3>4, <3>6, <3>8, <3>9 DEF p, q
  <2>3. Append(us, a) \in Seq(Seq(Token)) /\ Read(Append(us, a)) = ReadText(Read(us), a)
    BY <1>2, ReadStep, AppendProperties
  <2> DEFINE p == Append(us, a)
  <2>4. Append(p, b) \in Seq(Seq(Token)) /\ Read(Append(p, b)) = ReadText(Read(p), b)
    BY <1>2, <2>3, ReadStep, AppendProperties
  <2> DEFINE q == Append(p, b)
  <2>5. Read(Append(q, c)) = ReadText(Read(q), c)
    BY <1>2, <2>4, ReadStep
  <2>6. QED
    BY <2>1, <2>2, <2>3, <2>4, <2>5
<1>7. QED
  BY <1>5, <1>6

LEMMA RescoreReads ==
    \A turns \in Seq(TurnLog) :
      (\A k \in 1..Len(turns) : Len(turns[k].results) <= 1 /\ Whole(turns[k]))
      => /\ BlocksFromTurns(turns) \in Seq(Block)
         /\ Read(LogTexts(turns)) = Read(Texts(BlocksFromTurns(turns)))
<1> DEFINE Fit(turns) == \A k \in 1..Len(turns) : Len(turns[k].results) <= 1 /\ Whole(turns[k])
           Good(turns) == /\ BlocksFromTurns(turns) \in Seq(Block)
                          /\ Read(LogTexts(turns)) = Read(Texts(BlocksFromTurns(turns)))
           K == {turns \in Seq(TurnLog) : Fit(turns) => Good(turns)}
           Each(l) == [n \in DOMAIN l |-> Three(l[n], n)]
<1>1. \A turns : BlocksFromTurns(turns) = FlattenSeq(Each(turns))
  BY DEF BlocksFromTurns, Three
<1>2. <<>> \in K
  <2>1. Each(<<>>) = <<>> /\ [n \in DOMAIN <<>> |-> TurnTexts(<<>>[n])] = <<>>
    OBVIOUS
  <2>2. BlocksFromTurns(<<>>) = <<>> /\ LogTexts(<<>>) = <<>>
    BY <1>1, <2>1, Run!FlattenEmpty, FlattenSame DEF LogTexts
  <2>3. <<>> \in Seq(Block) /\ <<>> \in Seq(TurnLog) /\ Texts(<<>>) = <<>>
    BY EmptySeq DEF Texts
  <2>4. QED
    BY <2>2, <2>3
<1>3. ASSUME NEW turns \in Seq(TurnLog), NEW e \in TurnLog, turns \in K
      PROVE  Append(turns, e) \in K
  <2> DEFINE n == Len(turns)
             longer == Append(turns, e)
  <2>1. /\ longer \in Seq(TurnLog) /\ n \in Nat /\ Len(longer) = n + 1
        /\ DOMAIN longer = 1..(n + 1) /\ DOMAIN turns = 1..n
        /\ longer[n + 1] = e /\ \A i \in 1..n : longer[i] = turns[i] /\ turns[i] \in TurnLog
    BY AppendProperties, LenProperties, ElementOfSeq
  <2> HIDE DEF longer, n
  <2>2. SUFFICES ASSUME Fit(longer) PROVE Good(longer)
    BY <2>1 DEF longer
  <2>3. Fit(turns) /\ Len(e.results) <= 1 /\ Whole(e)
    <3>1. n + 1 \in 1..(n + 1) /\ \A i \in 1..n : i \in 1..(n + 1)
      BY <2>1
    <3>2. \A k \in 1..(n + 1) : Len(longer[k].results) <= 1 /\ Whole(longer[k])
      BY <2>1, <2>2
    <3>3. QED
      BY <2>1, <3>1, <3>2 DEF n
  <2>4. Good(turns)
    BY <1>3, <2>3
  <2> DEFINE three == Three(e, n + 1)
  <2>5. three \in Seq(Block)
    BY <2>1, <2>3, ThreeOK
  <2>6. BlocksFromTurns(longer) = BlocksFromTurns(turns) \o three
    <3> DEFINE each == Each(turns)
    <3>1. each \in Seq(Seq(Block)) /\ Len(each) = n
      <4>1. \A i \in 1..n : Three(turns[i], i) \in Seq(Block)
        <5> TAKE i \in 1..n
        <5>1. i \in Nat \ {0} /\ Len(turns[i].results) <= 1 /\ turns[i] \in TurnLog
          BY <2>1, <2>3 DEF n
        <5>2. QED
          BY <5>1, ThreeOK
      <4>2. QED
        BY <2>1, <4>1
    <3>2. Each(longer) = Append(each, three)
      <4>1. \A i \in 1..n : Three(longer[i], i) = Three(turns[i], i)
        BY <2>1
      <4>2. Three(longer[n + 1], n + 1) = three
        BY <2>1
      <4> HIDE DEF three
      <4>3. QED
        BY <2>1, <2>5, <3>1, <4>1, <4>2
    <3> HIDE DEF each, three
    <3>3. FlattenSeq(Append(each, three)) = FlattenSeq(each) \o three
      BY <2>5, <3>1, Run!FlattenAppend, FlattenSame
    <3>4. QED
      BY <1>1, <3>2, <3>3 DEF each
  <2>7. BlocksFromTurns(longer) \in Seq(Block)
    BY <2>4, <2>5, <2>6, ConcatProperties
  <2>8. Read(LogTexts(longer)) = Read(Texts(BlocksFromTurns(longer)))
    <3> DEFINE ts == LogTexts(turns)
               us == Texts(BlocksFromTurns(turns))
    <3>1. ts \in Seq(Seq(Token)) /\ us \in Seq(Seq(Token)) /\ Read(ts) = Read(us)
      BY <2>4, LogTextsOK, TextsOK
    <3>2. LogTexts(longer) = ts \o TurnTexts(e)
      BY LogTextsOK DEF longer
    <3>3. Texts(BlocksFromTurns(longer)) = us \o Texts(three)
      BY <2>4, <2>5, <2>6, TextsOK
    <3> HIDE DEF ts, us
    <3>4. n + 1 \in Nat \ {0}
      BY <2>1
    <3>5. Read(ts \o TurnTexts(e)) = Read(us \o Texts(three))
      BY <2>3, <3>1, <3>4, ReadTurn
    <3>6. QED
      BY <3>2, <3>3, <3>5
  <2>9. QED
    BY <2>7, <2>8
<1>4. Seq(TurnLog) \subseteq K
  <2> HIDE DEF K
  <2>1. QED
    BY <1>2, <1>3, Run!InductiveSeqs
<1>5. QED
  BY <1>4

\* An OpenAI session records what it merged.
Merging ==
    /\ bench = "path_b" => provider = "anthropic"
    /\ provider = "oss" => \A k \in 1..Len(log) : Whole(log[k])

LEMMA MergingStep ==
    ASSUME Inv, Merging, HarnessNext PROVE Merging'
<1> DEFINE n == Len(log)
<1>1. log \in Seq(TurnLog) /\ n \in Nat /\ DOMAIN log = 1..n
  BY LenProperties DEF Inv, Typed
<1>2. CASE UNCHANGED <<bench, provider, log>>
  BY <1>2 DEF Merging
<1>3. CASE AnthropicTurn \/ GeminiTurn
  BY <1>3 DEF Merging, AnthropicTurn, GeminiTurn, LiveTurn
<1>4. CASE OssTurn
  <2>1. PICK reply \in Reply :
          /\ \A i, j \in DOMAIN reply.blocks :
               i < j /\ reply.blocks[j].type = "thinking" => reply.blocks[i].type = "thinking"
          /\ LiveTurn(reply, Merged(reply.blocks, "thinking") \o Merged(reply.blocks, "text"),
                      [i \in DOMAIN reply.blocks |-> 0])
    BY <1>4 DEF OssTurn
  <2> DEFINE bs == reply.blocks
             pieces == Logged(bs, [i \in DOMAIN bs |-> 0])
             e == [pieces |-> pieces, results |-> <<>>]
  <2>2. log' = Append(log, e) /\ UNCHANGED <<bench, provider>>
    BY <2>1 DEF LiveTurn, Logged
  <2>3. LoadTrajectory(pieces) = Merged(bs, "thinking") \o Merged(bs, "text")
    <3>1. bs \in Seq(Said)
      BY SessionAssumption DEF Said
    <3>2. QED
      BY <2>1, <3>1, LoadedTogether
  <2>4. \A type : Merged(pieces, type) = Merged(bs, type)
    <3> TAKE type
    <3>1. /\ DOMAIN pieces = DOMAIN bs
          /\ \A i \in DOMAIN bs : pieces[i].type = bs[i].type /\ pieces[i].text = bs[i].text
      BY DEF Logged
    <3> HIDE DEF pieces, bs
    <3>2. TextOf(pieces, type) = TextOf(bs, type)
      BY <3>1 DEF TextOf
    <3>3. QED
      BY <3>1, <3>2 DEF Merged
  <2>5. Whole(e)
    <3>1. e.pieces = pieces
      OBVIOUS
    <3> HIDE DEF e, pieces, bs
    <3>2. QED
      BY <2>3, <2>4, <3>1 DEF Whole
  <2> HIDE DEF e, bs, pieces
  <2>6. Len(log') = n + 1 /\ log'[n + 1] = e /\ \A k \in 1..n : log'[k] = log[k]
    BY <1>1, <2>2 DEF n
  <2>7. \A k \in 1..(n + 1) : k = n + 1 \/ k \in 1..n
    BY <1>1
  <2>8. QED
    BY <2>2, <2>5, <2>6, <2>7 DEF Merging
<1>5. CASE LiveTools
  <2>1. PICK results \in Result : log' = [log EXCEPT ![Len(log)].results = results]
    BY <1>5 DEF LiveTools
  <2>2. UNCHANGED <<bench, provider>>
    BY <1>5 DEF LiveTools
  <2>3. \A k \in 1..n : log[k] \in TurnLog
    BY <1>1, ElementOfSeq
  <2>4. DOMAIN log' = 1..n /\ \A k \in 1..n : log'[k].pieces = log[k].pieces
    BY <1>1, <2>1, <2>3 DEF TurnLog
  <2>5. Len(log') = n
    BY <1>1, <2>4
  <2>6. \A k \in 1..n : Whole(log'[k]) <=> Whole(log[k])
    BY <2>4 DEF Whole
  <2>7. QED
    BY <2>2, <2>5, <2>6 DEF Merging
<1>6. QED
  BY <1>2, <1>3, <1>4, <1>5
     DEF HarnessNext, recording, StartReplay, ReplayBlock, ReplayTools

\* The rules that a rescore with the session's own rules, rescore_auto.py's,
\* finds in the recording of an OpenAI session are those that fired in it, if
\* no turn of it called two tools.
THEOREM RescoreIsFaithful == HarnessSpec => []RescoreFiresTheSame
<1>1. HarnessInit => Merging
  BY DEF HarnessInit, Merging
<1>2. Inv /\ Merging /\ [HarnessNext]_harnessVars => Merging'
  <2>1. Merging /\ UNCHANGED harnessVars => Merging'
    BY DEF harnessVars, recording, Merging
  <2>2. QED
    BY <2>1, MergingStep
<1>3. Inv /\ History /\ Merging => RescoreFiresTheSame
  <2> SUFFICES ASSUME Inv, History, Merging, provider = "oss", phase = "done",
                      \A k \in DOMAIN log : Len(log[k].results) <= 1
               PROVE  RescoreAuto(log) = fired
    BY DEF RescoreFiresTheSame
  <2>1. Keeping /\ mode # "replay"
    BY DEF Merging, Keeping, Inv, Placed
  <2>2. Texts(blocks) = LogTexts(log)
    BY <2>1 DEF History, Recorded
  <2>3. log \in Seq(TurnLog) /\ DOMAIN log = 1..Len(log)
    BY LenProperties DEF Inv, Typed
  <2>4. /\ BlocksFromTurns(log) \in Seq(Block)
        /\ Read(LogTexts(log)) = Read(Texts(BlocksFromTurns(log)))
    BY <2>3, RescoreReads DEF Merging
  <2>5. fired = Read(Texts(blocks)).rules
    BY RulesRead DEF Inv, Typed, Current
  <2>6. Names(RunDetector(BlocksFromTurns(log), FALSE)) = Read(Texts(BlocksFromTurns(log))).rules
    BY <2>4, RunIs, RulesRead
  <2>7. QED
    BY <2>2, <2>4, <2>5, <2>6 DEF RescoreAuto
<1>4. QED
  BY <1>1, <1>2, <1>3, HistoryInvariance, PTL DEF HarnessSpec
=============================================================================
