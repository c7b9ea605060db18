------------------------------ MODULE Detector ------------------------------
(***************************************************************************)
(* The rule detector (detector/engine.py) as operators on sequences of     *)
(* stream blocks.  Text is a sequence of tokens.  A rule's regex is a set  *)
(* of token words; a rule in Bounded ends in \b, so its word must not be   *)
(* followed by a word token - except at the end of the text searched,      *)
(* where nothing follows.                                                  *)
(***************************************************************************)
EXTENDS Integers, Sequences, FiniteSets, FiniteSetsExt, SequencesExt

CONSTANTS
    Token,          \* what texts are made of
    Rule,           \* rule names
    Words,          \* Words[r]: the alternatives of r's pattern
    Bounded,        \* rules whose pattern ends in a word boundary
    WordToken,      \* tokens made of word characters
    Path,           \* logical paths
    Bucket,         \* keys of the workspace prior
    OutputBucket,   \* keys that start with output_
    OutputPath,     \* paths that start with an output prefix
    FullName,       \* FullName[p]: the tokens of the whole path
    BaseName,       \* BaseName[p]: the tokens after the last slash
    Stem,           \* Stem[p]: those without the extension
    ShortStem       \* ShortStem[p]: those without the T120000 date suffix

ASSUME DetectorAssumption ==
    /\ \A r \in Rule : \A w \in Words[r] : w \in Seq(Token) /\ Len(w) > 0
    /\ Bounded \subseteq Rule
    /\ IsFiniteSet(Path)
    /\ OutputBucket \subseteq Bucket
    /\ OutputPath \subseteq Path
    /\ \A p \in Path : Len(FullName[p]) > 0 /\ Len(ShortStem[p]) > 0

\* The elements that pass a test, in order (of SelectSeq, the proof system
\* does not know the definition).
Kept(s, Test(_)) == FlattenSeq([i \in DOMAIN s |-> IF Test(s[i]) THEN <<s[i]>> ELSE <<>>])

-----------------------------------------------------------------------------
(***************************************************************************)
(* Matching.                                                               *)
(***************************************************************************)
OccursAt(word, text, i) ==
    /\ i + Len(word) - 1 <= Len(text)
    /\ \A k \in DOMAIN word : text[i + k - 1] = word[k]
Occurs(word, text) == \E i \in DOMAIN text : OccursAt(word, text, i)

AtBoundary(text, end) == end = Len(text) \/ text[end + 1] \notin WordToken

\* Where re.search can start a match; it takes the leftmost.
Starts(r, text) ==
    {i \in DOMAIN text : \E w \in Words[r] :
        OccursAt(w, text, i) /\ (r \in Bounded => AtBoundary(text, i + Len(w) - 1))}
Matches(r, text) == Starts(r, text) # {}

-----------------------------------------------------------------------------
(***************************************************************************)
(* run_detector: a fold over the scannable blocks.  A state of the fold is *)
(* the text so far and the activations so far.                             *)
(***************************************************************************)
Scannable(b) == b.type \in {"thinking", "text", "tool_result"} /\ b.text # <<>>
Names(acts) == {a.rule : a \in acts}

\* Every prefix of the block is searched together with all that precedes it.
PerCharHits(r, acc, text) ==
    \E end \in DOMAIN text : Matches(r, acc \o SubSeq(text, 1, end))

\* A plausible bug: the position of the match is not compared.
AnywhereHits(r, acc, text) == Matches(r, acc \o text)

\* One search, which counts only if its match starts inside the new block.
AtomicHits(r, acc, text) ==
    Matches(r, acc \o text) /\ Min(Starts(r, acc \o text)) > Len(acc)

ScanBlock(s, b, perChar) ==
    LET hits == {r \in Rule \ Names(s.acts) :
                   IF perChar /\ b.type = "thinking"
                   THEN PerCharHits(r, s.acc, b.text)
                   ELSE AtomicHits(r, s.acc, b.text)}
    IN IF ~Scannable(b) THEN s
       ELSE [acc |-> s.acc \o b.text,
             acts |-> s.acts \cup
                      {[rule |-> r, source |-> b.type, turn |-> b.turn] : r \in hits}]

Nothing == [acc |-> <<>>, acts |-> {}]

\* A plausible bug: tool results are scanned after all that the model wrote.
RunByType(blocks, perChar) ==
    LET Scan(s, b) == ScanBlock(s, b, perChar)
        Returned(b) == b.type = "tool_result"
        Written(b) == ~Returned(b)
    IN FoldLeft(Scan, Nothing, Kept(blocks, Written) \o Kept(blocks, Returned)).acts

RunDetector(blocks, perChar) ==
    LET Scan(s, b) == ScanBlock(s, b, perChar)
    IN FoldLeft(Scan, Nothing, blocks).acts

\* detected_files of a rule whose target keys are `keys`.
DetectedFiles(keys, prior) == UNION {prior[k] : k \in keys}

-----------------------------------------------------------------------------
(***************************************************************************)
(* hot_path_scan: literal mentions of prior paths in all scannable text.   *)
(***************************************************************************)
InputPath(prior) ==
    UNION {prior[k] : k \in Bucket \ OutputBucket} \ OutputPath

\* base_counts, stem_counts and short_counts: a path listed in two buckets is
\* counted twice.
Count(part, n, prior) ==
    Cardinality({kp \in (Bucket \ OutputBucket) \X (Path \ OutputPath) :
                   kp[2] \in prior[kp[1]] /\ part[kp[2]] = n})
Unique(part, n, prior) == Count(part, n, prior) = 1

Needles(p, prior) ==
    {FullName[p]}
    \cup {n \in {BaseName[p]} : Unique(BaseName, n, prior)}
    \cup {n \in {Stem[p]} \ {BaseName[p]} : Unique(Stem, n, prior)}
    \cup {n \in {ShortStem[p]} \ {Stem[p]} : Unique(ShortStem, n, prior)}

FullText(blocks) == FlattenSeq([i \in DOMAIN blocks |->
                        IF Scannable(blocks[i]) THEN blocks[i].text ELSE <<>>])

HotPathScan(blocks, prior) ==
    {p \in InputPath(prior) :
        \E n \in Needles(p, prior) : Occurs(n, FullText(blocks))}
=============================================================================
