------------------------------- MODULE Harness ------------------------------
(***************************************************************************)
(* The sessions of scripts/microbench around the detector of Session: the  *)
(* aiob, dsbench and mlebench runners, which differ in how a provider's    *)
(* reply becomes blocks and in which files of a new rule they hand to the  *)
(* stager, and replay_session.py, which feeds the recording of a baseline  *)
(* session to a fresh detector.  They read the prior but never enrich it,  *)
(* and never ask for mentioned paths.  A session of path_b_multiturn is    *)
(* one of Session's.  dsbench and mlebench have the same loops: "bench".   *)
(*                                                                         *)
(* A piece of a reply is a whole Anthropic block, a Gemini part or a run   *)
(* of OpenAI deltas of one kind.  Re-executed tools return what they       *)
(* returned when they were recorded.                                       *)
(***************************************************************************)
EXTENDS Session

CONSTANT HarnessTurns   \* --max-turns of the microbenchmarks

ASSUME HarnessAssumption == HarnessTurns \in Nat \ {0}

VARIABLES
    bench,          \* the script: "path_b", "aiob" or "bench"
    provider,       \* whose API the session talks to
    mode,           \* "baseline", "staged" or "replay"
    log,            \* out_dir/turns: the recorded turns
    lived,          \* history: the rules fired by the end of each live turn
    pos,            \* replay: the next block of the turn
    nPrefetched     \* n_prefetched_files

recording == <<bench, provider, mode, log, lived, pos, nPrefetched>>
harnessVars == <<vars, recording>>

HarnessInit ==
    /\ Init
    /\ \/ bench = "path_b" /\ provider = "anthropic" /\ mode = "staged"
       \/ /\ bench \in {"aiob", "bench"}
          /\ provider \in {"anthropic", "gemini", "oss"}
          /\ mode \in {"baseline", "staged"}
    /\ log = <<>>
    /\ lived = <<>>
    /\ pos = 1
    /\ nPrefetched = 0

-----------------------------------------------------------------------------
(***************************************************************************)
(* What is handed to the stager for the rules of one feed.                 *)
(***************************************************************************)
Named(rules) == UNION {FilesOf(r) : r \in rules}

\* _dispatch_prefetches of aiob and of the replay: existence is not checked.
AiobHanded(rules) == Named(rules)

DsbHanded(rules) == Named(rules) \cap Existing

\* A plausible bug: seen_phys of the OpenAI loop is reset at every feed.
OssHandedAgain(rules) == Named(rules) \cap Existing

\* The OpenAI loop keeps seen_phys for the whole session.
OssHanded(rules) == (Named(rules) \cap Existing) \ staged

Handed(rules) ==
    IF mode = "baseline" THEN {}
    ELSE IF mode = "replay" \/ bench = "aiob" THEN AiobHanded(rules)
    ELSE IF provider = "oss" THEN OssHanded(rules)
    ELSE DsbHanded(rules)

\* A plausible bug: the results of the tools fire rules that nobody dispatches.
FeedWrittenOnly(new) ==
    LET handed == Handed(New(RunDetector(blocks \o new, FALSE))) IN
    /\ Feed(new)
    /\ staged' = IF phase = "tools" THEN staged ELSE staged \cup handed
    /\ nPrefetched' = nPrefetched + Cardinality(handed)
    /\ UNCHANGED <<prior, reported>>

FeedAndHand(new) ==
    LET handed == Handed(New(RunDetector(blocks \o new, FALSE))) IN
    /\ Feed(new)
    /\ staged' = staged \cup handed
    /\ nPrefetched' = nPrefetched + Cardinality(handed)
    /\ UNCHANGED <<prior, reported>>

-----------------------------------------------------------------------------
(***************************************************************************)
(* A live session.                                                         *)
(***************************************************************************)
Stamped(bs) == [i \in DOMAIN bs |-> Stamp(bs[i])]
TextOf(bs, type) ==
    FlattenSeq([i \in DOMAIN bs |-> IF bs[i].type = type THEN bs[i].text ELSE <<>>])

\* One block of all the text of a type, or none.
Merged(bs, type) ==
    IF \E i \in DOMAIN bs : bs[i].type = type
    THEN <<[type |-> type, text |-> TextOf(bs, type)]>> ELSE <<>>

\* A turn: fed is what the detector sees of the reply, id[i] the block number
\* that piece i is logged with.
LiveTurn(reply, fed, id) ==
    /\ bench # "path_b"
    /\ phase = "turn"
    /\ FeedAndHand(Stamped(fed))
    /\ log' = Append(log,
         [pieces |-> [i \in DOMAIN reply.blocks |->
            [type |-> reply.blocks[i].type, text |-> reply.blocks[i].text, block |-> id[i]]],
          results |-> <<>>])
    /\ turn' = turn + 1
    /\ phase' = IF reply.tools THEN "tools" ELSE "done"
    /\ lived' = IF reply.tools THEN lived ELSE Append(lived, fired')
    /\ UNCHANGED <<bench, provider, mode, pos>>

AnthropicTurn ==
    /\ provider = "anthropic"
    /\ \E reply \in Reply : LiveTurn(reply, reply.blocks, [i \in DOMAIN reply.blocks |-> i])

\* Every part of a Gemini reply is logged as block 0.
GeminiTurn ==
    /\ provider = "gemini"
    /\ \E reply \in Reply : LiveTurn(reply, reply.blocks, [i \in DOMAIN reply.blocks |-> 0])

\* The server sends the reasoning before the content; each is one block.
OssTurn ==
    /\ provider = "oss"
    /\ \E reply \in Reply :
         /\ \A i, j \in DOMAIN reply.blocks :
              i < j /\ reply.blocks[j].type = "thinking" => reply.blocks[i].type = "thinking"
         /\ LiveTurn(reply, Merged(reply.blocks, "thinking") \o Merged(reply.blocks, "text"),
                     [i \in DOMAIN reply.blocks |-> 0])

ToolBlocks(results) ==
    [i \in DOMAIN results |-> Stamp([type |-> "tool_result", text |-> results[i].text])]

LiveTools ==
    /\ bench # "path_b"
    /\ phase = "tools"
    /\ \E results \in Result :
         /\ FeedAndHand(ToolBlocks(results))
         /\ log' = [log EXCEPT ![Len(log)].results = results]
    /\ lived' = Append(lived, fired')
    /\ phase' = IF turn = HarnessTurns THEN "done" ELSE "turn"
    /\ UNCHANGED <<turn, bench, provider, mode, pos>>

-----------------------------------------------------------------------------
(***************************************************************************)
(* replay_session.py: the recording of a baseline session, staged.         *)
(***************************************************************************)
SameBlock(p, q) == p.type = q.type /\ p.block = q.block

\* A plausible bug: the blocks are not sorted by the time of their last delta.
LoadUnsorted(pieces) ==
    Kept(pieces, LAMBDA p : p.type = "thinking") \o Kept(pieces, LAMBDA p : p.type = "text")

\* load_trajectory: one block per id and log, in the order of last deltas.
LoadTrajectory(pieces) ==
    LET IsLast(i) == \A j \in DOMAIN pieces : SameBlock(pieces[i], pieces[j]) => j <= i
        Joined(p) == FlattenSeq([i \in DOMAIN pieces |->
                        IF SameBlock(p, pieces[i]) THEN pieces[i].text ELSE <<>>])
    IN FlattenSeq([i \in DOMAIN pieces |->
         IF IsLast(i) THEN <<[type |-> pieces[i].type, text |-> Joined(pieces[i])]>>
         ELSE <<>>])

\* A fresh detector and an emptied hot root.
StartReplay ==
    /\ phase = "done"
    /\ mode = "baseline"
    /\ mode' = "replay"
    /\ phase' = "replay"
    /\ blocks' = <<>>
    /\ acts' = {}
    /\ fired' = {}
    /\ heard' = [r \in Rule |-> 0]
    /\ turn' = 0
    /\ staged' = {}
    /\ UNCHANGED <<reported, prior, bench, provider, log, lived, pos, nPrefetched>>

\* One block at a time is fed and dispatched.
ReplayBlock ==
    /\ phase = "replay"
    /\ LET loaded == LoadTrajectory(log[turn + 1].pieces) IN
         /\ pos <= Len(loaded)
         /\ FeedAndHand(<<Stamp(loaded[pos])>>)
    /\ pos' = pos + 1
    /\ UNCHANGED <<turn, phase, bench, provider, mode, log, lived>>

\* The tools that were not killed; the turn advances after their results.
ReplayTools ==
    /\ phase = "replay"
    /\ pos > Len(LoadTrajectory(log[turn + 1].pieces))
    /\ FeedAndHand(ToolBlocks(Kept(log[turn + 1].results, LAMBDA r : ~r.killed)))
    /\ turn' = turn + 1
    /\ pos' = 1
    /\ phase' = IF turn + 1 = Len(log) THEN "replayed" ELSE "replay"
    /\ UNCHANGED <<bench, provider, mode, log, lived>>

-----------------------------------------------------------------------------
(***************************************************************************)
(* The detector run once more, over the recorded turns of a finished       *)
(* session.  The runners of scripts/microbench detect with the rules that  *)
(* AutoRuleGenerator makes from the workload, and so does rescore_auto.py, *)
(* so Rule is that set in both.  rescore.py builds its blocks in the same  *)
(* way, but runs the hand-written library of get_ruleset over them, which  *)
(* is another set of rules: nothing is said of it here.                    *)
(***************************************************************************)
\* _read_tool_results: the contents that are not empty, a newline between them.
RecordedResults(turnLog) ==
    LET texts == Kept([i \in DOMAIN turnLog.results |-> turnLog.results[i].text],
                      LAMBDA t : t # <<>>)
    IN FlattenSeq([i \in DOMAIN texts |-> IF i = 1 THEN texts[i] ELSE <<"\n">> \o texts[i]])

\* A plausible bug: what the model said comes before what it thought.
TurnsTextFirst(turns) ==
    FlattenSeq([n \in DOMAIN turns |->
        <<[type |-> "text", text |-> TextOf(turns[n].pieces, "text"), turn |-> n - 1],
          [type |-> "thinking", text |-> TextOf(turns[n].pieces, "thinking"), turn |-> n - 1],
          [type |-> "tool_result", text |-> RecordedResults(turns[n]), turn |-> n - 1]>>])

\* blocks_from_turns: three blocks a turn; the detector skips the empty ones.
BlocksFromTurns(turns) ==
    FlattenSeq([n \in DOMAIN turns |->
        <<[type |-> "thinking", text |-> TextOf(turns[n].pieces, "thinking"), turn |-> n - 1],
          [type |-> "text", text |-> TextOf(turns[n].pieces, "text"), turn |-> n - 1],
          [type |-> "tool_result", text |-> RecordedResults(turns[n]), turn |-> n - 1]>>])

\* rescore_run of rescore_auto.py: the rules of the workload, generated again,
\* over the recorded blocks and the workload's prior, blocks scanned whole.
RescoreAuto(turns) == Names(RunDetector(BlocksFromTurns(turns), FALSE))

HarnessNext ==
    \/ bench = "path_b" /\ AssistantTurn /\ UNCHANGED recording
    \/ bench = "path_b" /\ ToolResults /\ UNCHANGED recording
    \/ AnthropicTurn
    \/ GeminiTurn
    \/ OssTurn
    \/ LiveTools
    \/ StartReplay
    \/ ReplayBlock
    \/ ReplayTools

HarnessSpec == HarnessInit /\ [][HarnessNext]_harnessVars

-----------------------------------------------------------------------------
(***************************************************************************)
(* Properties.                                                             *)
(***************************************************************************)
\* Whatever fired has been handed to the stager at once: in path_b the files
\* of a rule with few of them, elsewhere all of them, or those that exist.
FiredIsHanded ==
    IF bench = "path_b" THEN FiredIsStaged
    ELSE IF mode = "baseline" THEN staged = {}
    ELSE IF mode = "replay" \/ bench = "aiob" THEN Named(Names(acts)) \subseteq staged
    ELSE Named(Names(acts)) \cap Existing \subseteq staged

\* In path_b, the paths the transcript mentions are reported and staged.
MentionsAreStaged == bench = "path_b" => MentionedIsStaged

\* n_prefetched_files of an OpenAI session of dsbench or mlebench counts every
\* file once, however many rules name it and whenever they fire.
OssCountsFilesOnce ==
    bench = "bench" /\ provider = "oss" /\ mode = "staged"
        => nPrefetched = Cardinality(staged)

\* "holding the agent's trajectory fixed": turn by turn, a replay fires the
\* rules its live session fired, unless a tool was killed, whose result is not
\* replayed, or the recording is a Gemini one, whose parts it merges.
ReplayFiresTheSame ==
    /\ mode = "replay" /\ turn > 0 /\ pos = 1
    /\ provider # "gemini"
    /\ \A k \in 1..turn : \A i \in DOMAIN log[k].results : ~log[k].results[i].killed
    => fired = lived[turn]

\* "Recall depends only on the detected set": the rules that rescore_auto.py,
\* which scores with the rules of the session, finds in its recording are those
\* that fired in it, when the recording merges no blocks that the session fed
\* one by one: it was an OpenAI session and no turn of it called two tools.
RescoreFiresTheSame ==
    /\ provider = "oss" /\ phase = "done"
    /\ \A k \in DOMAIN log : Len(log[k].results) <= 1
    => RescoreAuto(log) = fired
=============================================================================
