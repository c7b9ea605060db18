------------------------------ MODULE Session -------------------------------
(***************************************************************************)
(* A multi-turn agent session: the loop of runners/path_b_multiturn.py     *)
(* around SessionDetector (detector/session.py).  Each assistant turn is   *)
(* fed to the detector, what newly fired or is newly mentioned is staged,  *)
(* tools are executed, their listings enrich the workspace prior, and the  *)
(* results are fed in turn.  The model's replies and the tools' results    *)
(* are chosen from small sets; the stager is the set of paths it was       *)
(* handed (Stager says what happens to them).                              *)
(***************************************************************************)
EXTENDS Detector

CONSTANTS
    TargetKeys,     \* TargetKeys[r]: the prior buckets rule r contributes
    WorkloadPrior,  \* the workspace prior the workload starts with
    Discovered,     \* the bucket that listings are added to
    Existing,       \* paths whose physical file exists
    Reply,          \* assistant turns: [blocks, tools: BOOLEAN]
    Result,         \* tool executions: sequences of [text, listed: SUBSET Path,
                    \* killed: timed out]
    EagerFiles,     \* the runner's tier-1 limit on a rule's files
    MaxTurns        \* args.max_turns

ASSUME SessionAssumption ==
    /\ Discovered \in Bucket \ OutputBucket
    \* Rules are written before the session, about the workload's buckets.
    /\ TargetKeys \in [Rule -> SUBSET (Bucket \ {Discovered})]
    /\ WorkloadPrior \in [Bucket -> SUBSET Path]
    /\ Existing \subseteq Path
    /\ \A reply \in Reply :
         /\ reply.blocks \in Seq([type : {"thinking", "text"}, text : Seq(Token)])
         /\ reply.tools \in BOOLEAN
    /\ Result \subseteq Seq([text : Seq(Token), listed : SUBSET Path, killed : BOOLEAN])
    /\ EagerFiles \in Nat
    /\ MaxTurns \in Nat \ {0}

VARIABLES
    blocks,     \* all_blocks
    acts,       \* activations: of the latest re-run
    fired,      \* fired_rule_names
    turn,       \* current_turn
    reported,   \* reported_hot_paths
    prior,      \* the workspace prior
    staged,     \* paths handed to stager.prefetch
    phase,      \* "turn", "tools" or "done"; "replay", "replayed" in Harness
    heard       \* history: how often each rule was returned as new

vars == <<blocks, acts, fired, turn, reported, prior, staged, phase, heard>>

Init ==
    /\ blocks = <<>>
    /\ acts = {}
    /\ fired = {}
    /\ turn = 0
    /\ reported = {}
    /\ prior = WorkloadPrior
    /\ staged = {}
    /\ phase = "turn"
    /\ heard = [r \in Rule |-> 0]

-----------------------------------------------------------------------------
FilesOf(r) == DetectedFiles(TargetKeys[r], prior)
Stamp(b) == [type |-> b.type, text |-> b.text, turn |-> turn]
New(pred) == Names(pred) \ fired

\* The dispatch of new tier-1 activations, after the prior was enriched.
EagerlyStaged(rules) ==
    UNION {FilesOf(r)' : r \in {q \in rules : Cardinality(FilesOf(q)') <= EagerFiles}}

\* A plausible bug: the names that were returned are not remembered.
FeedForgets(new) ==
    LET pred == RunDetector(blocks \o new, FALSE) IN
    /\ blocks' = blocks \o new
    /\ acts' = pred
    /\ fired' = fired
    /\ heard' = [r \in Rule |-> heard[r] + IF r \in New(pred) THEN 1 ELSE 0]

\* feed_blocks: re-run the detector on everything, return what is new.
Feed(new) ==
    LET pred == RunDetector(blocks \o new, FALSE) IN
    /\ blocks' = blocks \o new
    /\ acts' = pred
    /\ fired' = fired \cup Names(pred)
    /\ heard' = [r \in Rule |-> heard[r] + IF r \in New(pred) THEN 1 ELSE 0]

\* The rules' files, then the literal mentions: a mention is reported before
\* the runner looks whether its file exists.
Dispatch(new) ==
    LET hot == HotPathScan(blocks', prior') \ reported
        rules == New(RunDetector(blocks \o new, FALSE))
    IN /\ reported' = reported \cup hot
       /\ staged' = staged \cup EagerlyStaged(rules) \cup (hot \cap Existing)

\* feed_turn and its dispatches; without a tool call the session is over.
AssistantTurn ==
    /\ phase = "turn"
    /\ \E reply \in Reply :
         LET new == [i \in DOMAIN reply.blocks |-> Stamp(reply.blocks[i])] IN
         /\ UNCHANGED prior
         /\ Feed(new)
         /\ Dispatch(new)
         /\ phase' = IF reply.tools THEN "tools" ELSE "done"
    /\ turn' = turn + 1

\* A plausible bug: the prior is enriched once the results have been scanned.
EnrichLate ==
    /\ phase = "tools"
    /\ \E results \in Result :
         LET new == [i \in DOMAIN results |->
                       Stamp([type |-> "tool_result", text |-> results[i].text])]
             hot == HotPathScan(blocks', prior) \ reported
         IN /\ prior' = [prior EXCEPT ![Discovered] =
                           @ \cup UNION {results[i].listed : i \in DOMAIN results}]
            /\ Feed(new)
            /\ reported' = reported \cup hot
            /\ staged' = staged \cup (hot \cap Existing) \cup
                         EagerlyStaged(New(RunDetector(blocks \o new, FALSE)))
    /\ phase' = IF turn = MaxTurns THEN "done" ELSE "turn"
    /\ UNCHANGED turn

\* The tools, enrich_prior_from_tool_result, feed_tool_results and its
\* dispatches: results are stamped with the turn they will be read in.
ToolResults ==
    /\ phase = "tools"
    /\ \E results \in Result :
         LET new == [i \in DOMAIN results |->
                       Stamp([type |-> "tool_result", text |-> results[i].text])]
         IN /\ prior' = [prior EXCEPT ![Discovered] =
                           @ \cup UNION {results[i].listed : i \in DOMAIN results}]
            /\ Feed(new)
            /\ Dispatch(new)
    /\ phase' = IF turn = MaxTurns THEN "done" ELSE "turn"
    /\ UNCHANGED turn

Next == AssistantTurn \/ ToolResults
Spec == Init /\ [][Next]_vars

-----------------------------------------------------------------------------
(***************************************************************************)
(* Properties.                                                             *)
(***************************************************************************)
\* Re-running the detector on a longer transcript never revises an activation:
\* its rule, source and turn stay what they were when it was dispatched.
\* (After "done" only a new session can follow.)
ActivationsStable == [][phase = "done" \/ acts \subseteq acts']_vars

\* A rule is returned as new exactly once, in the feed in which it fires.
HeardOnce ==
    \A r \in Rule : heard[r] = IF r \in Names(acts) THEN 1 ELSE 0

\* The source and turn of an activation lead to a block that holds a match.
ActivationAudit ==
    \A a \in acts : \E i \in DOMAIN blocks :
        /\ blocks[i].type = a.source /\ blocks[i].turn = a.turn
        /\ Matches(a.rule, blocks[i].text)

\* Whatever fired with few files has been staged, at once and all of it.
FiredIsStaged ==
    \A a \in acts : Cardinality(FilesOf(a.rule)) <= EagerFiles
                      => FilesOf(a.rule) \subseteq staged

\* A path of the prior that the transcript mentions, the paths learnt from
\* listings included, has been reported, and staged if its file exists.
MentionedIsStaged ==
    LET mentioned == HotPathScan(blocks, prior)
    IN mentioned \subseteq reported /\ mentioned \cap Existing \subseteq staged

-----------------------------------------------------------------------------
(***************************************************************************)
(* What comments say and the code does not do.                             *)
(***************************************************************************)
\* "yielding the identical fired-rule SET": scanning block by block finds the
\* rules that scanning character by character finds.
AtomicFiresSameSet ==
    Names(RunDetector(blocks, FALSE)) = Names(RunDetector(blocks, TRUE))
=============================================================================
