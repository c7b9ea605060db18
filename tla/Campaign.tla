------------------------------ MODULE Campaign ------------------------------
(***************************************************************************)
(* The experiment campaigns: scripts/run_oss_campaign.sh ("oss") and       *)
(* scripts/microbench/llm_once_replay_twice.py ("once") run one session    *)
(* process after the other, each of which leaves turn logs and a summary   *)
(* in the directory of its cell, and metrics/rescore.py scores what is     *)
(* there.  A campaign may be killed at any moment (its allocation expires) *)
(* and is run again over the directories it left.                          *)
(*                                                                         *)
(* Simplifications: a directory's turn log is the number of the attempt    *)
(* that wrote it; a session's detector and stager are those of Harness and *)
(* Stager; scoring is done between runs of a campaign.                     *)
(***************************************************************************)
EXTENDS Integers, Sequences, FiniteSets

CONSTANTS
    Cell,       \* the out_dirs of the campaign
    Plan,       \* the order of its loops
    Script,     \* Script[c]: which runner c is given to
    MaxTurns,   \* --max-turns
    MaxRuns     \* bound: how often the campaign is started

Runner == {"aiob", "dsbench", "mlebench"}

ASSUME CampaignAssumption ==
    /\ Plan \in Seq(Cell) /\ Len(Plan) > 0
    /\ Script \in [Cell -> Runner]
    /\ MaxTurns \in Nat \ {0}
    /\ MaxRuns \in Nat \ {0}

VARIABLES
    driver,     \* "oss" or "once"
    skip,       \* once: --skip-existing-baseline
    run,        \* which start of the campaign this is
    pc,         \* what the driver does
    at,         \* its place in Plan
    attempt,    \* history: the number of the last session started
    procs,      \* the driver's child, and a session that outlived its driver
    turns,      \* turns[c][k]: the attempt that wrote turn k of c, or 0
    summary,    \* summary.json
    shared,     \* history: two sessions were given this directory
    partial,    \* history: its removal was begun and did not end
    metrics,    \* byte_metrics_v1.json: the turns it was computed from
    detection,  \* detection_v1.json, likewise
    scoring     \* the cells whose second file rescore_run has to write

driverVars == <<driver, skip, run, pc, at, attempt, shared, partial>>
dirVars == <<turns, summary>>
scoreVars == <<metrics, detection, scoring>>
vars == <<driverVars, procs, dirVars, scoreVars>>

Slot == {"child", "orphan"}
Turn == 1..MaxTurns
Ended == {"over", "aborted", "killed"}
NoTurns == [k \in Turn |-> 0]
NoSummary == [kind |-> "none", by |-> 0, n |-> 0]
Idle == [phase |-> "none", cell |-> Plan[1], by |-> 0, turn |-> 0, kind |-> "done"]

Here == Plan[at]
Child == procs["child"]
Occupied(slot, c) == procs[slot].phase # "none" /\ procs[slot].cell = c

Init ==
    /\ driver \in {"oss", "once"}
    /\ skip \in BOOLEAN
    /\ run = 1
    /\ pc = "check"
    /\ at = 1
    /\ attempt = 0
    /\ procs = [s \in Slot |-> Idle]
    /\ turns = [c \in Cell |-> NoTurns]
    /\ summary = [c \in Cell |-> NoSummary]
    /\ shared = [c \in Cell |-> FALSE]
    /\ partial = [c \in Cell |-> FALSE]
    /\ metrics = [c \in Cell |-> NoTurns]
    /\ detection = [c \in Cell |-> NoTurns]
    /\ scoring = {}

-----------------------------------------------------------------------------
(***************************************************************************)
(* A session process.                                                      *)
(***************************************************************************)
Goto(s, phase) == procs' = [procs EXCEPT ![s].phase = phase]

\* The logs of the next turn are opened for writing, whoever wrote them before.
OpenTurn(s) ==
    LET p == procs[s] IN
    /\ p.phase = "turn"
    /\ turns' = [turns EXCEPT ![p.cell][p.turn + 1] = p.by]
    /\ procs' = [procs EXCEPT ![s].phase = "stream", ![s].turn = @ + 1]
    /\ UNCHANGED <<driverVars, summary, scoreVars>>

\* The reply ends, with tool calls or without.
StreamEnds(s) ==
    /\ procs[s].phase = "stream"
    /\ \E phase \in {"shell", "write"} : Goto(s, phase)
    /\ UNCHANGED <<driverVars, dirVars, scoreVars>>

\* The model's server stops sending and keeps the connection open.
StreamStalls(s) ==
    /\ procs[s].phase = "stream"
    /\ Goto(s, "stalled")
    /\ UNCHANGED <<driverVars, dirVars, scoreVars>>

\* An exception in the session: dsbench's main lets it through, the others
\* write a summary.
Raises(s) ==
    IF Script[procs[s].cell] = "dsbench"
    THEN Goto(s, "failed")
    ELSE procs' = [procs EXCEPT ![s].phase = "write", ![s].kind = "crash"]

\* A plausible bug: the client is made without a read time-out.
NeverTimesOut(s) == FALSE

\* The OpenAI clients, which the models of "oss" are run with, wait a minute
\* for the next byte ("read=60s kills stuck streams").
ReadTimesOut(s) ==
    /\ driver = "oss"
    /\ procs[s].phase = "stalled"
    /\ Raises(s)
    /\ UNCHANGED <<driverVars, dirVars, scoreVars>>

\* A plausible bug: one turn too many.
NextTurnOffByOne(s) == Goto(s, IF procs[s].turn > MaxTurns THEN "write" ELSE "turn")

NextTurn(s) == Goto(s, IF procs[s].turn = MaxTurns THEN "write" ELSE "turn")

\* A plausible bug: only bash is killed.
KillsBashOnly(s) == FALSE

\* On a timeout aiob kills the process group, the others only bash.
KillsTheGroup(s) == Script[procs[s].cell] = "aiob"

\* The command ends, or times out; a process that bash leaves behind keeps the
\* pipe open, and communicate() waits for it.
ShellEnds(s) ==
    /\ procs[s].phase = "shell"
    /\ \/ NextTurn(s)
       \/ ~KillsTheGroup(s) /\ Goto(s, "hung")
    /\ UNCHANGED <<driverVars, dirVars, scoreVars>>

GrandchildExits(s) ==
    /\ procs[s].phase = "hung"
    /\ NextTurn(s)
    /\ UNCHANGED <<driverVars, dirVars, scoreVars>>

\* Before the first turn, and in write_text, nobody's main catches anything.
SessionFails(s) ==
    /\ \/ procs[s].phase \in {"turn", "stream", "stalled", "shell"} /\ Raises(s)
       \/ /\ \/ procs[s].phase = "turn" /\ procs[s].turn = 0
             \/ procs[s].phase \in {"write", "writing"}
          /\ Goto(s, "failed")
    /\ UNCHANGED <<driverVars, dirVars, scoreVars>>

\* write_text truncates the file before it writes.
OpenSummary(s) ==
    /\ procs[s].phase = "write"
    /\ summary' = [summary EXCEPT ![procs[s].cell] = [NoSummary EXCEPT !.kind = "torn"]]
    /\ Goto(s, "writing")
    /\ UNCHANGED <<driverVars, turns, scoreVars>>

CloseSummary(s) ==
    LET p == procs[s] IN
    /\ p.phase = "writing"
    /\ summary' = [summary EXCEPT ![p.cell] =
         [kind |-> p.kind, by |-> p.by, n |-> IF p.kind = "done" THEN p.turn ELSE 0]]
    /\ Goto(s, "exited")
    /\ UNCHANGED <<driverVars, turns, scoreVars>>

SessionStep(s) ==
    OpenTurn(s) \/ StreamEnds(s) \/ ReadTimesOut(s) \/ ShellEnds(s) \/ OpenSummary(s)
    \/ CloseSummary(s)

\* Nobody waits for an orphan.
OrphanExits ==
    /\ procs["orphan"].phase \in {"exited", "failed"}
    /\ procs' = [procs EXCEPT !["orphan"] = Idle]
    /\ UNCHANGED <<driverVars, dirVars, scoreVars>>

-----------------------------------------------------------------------------
(***************************************************************************)
(* What both drivers do.                                                   *)
(***************************************************************************)
Advance ==
    /\ pc' = IF at = Len(Plan) THEN "over" ELSE "check"
    /\ at' = IF at = Len(Plan) THEN at ELSE at + 1

Begin ==
    /\ pc' = "running"
    /\ attempt' = attempt + 1
    /\ shared' = [shared EXCEPT ![Here] = Occupied("orphan", Here)]
    /\ partial' = [partial EXCEPT ![Here] = FALSE]
    /\ procs' = [procs EXCEPT !["child"] =
         [phase |-> "turn", cell |-> Here, by |-> attempt + 1, turn |-> 0, kind |-> "done"]]
    /\ UNCHANGED <<driver, skip, run, at>>

Reap == procs' = [procs EXCEPT !["child"] = Idle]

-----------------------------------------------------------------------------
(***************************************************************************)
(* run_oss_campaign.sh: run_or_skip for every cell, under set -e.          *)
(***************************************************************************)
\* A summary that is no JSON counts as one that names no crash.
OssSkips ==
    /\ driver = "oss" /\ pc = "check"
    /\ summary[Here].kind \in {"done", "torn"}
    /\ Advance
    /\ UNCHANGED <<driver, skip, run, attempt, shared, partial, procs, dirVars, scoreVars>>

\* A plausible bug: the test of the summary is the wrong way round.
OssRunsDone ==
    /\ driver = "oss" /\ pc = "check"
    /\ summary[Here].kind \in {"none", "done"}
    /\ summary' = [summary EXCEPT ![Here] = NoSummary]
    /\ Begin
    /\ UNCHANGED <<turns, scoreVars>>

\* rm -f of a crashed summary; the rest of the directory is kept.
OssRuns ==
    /\ driver = "oss" /\ pc = "check"
    /\ summary[Here].kind \in {"none", "crash"}
    /\ summary' = [summary EXCEPT ![Here] = NoSummary]
    /\ Begin
    /\ UNCHANGED <<turns, scoreVars>>

\* pipefail and errexit: a runner that fails ends the campaign.
OssReaps ==
    /\ driver = "oss" /\ pc = "running"
    /\ Child.phase \in {"exited", "failed"}
    /\ Reap
    /\ IF Child.phase = "exited" THEN Advance ELSE pc' = "aborted" /\ UNCHANGED at
    /\ UNCHANGED <<driver, skip, run, attempt, shared, partial, dirVars, scoreVars>>

-----------------------------------------------------------------------------
(***************************************************************************)
(* llm_once_replay_twice.py.                                               *)
(***************************************************************************)
OnceReuses ==
    /\ driver = "once" /\ pc = "check" /\ skip
    /\ summary[Here].kind = "done"
    /\ pc' = "replay"
    /\ UNCHANGED <<driver, skip, run, at, attempt, shared, partial, procs, dirVars, scoreVars>>

\* shutil.rmtree of the cell begins.
OnceClears ==
    /\ driver = "once" /\ pc = "check"
    /\ ~skip \/ summary[Here].kind \in {"none", "crash"}
    /\ pc' = "clear"
    /\ UNCHANGED <<driver, skip, run, at, attempt, shared, partial, procs, dirVars, scoreVars>>

RemoveSummary ==
    /\ summary[Here].kind # "none"
    /\ summary' = [summary EXCEPT ![Here] = NoSummary]
    /\ UNCHANGED <<turns, metrics, detection>>

RemoveMetrics ==
    /\ metrics[Here] # NoTurns
    /\ metrics' = [metrics EXCEPT ![Here] = NoTurns]
    /\ UNCHANGED <<dirVars, detection>>

RemoveDetection ==
    /\ detection[Here] # NoTurns
    /\ detection' = [detection EXCEPT ![Here] = NoTurns]
    /\ UNCHANGED <<dirVars, metrics>>

RemoveTurn ==
    /\ \E k \in Turn : turns[Here][k] # 0 /\ turns' = [turns EXCEPT ![Here][k] = 0]
    /\ UNCHANGED <<summary, metrics, detection>>

\* It removes one entry after the other, in the order of the directory: the
\* files of the cell and, without another one between them, the turns.
OnceRemoves ==
    /\ driver = "once"
    /\ \/ /\ pc = "clear" /\ pc' = "clear"
          /\ RemoveSummary \/ RemoveMetrics \/ RemoveDetection
       \/ /\ pc \in {"clear", "clearTurns"}
          /\ RemoveTurn
          /\ pc' = IF turns'[Here] = NoTurns THEN "clear" ELSE "clearTurns"
    /\ partial' = [partial EXCEPT ![Here] = TRUE]
    /\ UNCHANGED <<driver, skip, run, at, attempt, shared, procs, scoring>>

\* It raises, as when an orphan has put a file into a directory it has listed.
OnceClearFails ==
    /\ pc \in {"clear", "clearTurns"}
    /\ pc' = "aborted"
    /\ UNCHANGED <<driver, skip, run, at, attempt, shared, partial, procs, dirVars, scoreVars>>

\* A plausible bug: the session is started over the old directory.
OnceRunsOver ==
    /\ pc = "clear"
    /\ Begin
    /\ UNCHANGED <<dirVars, scoreVars>>

\* A plausible bug: only the files of the cell are removed.
OnceKeepsTurns ==
    /\ pc = "clear"
    /\ summary[Here] = NoSummary /\ metrics[Here] = NoTurns /\ detection[Here] = NoTurns
    /\ Begin
    /\ UNCHANGED <<dirVars, scoreVars>>

\* A plausible bug: of the scores only the metrics are removed.
OnceKeepsDetection ==
    /\ pc = "clear"
    /\ turns[Here] = NoTurns /\ summary[Here] = NoSummary /\ metrics[Here] = NoTurns
    /\ Begin
    /\ UNCHANGED <<dirVars, scoreVars>>

\* The directory is gone, and a baseline session is started.
OnceRuns ==
    /\ pc = "clear"
    /\ turns[Here] = NoTurns /\ summary[Here] = NoSummary
    /\ metrics[Here] = NoTurns /\ detection[Here] = NoTurns
    /\ Begin
    /\ UNCHANGED <<dirVars, scoreVars>>

\* json.loads of a summary that is no JSON is not caught.
OnceRaises ==
    /\ driver = "once"
    /\ summary[Here].kind = "torn"
    /\ \/ pc = "check" /\ skip /\ UNCHANGED procs
       \/ pc = "running" /\ Child.phase = "exited" /\ Reap
    /\ pc' = "aborted"
    /\ UNCHANGED <<driver, skip, run, at, attempt, shared, partial, dirVars, scoreVars>>

\* An error is recorded and the campaign goes on.
OnceReaps ==
    /\ driver = "once" /\ pc = "running"
    /\ \/ Child.phase = "failed"
       \/ Child.phase = "exited" /\ summary[Here].kind # "torn"
    /\ Reap
    /\ IF Child.phase = "exited" /\ summary[Here].kind = "done"
       THEN pc' = "replay" /\ UNCHANGED at
       ELSE Advance
    /\ UNCHANGED <<driver, skip, run, attempt, shared, partial, dirVars, scoreVars>>

\* subprocess.run kills uv, its child; the python that uv started may survive
\* (at most one such orphan is followed).
OnceTimesOut ==
    /\ driver = "once" /\ pc = "running"
    /\ Child.phase \notin {"exited", "failed"}
    /\ \/ Reap
       \/ /\ procs["orphan"].phase = "none"
          /\ procs' = [child |-> Idle, orphan |-> Child]
    /\ Advance
    /\ UNCHANGED <<driver, skip, run, attempt, shared, partial, dirVars, scoreVars>>

\* replay_session.py in either mode only reads the directory; the campaign goes
\* on whether it succeeds, fails or is timed out.
OnceReplays ==
    /\ driver = "once" /\ pc = "replay"
    /\ Advance
    /\ UNCHANGED <<driver, skip, run, attempt, shared, partial, procs, dirVars, scoreVars>>

-----------------------------------------------------------------------------
(***************************************************************************)
(* The end of an allocation, the next one, and scoring between them.       *)
(***************************************************************************)
Kill ==
    /\ pc \notin Ended
    /\ pc' = "killed"
    /\ procs' = [s \in Slot |-> Idle]
    /\ UNCHANGED <<driver, skip, run, at, attempt, shared, partial, dirVars, scoreVars>>

Restart ==
    /\ pc \in Ended
    /\ run < MaxRuns
    /\ run' = run + 1
    /\ pc' = "check"
    /\ at' = 1
    /\ skip' \in BOOLEAN
    /\ scoring' = {}
    /\ UNCHANGED <<driver, attempt, shared, partial, procs, dirVars, metrics, detection>>

\* rescore_run: runs that have metrics are skipped; every turn is read.
ScoreMetrics(c) ==
    /\ pc \in Ended /\ scoring = {}
    /\ summary[c].kind \in {"done", "crash"}
    /\ metrics[c] = NoTurns
    /\ metrics' = [metrics EXCEPT ![c] = turns[c]]
    /\ scoring' = {c}
    /\ UNCHANGED <<driverVars, procs, dirVars, detection>>

ScoreDetection(c) ==
    /\ c \in scoring
    /\ detection' = [detection EXCEPT ![c] = metrics[c]]
    /\ scoring' = {}
    /\ UNCHANGED <<driverVars, procs, dirVars, metrics>>

Driver ==
    \/ OssSkips \/ OssRuns \/ OssReaps
    \/ OnceReuses \/ OnceClears \/ OnceRemoves \/ OnceRuns \/ OnceRaises \/ OnceReaps
    \/ OnceReplays

Next ==
    \/ \E s \in Slot : SessionStep(s) \/ StreamStalls(s) \/ GrandchildExits(s) \/ SessionFails(s)
    \/ OrphanExits
    \/ Driver
    \/ OnceTimesOut
    \/ OnceClearFails
    \/ Kill
    \/ Restart
    \/ \E c \in Cell : ScoreMetrics(c) \/ ScoreDetection(c)

Spec == Init /\ [][Next]_vars

\* The processes and the driver run, a shell command ends or is timed out; a
\* stream that stalls is timed out by the client of "oss" and a whole baseline
\* by "once".  What a killed bash leaves behind owes nothing.
Fairness ==
    /\ \A s \in Slot : WF_vars(SessionStep(s))
    /\ WF_vars(Driver)
    /\ WF_vars(OnceTimesOut)
LiveSpec == Spec /\ Fairness

-----------------------------------------------------------------------------
(***************************************************************************)
(* Properties.                                                             *)
(***************************************************************************)
TypeOK ==
    /\ driver \in {"oss", "once"} /\ skip \in BOOLEAN
    /\ run \in 1..MaxRuns /\ at \in 1..Len(Plan) /\ attempt \in Nat
    /\ pc \in Ended \cup {"check", "clear", "clearTurns", "running", "replay"}
    /\ procs \in [Slot ->
         [phase : {"none", "turn", "stream", "stalled", "shell", "hung", "write",
                   "writing", "exited", "failed"},
          cell : Cell, by : Nat, turn : 0..MaxTurns, kind : {"done", "crash"}]]
    /\ turns \in [Cell -> [Turn -> Nat]]
    /\ summary \in [Cell -> [kind : {"none", "torn", "crash", "done"}, by : Nat,
                             n : 0..MaxTurns]]
    /\ shared \in [Cell -> BOOLEAN] /\ partial \in [Cell -> BOOLEAN]
    /\ metrics \in [Cell -> [Turn -> Nat]] /\ detection \in [Cell -> [Turn -> Nat]]
    /\ scoring \subseteq Cell

\* The turns that a finished session's summary lists are on disk as that
\* session wrote them, whatever attempts came before, failed or were killed.
\* Only a session that outlived its driver can spoil them, and a removal of the
\* directory that was killed, or raised, after it took a turn and before it
\* took the summary.
SummaryDescribesTurns ==
    \A c \in Cell : summary[c].kind = "done" /\ ~shared[c] /\ ~partial[c]
        => \A k \in 1..summary[c].n : turns[c][k] = summary[c].by

\* Turn k of c and what was scored from it stem from the summary's session.
OneAttempt(c) ==
    \A k \in Turn : {turns[c][k], metrics[c][k]} \subseteq {0, summary[c].by}

\* A finished directory of "once" holds nothing of an earlier attempt, however
\* much of it a removal has taken: what a scan of all its turns computes is
\* about the session of the summary.
OnceCellsAreClean ==
    driver = "once" =>
        \A c \in Cell : summary[c].kind = "done" /\ ~shared[c] => OneAttempt(c)

\* The two score files of a cell are about the same turns, or the second is
\* missing: scoring that is killed between them and repeated after another
\* attempt never leaves a pair of two attempts.  A removal that was killed, or
\* raised, may have taken the first and left the second.
ScoresAgree ==
    \A c \in Cell : ~partial[c] => detection[c] \in {NoTurns, metrics[c]}

\* "will SKIP any cell whose summary.json already exists": however often the
\* OSS campaign is killed and started again, a finished cell stays as it is.
DoneStaysDone ==
    [][driver = "oss" => \A c \in Cell : summary[c].kind = "done" =>
         summary'[c] = summary[c] /\ turns'[c] = turns[c]]_vars

\* Every start of a campaign comes to an end: "once" always, whatever hangs,
\* the OSS campaign unless a killed bash of dsbench or mlebench leaves a process
\* behind that keeps the pipe open.
Blocked == driver = "oss" /\ Child.phase = "hung" /\ Script[Child.cell] # "aiob"
CampaignEnds == []<>(pc \in Ended \/ Blocked)

-----------------------------------------------------------------------------
(***************************************************************************)
(* What a comment says and the code does not do.                          *)
(***************************************************************************)
\* "so we get a clean retry": a finished cell of the OSS campaign holds the
\* turns of one session.
RetryIsClean ==
    driver = "oss" => \A c \in Cell : summary[c].kind = "done" => OneAttempt(c)
=============================================================================
