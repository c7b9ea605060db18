# A TLA+ verification of AgentStage

AgentStage watches what a language-model agent is thinking, matches it against
rules, and copies the files the agent is about to open from a slow ("cold") tier
to a fast ("hot") one. A preloaded C library then redirects the agent's tools to
the hot copies. This directory models the package `src/src/agentstage/` and the
benchmark sessions and campaigns of `src/scripts/` that use it. File names below are
relative to the package, unless they start with `scripts/` or say otherwise.

## Inventory

| part | state | operations | talks to |
|---|---|---|---|
| stager (`stager/daemon.py`, `report.py`) | `_in_flight`, executor queue, `_primary_used_bytes`, hot trees, temp files, report | `prefetch`, `_submit_one`, `_stage`, `_ensure_capacity_for`, `shutdown` | called by the runner and the live clients; shares the hot tree with the shim |
| codecs (`stager/codecs.py`) | none | `resolve`, `materialise`, `companions` | called inside `_stage` and `prefetch` |
| shim (`stager/shim/agentstage_shim.c`) | per call only (`t_in_shim`) | open, openat, creat, fopen, stat family, access family and their aliases | loaded into every tool process; reads the hot tree, falls through to the cold one |
| detector (`detector/engine.py`) | none | `run_detector`, `hot_path_scan`, stream parsers | called by the session detector and by offline scoring |
| session detector (`detector/session.py`) | `all_blocks`, `activations`, `fired_rule_names`, `reported_hot_paths`, turn | `feed_turn`, `feed_tool_results`, `new_hot_paths` | called by the runner |
| agent loop (`runners/path_b_multiturn.py`) | messages, workspace prior, recorders | one loop per turn | client, session detector, tools, stager |
| live clients (`client/`) | open blocks, fired rules, tool calls of one reply | `events()` per provider, `RuleDispatcher.fire` | provider SDKs (external), stager |
| benchmark sessions (`scripts/microbench/{aiob,dsbench,mlebench}_multiturn.py`) | messages, turn logs, `n_prefetched`, `summary.json` | one loop per provider, shell tool, dispatch | provider, session detector, stager, shim (in tool processes) |
| replay (`scripts/microbench/replay_session.py`) | a recorded session | `load_trajectory`, `replay` | a fresh session detector and stager |
| campaign drivers (`scripts/run_oss_campaign.sh`, `scripts/microbench/llm_once_replay_twice.py`) | the cells' directories | skip, run, retry, time out, replay | start the sessions as processes |
| discovery (`stager/discovery.py`) | cached hierarchy file | probe, load, save | harness, before a run |
| rules, workloads | data | - | constants of the detector and the loop |
| metrics (`metrics/`) | result files | score, rescore | finished runs |

What is hard about this system:

- **Concurrency.** A pool of threads copies files while callers submit more. The
  stager's lock covers the in-flight table and the byte counter, never the disk:
  capacity checks, sweeps, copies and renames interleave freely. Tools in other
  processes look at the same directories at the same time.
- **Partial failure.** Copies and expansions can fail after any byte. Temp file,
  reservation, event and future must each be settled on every way out.
- **Limits.** A total capacity with eviction (one tier), or a cap on the primary
  with routing by a counter (two tiers).
- **Timeouts.** An open spins a bounded time for a mirror that may appear.
- **Processes that die.** A session process is killed with its allocation, crashes, or is
  timed out; its temp files, mirrors, turn logs and half-written summary are what the next
  one finds.
- **Recordings.** A replay and a rescore rebuild from logs what a live session fed to its
  detector, block by block.
- **Order and staleness.** The detector is re-run on a growing transcript with a
  growing prior. Streams are cut into pieces by the provider.

What makes each part correct: the stager never shows a partial file, runs each
path once, accounts for every byte it reserves and settles every request; the shim
never makes a tool fail that would have succeeded on the cold tier, uses what is
staged, and returns; the session returns each rule once with evidence that lasts and
stages what fired or was mentioned; the clients lose nothing between the provider
and the rebuilt message and miss no rule that their text matches; a replay fires what the
recorded session fired; a campaign ends, never touches a finished cell, and a cell's summary
describes the turns on disk.

## Modules

    Staging ............. abstract promise of the stager
      ^ refined by Stager (StagerProps!Abstract), used by Shim (Shim!Tier)
    Stager  <- StagerProps <- StagerProofs <- StagerRefines (theorems), MCStager (TLC)
    Shim    <- ShimProofs (theorems), MCShim
    Detector <- Session <- Harness <- SessionProofs (theorems), MCSession
    Detector <- Streaming <- StreamingProofs (theorems), MCStreaming
    Campaign <- CampaignProofs (theorems), MCCampaign
    Codecs <- CodecsProofs (theorems), MCCodecs
    FoldTheory .......... facts about the library's folds, instantiated by CodecsProofs,
                          SessionProofs and StreamingProofs

### Stager

One variable per field of the class, the disk (`hot`, `tmp`) and one program counter
per worker thread. `_stage` is cut where another thread can see a difference: at each
acquisition of the lock and each file-system access.

| program counter | code (`daemon.py`) | action |
|---|---|---|
| - | 92-109, 167-198, 111-113 | `Prefetch`, `SubmitOne`, `Shutdown` |
| idle | executor | `Take` |
| probe, hit | 205-221 | `Probe`, `RecordHit` |
| resolve | 226-250 | `Resolve` |
| reserve | 252-268 | `Reserve` |
| ensure, snapshot, scan, gather, evict | 339-395 | `EnsureFast`, `Snapshot`, `Scan`, `Gather`, `EvictOne`, `OutOfSpace` |
| mkdir, copy, rename | 275-283 | `MkdirAndOpen`, `Copy`, `Rename` |
| cleanup, release, error | 289-296, 270-273, 313-333 | `Cleanup`, `Release`, `RecordError` |
| record, return, raise | 297-311, future | `RecordStaged`, `Done` |

A file's content is its number of bytes, so a partial copy is a smaller number. The
size that is reserved (`Plan`) and the size that is written (`Real`) are separate
constants, because compressed sources are only estimated. `Fault` names the calls that
may fail. The sweep may try its candidates in any order: access times belong to the
mount and to the readers. `Restart` kills the process and starts another over the same
roots: every table is forgotten, mirrors stay, and the temp files of the dead threads become
`litter`, bytes that every later scan counts and no sweep removes (daemon.py 372 skips
`.tmp.` names). `Canon` is what resolving symlinks returns: two keys may
share a mirror.

Things the code does that are easily overlooked, and that the model keeps: eviction
never gives bytes back to `_primary_used_bytes`, so the fast path stays shut once that
much has been staged; the fast path counts the incoming size twice; `existing_hot.stat()`
and `mkdir()` can leave `_stage` by an exception without an event, and after a failed
`mkdir()` the reservation is never released.

### Codecs

What one worker's `resolve` and `materialise` do, call by call: the target is probed, then an
archive per codec; an archive's expanded size is estimated; the source is opened and read. Between
any two calls another process may change the cold tier. An archive is what can be told of it: what its
whole members expand to, whether a broken one follows, and its own size. What the libraries notice of damage is `Raises` (external): a broken member always, an empty
file unless it is gzip's; for zstd this is what the comment at `daemon.py` 284-285 says of it.
`Codecs` says where Stager's constants come from: `plan.size` is its `Plan`, `dest` its `Real`.

### Staging

What a client may rely on: a path is requested at most once, its whole mirror may
appear while its request is open, the request is settled. Mirrors vanish only with one
tier and only on behalf of an open request. A restart forgets requests and keeps mirrors.
`StagerProps!Abstract` maps Stager to it:
a request is a key in `_in_flight`, settled when its future is done, and a mirror
counts when it has all its bytes.

### Shim

The threads of a tool, call by call, over `Staging` - not over `Stager`, which the
refinement justifies: what the stager's steps can do to a mirror is what `Staging`
allows. Contents are version numbers, so that stale reads can be told from fresh ones.
`open`, `openat` and `fopen` are the "open" calls, which spin. `stat`, `lstat`, `fstatat`,
`access` and `faccessat` are the "stat" calls, which do not spin and go on after any
error. Writing calls and `creat` are `Write`; `unlink` is not intercepted. Every
file-system call of a call is a step, so mirrors come and go between them. `TierRestart`
starts the stager again behind a running tool. `copyable` says which versions a request may come
to copy, as `resolve` finds them: the plain file that is there when the request is made, else the
archive's version 0, else nothing, and whatever comes to stand there while the request is open - a
new version when a tool writes, the archive again when a tool unlinks the plain file beside it.
`exposed` remembers the files that were written while they had a mirror or an open request, and
the archives whose plain file was removed: of those a reader may get an old version
(`StaleOnlyIfExposed`), of no others.

### Detector

`run_detector` and `hot_path_scan` as operators on sequences of blocks. Text is a
sequence of tokens. A regex is a set of token words; rules in `Bounded` end in a
word boundary, which is what makes a prefix of a text match where the text does not.
`re.search`'s leftmost match, and the atomic scan's test that it starts inside the new
block, are kept. The fold of the library replaces recursion.

### Session

The loop of `path_b_multiturn.py` (808-997) around `SessionDetector`. `AssistantTurn` is
a whole reply with its dispatches; `ToolResults` is the execution of the tools, the
enrichment of the prior and the feed of the results with its dispatches. Replies and
results are chosen from constant sets. The stager is the set of paths it was handed.

### Harness

The sessions of the benchmark scripts around the same detector. They differ from
path_b's: the prior is never enriched, literal mentions are not asked for, and what is handed
to the stager for a rule is all its files (aiob, replay), those that exist (dsbench, mlebench),
or those that exist and were never handed over before (their OpenAI loop). A live turn feeds
the reply and logs it; what the log keeps depends on the provider: an Anthropic block has its
own number, Gemini's parts and OpenAI's deltas are all block 0. `StartReplay`, `ReplayBlock`
and `ReplayTools` are `replay_session.py` over a baseline recording: `LoadTrajectory` regroups
the two logs into blocks ordered by their last delta. `BlocksFromTurns` is how
both rescores of `metrics/` rebuild the blocks of a finished session, an operator over the log, and
`RescoreAuto` is the detection of `metrics/rescore_auto.py` over them. It generates the rules from
the workload (76-99), as the live loops do (`aiob_multiturn.py` 1142-1149, `dsbench_multiturn.py`
1059-1066, `mlebench_multiturn.py` 1077-1084), so `Rule` stands for one and the same set there.
`metrics/rescore.py` (177, 202) runs the hand-written library of `get_ruleset` over the same
blocks: a second set of rules, of which the model says nothing.

### Campaign

The two drivers, the session process of the cell they are at, one session that outlived
its driver, and what is on disk: turn logs (by the number of the attempt that wrote them),
the summary (absent, torn, crashed, done) and the two score files. A session's inside is
reduced to its phases; `stream` and `stalled` are the model's server, `shell` and `hung` the
shell tool. `Kill` is the end of the allocation, at any moment; `Restart` the next start of the
campaign. `llm_once_replay_twice.py` clears a cell with `shutil.rmtree` (59-60, 186): `OnceClears`,
then `OnceRemoves` for one entry at a time in any order in which directories are finished once
begun, with `Kill` and an exception (`OnceClearFails`) possible between any two, and `OnceRuns` when
everything is gone. `partial` remembers the cells whose removal was cut short. A stalled stream is
ended by the read time-out of the OpenAI clients (`ReadTimesOut`; `aiob_multiturn.py` 1130-1136,
`dsbench_multiturn.py` 1049-1053, `mlebench_multiturn.py` 1068-1071), which the models of the OSS
campaign are run with, and for the other driver by the time-out of the whole baseline.

### Streaming

One reply through one of the three wrappers, piece by piece, with the events it yields,
the rules the dispatcher fires and the hints it hands over. `Rebuild` is the runner's
reading of these events (`path_b_multiturn.py` 716-804). The Anthropic SDK is external:
it streams one block after the other. `Enabled` is the dispatcher's test (`client/dispatch.py`
60-63, 75): without a stager or rules, as in path_b (657, 664), it fires nothing, and
`NothingSlips` speaks of clients that have both, as the smoke runner's does. The pass-through mode
without a detector (`AGENTSTAGE_DETECTOR_DISABLED`) and streams that break off are left out.

## Runs

Every property of every passing run has a mutant: a plausible bug in one definition,
written next to it, under which TLC finds the property violated.

| run | bounds | what it shows |
|---|---|---|
| `stager_single` | 2 workers, capacity 3, files a (1 byte), b (planned 2, really 3) and a mirror of c left by an earlier process; copy, rename and eviction may fail; 1 restart | `NeverPartial`, `EveryJobOwnedOnce`, `ReservationExact`, `NoStrandedTmp`, and refinement of `Staging` with its fairness: every request is settled |
| `stager_tiered` | 6 paths: a symlink that is also a sidecar, one outside the cold roots, a missing one, one too large; primary cap 3; mkdir, copy and cleanup may fail; threads symmetric (no liveness here) | `PrimaryWithinCap`, `StagedStaysHot`, refinement of `Staging` (safety) |
| `stager_capacity_race` | violation | finding 1 |
| `stager_in_flight_eviction` | violation | finding 2 |
| `shim_tiered` | 1 thread, an archive-only file and a symlink to it, 1 spin turn, 2 rewrites, unlinks, hot calls may fail, restarts of the stager | `StagedIsServed`, `FoundStaysFound`, `CallsReturn`, `StaleOnlyIfExposed` |
| `shim_single` | 1 thread, a file (1 rewrite) and an archive-only one (2), unlinks, evictions at any time | `FailsOnlyIfColdFails`, `StaleOnlyIfExposed` |
| `session_loop` | path_b: 3 turns; benchmark scripts: 2 turns, 3 providers, baseline and staged, replay of each baseline; 3 rules, 5 paths | `HeardOnce`, `ActivationAudit`, `FiredIsHanded`, `MentionsAreStaged`, `OssCountsFilesOnce`, `ReplayFiresTheSame`, `RescoreFiresTheSame`, `ActivationsStable` |
| `session_atomic_scan` | violation | finding 3 |
| `streaming_events` | a client with a stager, 3 providers, 3 pieces, 2 tool positions, 3 rules | `EventsWellFormed`, `NothingIsLost`, `NothingSlips`, `OneHintPerRule`, `SessionKeepsThinking` |
| `campaign` | 2 cells (aiob, dsbench), 2 turns, 2 starts, either driver, either setting of `--skip-existing-baseline` | `SummaryDescribesTurns`, `OnceCellsAreClean`, `ScoresAgree`, `DoneStaysDone`, `CampaignEnds` |
| `codecs` | 8 archives of up to 2 members (larger or smaller than their content, wrapped, cut), ISIZE modulo 4, 2 files on the cold tier, 1 change by another process, any call may fail | `PresentIsFound`, `PlainIsPreferred`, `OverOnlyIfGuessed`, `ShortOnlyIfBelieved` |
| `campaign_clean_retry` | violation | finding 4 |

Why the bounds are enough to be interesting. Two workers and two requests make every
pair of steps of two jobs overlap; capacity 3 lets one of the files fit beside the mirror
that is left over and forces a sweep for both; that mirror makes eviction of a file nobody
reserved happen; one restart makes every table disappear at every point once, with two
processes' worth of jobs. The tiered run queues more jobs than it has workers. One tool thread
suffices because threads of the shim share
nothing: they meet only through the tiers, which change at any moment. Two versions
tell stale from fresh, and the archive's is a third; one spin turn gives the check before, the one inside and the
one that never comes. Two tokens in two blocks, three turns and a listing that adds a
path give each order of evidence, enrichment and mention; a killed tool beside one that
was not gives a replay something to leave out; two turns let a rule's evidence lie in two. Three
pieces interleave two tool calls, or thinking around a tool call, and cut a match in two.
Two cells let an orphan of one write while the other runs; two turns let an attempt end
earlier than the one before it; two starts are a kill and a resumption. Two files and one change
let an archive stand beside its target, or replace it during the search; the archives are one of
each kind that the estimate and the codecs tell apart.

`Session`, `Harness`, `Streaming`, `Campaign` and `Codecs` end, as sessions, streams, campaigns and
jobs do: their runs do not check deadlock. The stager and the shim never stop: a hint can always be
prefetched again and a call always be made.

### Fairness

`Stager`: weak fairness of the caller inside `prefetch` and of each worker thread. The
operating system schedules threads; nothing makes a caller prefetch or shut down.
`Shim`: weak fairness of each thread inside a call; no call has to be made, and the
stager owes nothing. `Campaign`: weak fairness of the steps of a session process that the
operating system or a timeout brings about (opening a turn, the end of a stream that is not
stalled, the read time-out of a stalled one under the OSS driver, the end or timeout of a shell
command, writing the summary), of the driver, and of the time-out of `llm_once_replay_twice.py`. The
client's time-out is a timer of its own process ("read=60s kills stuck streams"), so it is owed; a
server owes nothing. Nor does a process that escaped its shell, which is why `CampaignEnds` excepts it
(`Blocked`) for the driver that has no time-out of its own.
`Session`, `Harness`, `Streaming` and `Codecs` have only safety properties and no fairness.

## Findings

1. **The capacity cap can be exceeded** (`stager_capacity_race`). The scanned size is
   compared (`daemon.py` 358-360) long before the bytes are written; two workers
   both find room.
2. **An in-flight file can be evicted** (`stager_in_flight_eviction`). The snapshot of
   in-flight paths is older than the listing it filters.
3. **The atomic scan does not find the same rules** (`session_atomic_scan`). It misses
   matches that straddle two blocks, rules whose leftmost match is an old one, and
   boundaries that hold only at a prefix. The live dispatcher differs from the
   engine in the same way, and searches each block alone (`client/dispatch.py` 39-40).
4. **A retried cell is not clean** (`campaign_clean_retry`). `run_oss_campaign.sh` removes
   the summary of a crashed cell (67) and keeps its turn directories; if the retry ends in
   fewer turns, the old later ones remain and `blocks_from_turns` scores them as well. A cell
   that was scored after its crash also keeps those scores: `rescore_run` skips runs that
   have metrics (183).

A consequence that has no run, because no line of the repository speaks of it: `rmtree` cut short by
a kill or an exception can leave a done `summary.json` whose turns are gone, which a later start with
`--skip-existing-baseline` reuses (`llm_once_replay_twice.py` 180), or `detection_v1.json` without
the `byte_metrics_v1.json` it belongs to. `SummaryDescribesTurns` and `ScoresAgree` therefore except
cells whose removal was cut short; that nothing of an earlier attempt is mixed into a finished cell
(`OnceCellsAreClean`) holds for them too.

Differences between documents and code that were met and have no run: a truncated archive can be
placed, because gzip's reader stops without an error where a member ends and at the start of an
empty file (`codecs.py` 163-164 says "the codec raises", `tests/test_stager_codecs.py` 166 cuts inside a
member; bgzip's archives have many members); an ISIZE
smaller than the archive is no "proof of wraparound" (`codecs.py` 58-59), since archives of little or
incompressible data are larger than their content; on a shell's time-out `dsbench_multiturn.py` 324
(and `mlebench_multiturn.py`) kill bash and then wait for its pipes, which bash's children hold, so
the call need not return (1396 says "Per-shell-command timeout"; `aiob_multiturn.py` 433-441 kills the
group and has a comment about exactly this; `CampaignEnds` makes the exception, as `Blocked`); the engine's tier 1
is 20 files (`engine.py` 465) where `session.py` 179 and the runner say 10; `is_staged`
does not resolve symlinks and `hot_path_for` does (`daemon.py` 120, 142-147); Gemini and
OpenAI merge all text of a kind into one block, not only consecutive deltas (`gemini.py`
299-300); a staged file goes stale when it is written (`agentstage_shim.c` 394: writes pass to the
cold tier and the mirror stays), although `tests/test_stager.py` 382 says "we never serve stale or
partial data"; a basename is no needle if its only path is listed in two buckets (`engine.py` 334
counts per listing, 308 says "if unique across the prior"); `replay_session.py` 1 calls itself a
"1-1 trajectory replay", but all parts of a Gemini turn were logged as block 0, so the replay feeds
one block where the session fed many, and stamps tool results with the turn where the session
stamps the next one; `rescore.py` 49 says "Recall depends only on the detected set", but the
set itself depends on how blocks are joined: a rescore joins all of a turn's text of a kind and its
tool results, where a live Anthropic or Gemini session fed them apart, and `rescore.py` 195-196 says
"identical detected set" of its own scan, which runs another library of rules (177) than the benchmark
scripts' sessions did; `summary.json` that
was truncated by a kill is "[skip done]" for ever for `run_oss_campaign.sh`, and a JSON error that
ends `llm_once_replay_twice.py`; "one staging attempt" events (`report.py` 19) are missing when the hit's stat or
mkdir fails; `path_b_multiturn.py` writes the staging report (1101) before it shuts the
stager down (1105).

## Proofs

Every invariant and action property that a passing run checks is also proved, for all
values of the constants. What remains to TLC alone is liveness (`ImplementsStagingFairly`,
`CallsReturn`, `CampaignEnds`): it needs fairness and `ENABLED`, of which the prover knows
nothing.

`StagerProofs` and `StagerRefines` prove, for every finite set of paths and workers and every size,
capacity, symlink map and set of faults that `PathAssumption`, `ConfigAssumption` and
`NullAssumption` admit:

| theorem | statement |
|---|---|
| `TypeCorrect` | `Spec => []TypeOK` |
| `WholeFiles` | `Spec => []NeverPartial` |
| `NothingStranded` | `Spec => []NoStrandedTmp`, if removing a temp file cannot fail (`"unlink_tmp" \notin Fault`) |
| `OneOwner` | `Spec => []EveryJobOwnedOnce` |
| `StagedStays` | `Spec => []StagedStaysHot` |
| `Refinement` | `Spec => ImplementsStaging` |
| `ReservationsAreExact` | `Spec => []ReservationExact`, if mkdir cannot fail (`"mkdir" \notin Fault`) |
| `PrimaryStaysWithinCap` | `Spec => []PrimaryWithinCap`, if no artifact is larger than planned (`Real[p] <= Plan[p]`) |

The argument. `TypeOK` alone is not inductive: a thread's reads and writes go to the
target of its job, so it needs `JobOK` (a thread that is not idle has a path as its job); and
`need` stays a natural number only because of the sweep's early returns. `NeverPartial` is not
inductive either: a rename publishes whatever the temp file holds. The strengthening is
`CopyOK`: while a thread copies, its temp file is no longer than its source, and when it
renames, the file has all of its source's bytes. That no other thread can disturb this
rests on temp files being named after process and thread. `Typed` is the
conjunction of the three; `TypedStep` proves that every step keeps it. `NeverPartialStep` and
`NoStrandedTmpStep` need nothing but `Typed` and the invariant itself: `NoStrandedTmp` ties
each temp file to the root and target of its thread's present job. The
step lemmas have one case per action; sums of file sizes are cardinalities of
finite sets, which is why `ImageFinite`, `FileBytesFinite` and `ScanIsNat` come first.

`OneOwner` counts places in a queue, which no prover does well, so its invariant `Owned` says
the same without counting: queued keys are pending, no two places hold one key, a thread's key is
pending, queued nowhere and no other thread's, and a pending key is somewhere. `StagedStays`
needs three facts more: with two tiers no thread is ever in the sweep (`TierOK`), a thread that is
about to report has its whole mirror in place, and what is reported is whole (`PublishedOK`).
That two jobs may write one mirror does no harm because a rename replaces a whole file by a whole
one (`WholeStays`). `Refinement` maps every step: a submission is a `Request`, a rename is a
`Publish` (by `NotYetPublished`, which needs `ReportedLast`: a report is the last thing that
happens to a job, so an open one has none), an unlink of the sweep is a `Drop` on behalf
of the sweeping thread's own open request, `Done` is a `Settle`, a killed process is a `Restart`,
and everything else leaves the mapped state alone.

The two theorems about bytes rest on one fact, `OneFileChanges`: when one entry of a table of sizes
changes, the total changes by the difference. For `ReservationsAreExact` the table is what each
path owes (`Owed`): `Reserve` makes a debt, `Release` cancels it, `RecordStaged` moves it from the
thread to the report. That each of these touches one debt and no other is `OwnedStep` (no two
threads have one job) and `ReportedLast` (an open job has no report yet). A failed mkdir is excluded
because the code then leaves a debt without a debtor (see above). `PrimaryWithinCap` is not
inductive: the reservation comes before the bytes and outlives the temp file. `Covered` charges
each job that is under way on the primary with its planned size, and says that mirrors, charges and
litter together are at most what the counter and the inheritance allow. A temp file is bounded
by its charge (`CopyOK`, `CleanupOK`), a rename turns the charge into a mirror no larger, and
`ReservedWithinCap` is what `_pick_target_root` ensures. The run has `Plan` equal to `Real`; the theorem needs
only that estimates are not too small.

`ShimProofs` proves, for any paths, symlinks, threads, number of versions, length of the
spin and either tiering that `ShimAssumption` admits:

| theorem | statement |
|---|---|
| `TypeCorrect` | `Spec => []TypeOK` |
| `NoSpuriousFailure` | `Spec => FailsOnlyIfColdFails` |
| `ServedFromHot` | `Spec => []StagedIsServed` |
| `FoundAgain` | `Spec => FoundStaysFound` |
| `StaleOnlyWhereExposed` | `Spec => StaleOnlyIfExposed` |

The argument. `CallOK` (a thread inside a call has a path) makes `TypeOK` inductive. A hot
branch returns a version and a fault moves on, so only the read of the cold tier can
return nothing (`FailStepHolds`), which is `NoSpuriousFailure`. `StagedIsServed` speaks of
threads that are at the cold tier only; `ServedInv` says what brought them there: a
steady mirror stays visible, a thread that has passed the hot root without a fault has it in
the overflow root, and one that spins or is at the cold tier has seen a fault. `FoundAgain`
adds `KnownInv`: with two tiers a known path is on the cold tier or in a mirror, because
mirrors are never dropped, and a call about a path that is only in a mirror has had that mirror in
sight since it began. The spin's clock plays no part in these: they hold for
`SpinChecks = 0`. `StaleOnlyWhereExposed` needs `FreshInv`: the cold tier has the last version; mirrors are
named by real paths; a mirror of a file that was never exposed has its last version; an open
request for such a file can copy no older one, which is why a write exposes files with an open request
and not only those with a mirror; and an archive that stands without its plain file is the last version
until a tool writes that file (`ArchiveFresh`), which is why removing it exposes.

`CampaignProofs` proves, for any cells, order of cells, scripts, number of turns and number of
starts that `CampaignAssumption` admits:

| theorem | statement |
|---|---|
| `TypeCorrect` | `Spec => []TypeOK` |
| `SummariesHold` | `Spec => []SummaryDescribesTurns` |
| `CellsAreClean` | `Spec => []OnceCellsAreClean` |
| `ScoresPair` | `Spec => []ScoresAgree` |
| `FinishedStays` | `Spec => DoneStaysDone` |

The argument. A summary is written from what its process remembers, so what it says of the
disk has to hold before it is written: `Written` (the turns of every session alone in its
directory are there) and, for "once", `Clean` (nothing else is). A later session must not
disturb a finished cell: `Unfinished` says that a directory in which a session works alone has
no summary of a finished one, and `Apart` that two sessions in one directory is exactly what
`shared` records. `OssAlone` is why the OSS campaign needs no such exception: only a timeout
leaves an orphan, and the shell script has none. `StepKinds` sorts the steps into four kinds (a session
works, one begins, processes end or change hands, an entry of a cell is removed), and each kind keeps
the conjunction `Inv`. A removal makes its cell `partial` in the step that takes the first entry, so
`Written` and the agreement of the scores owe nothing while it is under way; `Clean` only bounds what is
there, and a removal only takes away. When a session begins, the cell is empty and no longer partial.

`CodecsProofs` proves, for any names, sizes, archives and faults that `CodecsAssumption` admits:

| theorem | statement |
|---|---|
| `TypeCorrect` | `Spec => []TypeOK` |
| `NothingMissed` | `Spec => []PresentIsFound` |
| `TargetFirst` | `Spec => []PlainIsPreferred` |
| `LongReservation` | `Spec => []OverOnlyIfGuessed` |
| `ShortReservation` | `Spec => []ShortOnlyIfBelieved` |

The argument. `PresentIsFound` is about the end of the search, so `Behind` says on the way that every
archive already probed was absent at some time, failed or cannot be used, and `Passed` that the
search only goes beyond a target that is not steadily there. What is claimed of sizes is about the file
that was read, which another process may since have replaced: `Estimated` and `Read` tie the plan
and the bytes to the cold tier as long as it has not changed.

`SessionProofs` proves of `Session` and `Harness` together, for any rules, words, texts, paths,
replies, numbers of turns, providers and recordings that `DetectorAssumption`, `SessionAssumption`
and `HarnessAssumption` admit:

| theorem | statement |
|---|---|
| `ReturnedOnce` | `HarnessSpec => []HeardOnce` |
| `Audit` | `HarnessSpec => []ActivationAudit` |
| `NothingFiredIsForgotten` | `HarnessSpec => []FiredIsHanded` |
| `MentionsReachTheStager` | `HarnessSpec => []MentionsAreStaged` |
| `FilesAreCountedOnce` | `HarnessSpec => []OssCountsFilesOnce` |
| `Stability` | `HarnessSpec => ActivationsStable` |
| `ReplayIsFaithful` | `HarnessSpec => []ReplayFiresTheSame` |
| `RescoreIsFaithful` | `HarnessSpec => []RescoreFiresTheSame` |

The argument. The detector is re-run on the whole transcript after each block; because the engine
is a left fold, a run over a longer transcript is the run so far and one more scan (`FoldAppend`).
So `Current` (the detector's lists are those of a run over all that was fed) is inductive, and
`Audited`, which a scan keeps, gives the audit and stability. `HandedOut` and `Mentioned` say what
has reached the stager, per script; that rules name no discovered bucket is why the enrichment of
the prior cannot change a rule's files. For replay and rescore, which rebuild blocks from logs,
only texts matter: which rules fire is a function `Read` of the sequence of the blocks'
texts. `History` says of a recording that is kept block by block that the live session's texts are
those of its log (`Recorded`), that the rules known after each turn are those its log prefix yields
(`Lived`), and that a replay has been fed a prefix of the log (`Repeated`). `Merging` says that an
OpenAI turn is recorded as the rescore joins it; joining it with one tool result or none then
yields the text that was fed. The hypotheses on the recording are those of the properties
(see Limits).

`StreamingProofs` proves, for any pieces, positions, rules, limits and lengths of reply that
`StreamingAssumption` admits:

| theorem | statement |
|---|---|
| `EventsLikeTheSDK` | `Spec => []EventsWellFormed` |
| `AllIsRebuilt` | `Spec => []NothingIsLost` |
| `NoMatchSlips` | `Spec => []NothingSlips` |
| `HandedOnce` | `Spec => []OneHintPerRule` |
| `SessionAgrees` | `Spec => []SessionKeepsThinking` |

The argument. Most of these speak of the message rebuilt from the events, which no action mentions.
`Rendered` says what the events yielded so far are in terms of the wrapper's blocks (one
start, then deltas that concatenate to the block's text, at most one stop), and implies that the
rebuilt message is the wrapper's own (`Rebuild` yields `blocks`). The rest is then about blocks:
`Open` (where the wrapper finds the block it appends to), `Stopped` (which blocks have stopped),
`Carried` (what was sent, per kind and per call, is what the blocks hold), `Heard` (a rule that
matches a thinking block fired, if there is a stager), `Stored`. Gemini's and OpenAI's merging of text of one kind into one block
keeps `Carried` because it is stated of each kind's text as a whole.

`FoldTheory` holds the induction that these need. A library theorem about an operator cannot be
cited, but a module can be instantiated with one: `FoldAppend` (a fold over one more element) and
`InductiveSeqs` (a set of sequences that contains the empty one and is closed under appending contains all) are
facts of such an instance. The recursion itself stays the library's `FoldLeft`. The proof
of `FiredIsHanded` also mattered to the model: the property's `CASE` had guards that
overlapped, so which promise applied to some sessions was left open; it is now an `IF`.

## Limits of the models

- One process at a time uses the hot root. Two stagers on it are not modelled.
- Symlinks lie outside the cold roots in the Shim runs. Inside them, the shim looks under
  the raw path and the stager puts the mirror under the resolved one: a miss, never a
  wrong answer.
- `PrimaryWithinCap` is checked where `Plan` equals `Real`, and proved where `Real` is at most `Plan`. A low estimate for a
  compressed file exceeds the cap by the error. It is a promise of one process: the counter
  starts at zero whatever an earlier process left. `ReservationExact` is checked and
  proved where mkdir succeeds.
- `FoundStaysFound` is a promise of two tiers. With one, the sweep can remove the
  only expanded copy of an archived file that a tool has already seen.
- Files do not change size under the copy; `StageEvent`'s sizes are not modelled.
- `MentionsAreStaged` speaks of files that exist from the start; the tools create none.
- `ReplayFiresTheSame` leaves out Gemini recordings and turns with a killed tool, and
  `RescoreFiresTheSame` is about `rescore_auto.py` and OpenAI sessions with at most one tool a
  turn: elsewhere the recording joins what the session fed apart, and the rules may differ (see
  above). It takes the workload that `get_workload` loads for the score to be the session's;
  tasks it does not know are not scored. The rules of `rescore.py` are not modelled.
  Re-executed tools return what was recorded.
- `STAGER_BUCKET_CAP`, which cuts a rule's files in aiob and the replay, is above every
  rule's number of files here, and `SKIP_PREFETCH_ISFILE_CHECK` has its default.
- In Campaign a directory is written turn by turn by one attempt, scoring happens between starts,
  and at most one session outlives its driver. A directory that two sessions were in at
  once (`shared`) is excepted from its invariants, which such a directory does break, and one whose
  removal was cut short (`partial`) from two of them. `rmtree` is modelled for the four kinds of
  entry that the models know; that it takes a crashed cell's errors silently
  (`llm_once_replay_twice.py` 186) before it clears again (60) adds nothing to that.
- Not modelled: storage discovery (opt-in, called by its tests alone: it measures mounts one
  after the other; two processes that probe one mount share a directory that either may remove, and the
  other then measures read-only); rules, auto rules and workloads (data, and pure functions
  that make it: constants of the models); byte metrics (ratios over fixed sets); the smoke
  runner (a composition of modelled parts without a state of its own); prompts, page-cache
  eviction and I/O accounting of the sessions; the scripts that analyse and draw
  finished results. These make up by far the most of the repository's lines, so the lines
  the models stand for are a small share of it: nearly all of the stager, the shim, the detector's scan,
  the session and the clients, and the loops of the scripts.

## Plan

1. Composition of Session with Staging (files made by tools, the report written before shutdown).
2. Two stager processes on one hot root.
3. The workloads' and capture scripts' own loops, where they differ from Harness's.
