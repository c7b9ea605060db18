------------------------------- MODULE Stager -------------------------------
(***************************************************************************)
(* The in-process stager (stager/daemon.py): a thread pool that copies     *)
(* cold files into a hot directory tree so that a preloaded shim can serve *)
(* them.  Callers submit paths under a lock; each worker thread runs one   *)
(* `_stage` job at a time.  A job's steps are cut exactly where another    *)
(* thread can see the difference: every acquisition of `_lock`, and every  *)
(* access to the file system.                                              *)
(*                                                                         *)
(* Paths are model values.  A file's content is its number of bytes, so a  *)
(* partial copy is a file with fewer bytes than its source.  The access    *)
(* times that order an LRU sweep belong to the mount (relatime, noatime)   *)
(* and to the tools that read hot files, so the sweep may take its         *)
(* candidates in any order.                                                *)
(***************************************************************************)
EXTENDS Integers, Sequences, FiniteSets

CONSTANTS
    Path,           \* normalised absolute paths a hint can name
    Managed,        \* those under one of cold_roots
    Canon,          \* Canon[p]: what Path(p).resolve() returns (symlinks)
    Missing,        \* canonical paths with no cold artifact to make them from
    Plan,           \* Plan[p]: StagePlan.size_bytes, the size reserved
    Real,           \* Real[p]: the bytes materialise() writes
    Companion,      \* Companion[p]: the sidecars companions(p) finds
    Hint,           \* detected_files of the hints that can be prefetched
    Worker,         \* the threads of the executor
    Capacity,       \* capacity_bytes
    HasOverflow,    \* hot_overflow_root is not None
    PrimaryCap,     \* hot_primary_capacity_bytes; NoCap when None
    LeftOver,       \* hot files an earlier process left under hot_root
    MaxRestarts,    \* bound: processes killed and started again
    Fault,          \* which file-system calls may fail
    NoFile, NoJob, NoCap

Root == {"hot_root", "overflow_root"}
FaultKind == {"mkdir", "copy", "rename", "unlink_tmp", "evict"}

ASSUME PathAssumption ==
    /\ Managed \subseteq Path
    /\ Missing \subseteq Path
    /\ LeftOver \subseteq Path
    /\ IsFiniteSet(Path)
    /\ Canon \in [Path -> Path]
    /\ Plan \in [Path -> Nat]
    /\ Real \in [Path -> Nat]
    /\ Companion \in [Path -> Seq(Path)]
    /\ Hint \subseteq Seq(Path)
ASSUME ConfigAssumption ==
    /\ Worker # {}
    /\ IsFiniteSet(Worker)
    /\ Capacity \in Nat
    /\ HasOverflow \in BOOLEAN
    /\ PrimaryCap \in Nat \cup {NoCap}
    /\ Fault \subseteq FaultKind
    /\ MaxRestarts \in Nat
ASSUME NullAssumption ==
    /\ NoFile \notin Int
    /\ NoCap \notin Int
    /\ NoJob \notin Path

VARIABLES
    todo,       \* the caller inside prefetch(): paths it still has to submit
    accepting,  \* the executor has not been shut down
    future,     \* _in_flight: "none", "pending", "result" or "exception"
    queue,      \* the executor's FIFO of accepted jobs
    used,       \* _primary_used_bytes
    hot,        \* hot[r][p]: bytes at p's mirror under root r, or NoFile
    tmp,        \* tmp[r][w][p]: bytes in worker w's temp file for p
    report,     \* report[p]: the StageEvents recorded for key p
    pc,         \* pc[w]: where worker w is in _stage
    job,        \* job[w]: the key worker w is staging
    root,       \* root[w]: the root of existing_hot, then target_root
    snap,       \* snap[w]: in_flight_hot_paths
    need,       \* need[w]: to_free - freed
    cand,       \* cand[w]: the eviction candidates not tried yet
    restarts,   \* processes started after the first one
    litter,     \* litter[r]: bytes in the temp files of dead processes
    inherited   \* history: the bytes this process found under hot_root

processVars == <<restarts, litter, inherited>>
callerVars == <<todo, accepting, processVars>>
poolVars   == <<future, queue>>
diskVars   == <<hot, tmp>>
sweepVars  == <<snap, need, cand>>
vars == <<todo, accepting, future, queue, used, hot, tmp, report,
          pc, job, root, snap, need, cand, restarts, litter, inherited>>

PC == {"idle", "probe", "hit", "resolve", "reserve", "ensure", "snapshot",
       "scan", "gather", "evict", "mkdir", "copy", "rename", "record",
       "cleanup", "release", "error", "return", "raise"}
Outcome == {"staged", "hit", "error", "skip_oversize"}
Event == [outcome: Outcome, root: Root]
FileSize == Nat \cup {NoFile}

-----------------------------------------------------------------------------
(***************************************************************************)
(* What a state says.                                                      *)
(***************************************************************************)
Exists(r, p) == hot[r][p] # NoFile

\* hot_path_for: the overflow mirror only when it alone holds the file.
HotRootFor(p) ==
    IF HasOverflow /\ Exists("overflow_root", p) /\ ~Exists("hot_root", p)
    THEN "overflow_root" ELSE "hot_root"

\* A plausible bug: the cap is compared with what is already reserved only.
PickIgnoringSize(size) ==
    IF used < PrimaryCap THEN "hot_root" ELSE "overflow_root"

\* _pick_target_root, evaluated under the lock.
PickTargetRoot(size) ==
    IF ~HasOverflow \/ PrimaryCap = NoCap THEN "hot_root"
    ELSE IF used + size <= PrimaryCap THEN "hot_root" ELSE "overflow_root"

FileBytes(name, size) == IF size = NoFile THEN {} ELSE {name} \X (1..size)

HotBytes(r) == UNION {FileBytes(p, hot[r][p]) : p \in Path}
TmpBytes(r) == UNION {FileBytes(t, tmp[r][t[1]][t[2]]) : t \in Worker \X Path}

\* _scan_used_bytes walks every file of the tree: the temp files of this
\* process and of earlier ones are included.
ScanUsedBytes(r) ==
    Cardinality(HotBytes(r)) + Cardinality(TmpBytes(r)) + litter[r]

\* A reservation is held from `reserve` until its bytes are published or
\* released.
Holding == {"ensure", "snapshot", "scan", "gather", "evict", "mkdir", "copy",
            "rename", "record", "cleanup", "release"}
Reserved(w) == IF root[w] = "hot_root" THEN Plan[Canon[job[w]]] ELSE 0

Init ==
    /\ todo = <<>>
    /\ accepting = TRUE
    /\ future = [p \in Path |-> "none"]
    /\ queue = <<>>
    /\ used = 0
    /\ hot = [r \in Root |-> [p \in Path |->
                IF r = "hot_root" /\ p \in LeftOver THEN Real[p] ELSE NoFile]]
    /\ tmp = [r \in Root |-> [w \in Worker |-> [p \in Path |-> NoFile]]]
    /\ report = [p \in Path |-> <<>>]
    /\ pc = [w \in Worker |-> "idle"]
    /\ job = [w \in Worker |-> NoJob]
    /\ root = [w \in Worker |-> "hot_root"]
    /\ snap = [w \in Worker |-> {}]
    /\ need = [w \in Worker |-> 0]
    /\ cand = [w \in Worker |-> {}]
    /\ restarts = 0
    /\ litter = [r \in Root |-> 0]
    /\ inherited = ScanUsedBytes("hot_root")

-----------------------------------------------------------------------------
Goto(w, from, to) == pc[w] = from /\ pc' = [pc EXCEPT ![w] = to]
Record(w, outcome) ==
    report' = [report EXCEPT ![job[w]] =
                 Append(@, [outcome |-> outcome, root |-> root[w]])]
Target(w) == Canon[job[w]]
TmpFile(w) == tmp[root[w]][w][Target(w)]
SetTmp(w, size) == tmp' = [tmp EXCEPT ![root[w]][w][Target(w)] = size]

(***************************************************************************)
(* Plausible bugs, each a variant of one definition below: the            *)
(* properties are checked to notice them.                                  *)
(***************************************************************************)
\* A key is deduplicated only once it has settled.
SubmitTwice ==
    /\ todo # <<>>
    /\ LET p == Head(todo).path
           again == /\ p \in Managed /\ accepting
                    /\ future[p] \in {"none", "pending"}
                    /\ Len(queue) < 3
       IN IF again
          THEN /\ future' = [future EXCEPT ![p] = "pending"]
               /\ queue' = Append(queue, p)
          ELSE UNCHANGED poolVars
    /\ todo' = Tail(todo)
    /\ UNCHANGED <<accepting, used, diskVars, report, pc, job, root, sweepVars,
                   processVars>>

\* The number of bytes to free is not clamped when the file fits.
ScanUnclamped(w) ==
    LET toFree == ScanUsedBytes("hot_root") + Plan[Target(w)] - Capacity IN
    /\ Goto(w, "scan", IF toFree <= 0 THEN "mkdir" ELSE "gather")
    /\ need' = [need EXCEPT ![w] = toFree]
    /\ UNCHANGED <<callerVars, poolVars, used, diskVars, report,
                   job, root, snap, cand>>

\* The out-of-space path forgets to give the reservation back.
OutOfSpaceLeaks(w) ==
    /\ cand[w] = {}
    /\ Goto(w, "evict", "error")
    /\ need' = [need EXCEPT ![w] = 0]
    /\ UNCHANGED <<callerVars, poolVars, used, diskVars, report,
                   job, root, snap, cand>>

\* A truncated source is taken for the end of the file.
CopyTruncated(w) ==
    /\ \/ /\ pc[w] = "copy"
          /\ TmpFile(w) < Real[Target(w)]
          /\ SetTmp(w, TmpFile(w) + 1)
          /\ UNCHANGED pc
       \/ Goto(w, "copy", "rename") /\ UNCHANGED tmp
    /\ UNCHANGED <<callerVars, poolVars, used, hot, report, job, root, sweepVars>>

\* A failed copy releases its reservation but leaves the temp file behind.
CopyStrands(w) ==
    /\ \/ /\ pc[w] = "copy"
          /\ TmpFile(w) < Real[Target(w)]
          /\ SetTmp(w, TmpFile(w) + 1)
          /\ UNCHANGED pc
       \/ Goto(w, "copy", "release") /\ UNCHANGED tmp
    /\ UNCHANGED <<callerVars, poolVars, used, hot, report, job, root, sweepVars>>

\* The rename always targets the primary root, wherever the bytes were routed.
RenameToPrimary(w) ==
    /\ Goto(w, "rename", "record")
    /\ hot' = [hot EXCEPT !["hot_root"][Target(w)] = TmpFile(w)]
    /\ SetTmp(w, NoFile)
    /\ UNCHANGED <<callerVars, poolVars, used, report, job, root, sweepVars>>

\* The exception escapes to the pool and the future is never resolved.
RecordErrorLost(w) ==
    /\ Goto(w, "error", "idle")
    /\ job' = [job EXCEPT ![w] = NoJob]
    /\ UNCHANGED <<callerVars, poolVars, used, diskVars, report, root, sweepVars>>

\* A job that raised is dropped from _in_flight so that it can be retried.
DoneForgets(w) ==
    /\ \/ /\ Goto(w, "return", "idle")
          /\ future' = [future EXCEPT ![job[w]] = "result"]
       \/ /\ Goto(w, "raise", "idle")
          /\ future' = [future EXCEPT ![job[w]] = "none"]
    /\ job' = [job EXCEPT ![w] = NoJob]
    /\ root' = [root EXCEPT ![w] = "hot_root"]
    /\ UNCHANGED <<callerVars, queue, used, diskVars, report, sweepVars>>

-----------------------------------------------------------------------------
(***************************************************************************)
(* The caller.  prefetch() submits every detected file and, after each,    *)
(* the sidecars found next to it; every submission takes the lock anew.    *)
(***************************************************************************)
Prefetch(files) ==
    /\ todo = <<>>
    /\ todo' = [i \in DOMAIN files |-> [path |-> files[i], primary |-> TRUE]]
    /\ UNCHANGED <<accepting, poolVars, used, diskVars, report,
                   pc, job, root, sweepVars, processVars>>

AfterSubmit ==
    LET item == Head(todo)
        sidecar == Companion[item.path]
    IN IF item.primary
       THEN [i \in DOMAIN sidecar |->
               [path |-> sidecar[i], primary |-> FALSE]] \o Tail(todo)
       ELSE Tail(todo)

\* _submit_one: None outside the cold roots, the existing future when the key
\* was ever submitted, a RuntimeError out of prefetch() after shutdown.
SubmitOne ==
    /\ todo # <<>>
    /\ LET p == Head(todo).path IN
       \/ /\ p \notin Managed \/ future[p] # "none"
          /\ todo' = AfterSubmit
          /\ UNCHANGED poolVars
       \/ /\ p \in Managed /\ future[p] = "none" /\ accepting
          /\ future' = [future EXCEPT ![p] = "pending"]
          /\ queue' = Append(queue, p)
          /\ todo' = AfterSubmit
       \/ /\ p \in Managed /\ future[p] = "none" /\ ~accepting
          /\ todo' = <<>>
          /\ UNCHANGED poolVars
    /\ UNCHANGED <<accepting, used, diskVars, report, pc, job, root, sweepVars,
                   processVars>>

\* shutdown(): nothing queued is cancelled.
Shutdown ==
    /\ todo = <<>> /\ accepting
    /\ accepting' = FALSE
    /\ UNCHANGED <<todo, poolVars, used, diskVars, report,
                   pc, job, root, sweepVars, processVars>>

-----------------------------------------------------------------------------
(***************************************************************************)
(* A worker thread, in the order of _stage.                                *)
(***************************************************************************)
\* The executor hands the oldest accepted job to a free thread.
Take(w) ==
    /\ queue # <<>>
    /\ Goto(w, "idle", "probe")
    /\ job' = [job EXCEPT ![w] = Head(queue)]
    /\ queue' = Tail(queue)
    /\ UNCHANGED <<callerVars, future, used, diskVars, report, root, sweepVars>>

\* existing_hot = hot_path_for(...); existing_hot.exists()
Probe(w) ==
    /\ Goto(w, "probe", IF Exists(HotRootFor(Target(w)), Target(w))
                        THEN "hit" ELSE "resolve")
    /\ root' = [root EXCEPT ![w] = HotRootFor(Target(w))]
    /\ UNCHANGED <<callerVars, poolVars, used, diskVars, report, job, sweepVars>>

\* existing_hot.stat() runs after exists(): if the file was evicted meanwhile
\* the FileNotFoundError leaves _stage and no event is recorded.
RecordHit(w) ==
    /\ \/ /\ Goto(w, "hit", "return")
          /\ Exists(root[w], Target(w))
          /\ Record(w, "hit")
       \/ /\ Goto(w, "hit", "raise")
          /\ ~Exists(root[w], Target(w))
          /\ UNCHANGED report
    /\ UNCHANGED <<callerVars, poolVars, used, diskVars, job, root, sweepVars>>

Resolve(w) ==
    /\ \/ /\ Goto(w, "resolve", "error")
          /\ Target(w) \in Missing
          /\ UNCHANGED report
       \/ /\ Goto(w, "resolve", "return")
          /\ Target(w) \notin Missing /\ Plan[Target(w)] > Capacity
          /\ Record(w, "skip_oversize")
       \/ /\ Goto(w, "resolve", "reserve")
          /\ Target(w) \notin Missing /\ Plan[Target(w)] <= Capacity
          /\ UNCHANGED report
    /\ UNCHANGED <<callerVars, poolVars, used, diskVars, job, root, sweepVars>>

\* with self._lock: the cap check and the reservation are one step.
Reserve(w) ==
    LET target == PickTargetRoot(Plan[Target(w)]) IN
    /\ Goto(w, "reserve", IF HasOverflow THEN "mkdir" ELSE "ensure")
    /\ root' = [root EXCEPT ![w] = target]
    /\ used' = IF target = "hot_root" THEN used + Plan[Target(w)] ELSE used
    /\ UNCHANGED <<callerVars, poolVars, diskVars, report, job, sweepVars>>

(***************************************************************************)
(* _ensure_capacity_for.  The fast path reads `used` without the lock; the *)
(* size is already in it, so the test counts it twice.                     *)
(***************************************************************************)
EnsureFast(w) ==
    /\ Goto(w, "ensure", IF used + 2 * Plan[Target(w)] <= Capacity
                         THEN "mkdir" ELSE "snapshot")
    /\ UNCHANGED <<callerVars, poolVars, used, diskVars, report,
                   job, root, sweepVars>>

\* with self._lock: the hot paths of the futures that are not done.
Snapshot(w) ==
    /\ Goto(w, "snapshot", "scan")
    /\ snap' = [snap EXCEPT ![w] =
                  {Canon[p] : p \in {q \in Path : future[q] = "pending"}}]
    /\ UNCHANGED <<callerVars, poolVars, used, diskVars, report,
                   job, root, need, cand>>

Scan(w) ==
    LET toFree == ScanUsedBytes("hot_root") + Plan[Target(w)] - Capacity IN
    /\ Goto(w, "scan", IF toFree <= 0 THEN "mkdir" ELSE "gather")
    /\ need' = [need EXCEPT ![w] = IF toFree <= 0 THEN 0 ELSE toFree]
    /\ UNCHANGED <<callerVars, poolVars, used, diskVars, report,
                   job, root, snap, cand>>

\* Completed hot files only: temp files and in-flight paths are skipped.
Gather(w) ==
    /\ Goto(w, "gather", "evict")
    /\ cand' = [cand EXCEPT ![w] =
                  {p \in Path : Exists("hot_root", p)} \ snap[w]]
    /\ snap' = [snap EXCEPT ![w] = {}]
    /\ UNCHANGED <<callerVars, poolVars, used, diskVars, report,
                   job, root, need>>

\* The locals of the sweep die when it returns.
Swept(w) == need' = [need EXCEPT ![w] = 0] /\ cand' = [cand EXCEPT ![w] = {}]

\* path.unlink(); freed += size; stop once enough is freed.
EvictOne(w) ==
    /\ pc[w] = "evict"
    /\ \E p \in cand[w] :
         \/ /\ Exists("hot_root", p)
            /\ hot' = [hot EXCEPT !["hot_root"][p] = NoFile]
            /\ IF hot["hot_root"][p] >= need[w]
               THEN Goto(w, "evict", "mkdir") /\ Swept(w)
               ELSE /\ need' = [need EXCEPT ![w] = @ - hot["hot_root"][p]]
                    /\ cand' = [cand EXCEPT ![w] = @ \ {p}]
                    /\ UNCHANGED pc
         \/ /\ ~Exists("hot_root", p) \/ "evict" \in Fault
            /\ cand' = [cand EXCEPT ![w] = @ \ {p}]
            /\ UNCHANGED <<hot, need, pc>>
    /\ UNCHANGED <<callerVars, poolVars, used, tmp, report, job, root, snap>>

\* raise StagerOutOfSpace, caught in _stage.
OutOfSpace(w) ==
    /\ cand[w] = {}
    /\ Goto(w, "evict", "release")
    /\ Swept(w)
    /\ UNCHANGED <<callerVars, poolVars, used, diskVars, report, job, root, snap>>

\* parent.mkdir() is outside the try block: its failure leaves _stage with
\* the reservation still held and no event.  Otherwise the temp file is opened.
MkdirAndOpen(w) ==
    /\ \/ Goto(w, "mkdir", "copy") /\ SetTmp(w, 0)
       \/ "mkdir" \in Fault /\ Goto(w, "mkdir", "raise") /\ UNCHANGED tmp
    /\ UNCHANGED <<callerVars, poolVars, used, hot, report, job, root, sweepVars>>

\* materialise(plan, tmp), one byte at a time, until the source is exhausted.
Copy(w) ==
    /\ \/ /\ pc[w] = "copy"
          /\ TmpFile(w) < Real[Target(w)]
          /\ SetTmp(w, TmpFile(w) + 1)
          /\ UNCHANGED pc
       \/ /\ Goto(w, "copy", "rename")
          /\ TmpFile(w) = Real[Target(w)]
          /\ UNCHANGED tmp
       \/ /\ Goto(w, "copy", "cleanup")
          /\ "copy" \in Fault
          /\ UNCHANGED tmp
    /\ UNCHANGED <<callerVars, poolVars, used, hot, report, job, root, sweepVars>>

\* os.rename(tmp, hot_path)
Rename(w) ==
    /\ \/ /\ Goto(w, "rename", "record")
          /\ hot' = [hot EXCEPT ![root[w]][Target(w)] = TmpFile(w)]
          /\ SetTmp(w, NoFile)
       \/ /\ "rename" \in Fault
          /\ Goto(w, "rename", "cleanup")
          /\ UNCHANGED diskVars
    /\ UNCHANGED <<callerVars, poolVars, used, report, job, root, sweepVars>>

RecordStaged(w) ==
    /\ Goto(w, "record", "return")
    /\ Record(w, "staged")
    /\ UNCHANGED <<callerVars, poolVars, used, diskVars, job, root, sweepVars>>

\* except Exception: tmp.unlink(missing_ok=True), an OSError is swallowed.
Cleanup(w) ==
    /\ Goto(w, "cleanup", "release")
    /\ \/ SetTmp(w, NoFile)
       \/ "unlink_tmp" \in Fault /\ UNCHANGED tmp
    /\ UNCHANGED <<callerVars, poolVars, used, hot, report, job, root, sweepVars>>

\* with self._lock: self._primary_used_bytes -= reserved_primary
Release(w) ==
    /\ Goto(w, "release", "error")
    /\ used' = used - Reserved(w)
    /\ UNCHANGED <<callerVars, poolVars, diskVars, report, job, root, sweepVars>>

RecordError(w) ==
    /\ Goto(w, "error", "return")
    /\ Record(w, "error")
    /\ UNCHANGED <<callerVars, poolVars, used, diskVars, job, root, sweepVars>>

\* _stage returned or raised: the future is done and the thread is free.
Done(w) ==
    /\ \/ /\ Goto(w, "return", "idle")
          /\ future' = [future EXCEPT ![job[w]] = "result"]
       \/ /\ Goto(w, "raise", "idle")
          /\ future' = [future EXCEPT ![job[w]] = "exception"]
    /\ job' = [job EXCEPT ![w] = NoJob]
    /\ root' = [root EXCEPT ![w] = "hot_root"]
    /\ UNCHANGED <<callerVars, queue, used, diskVars, report, sweepVars>>

Stage(w) ==
    \/ Take(w) \/ Probe(w) \/ RecordHit(w) \/ Resolve(w) \/ Reserve(w)
    \/ EnsureFast(w) \/ Snapshot(w) \/ Scan(w) \/ Gather(w) \/ EvictOne(w)
    \/ OutOfSpace(w) \/ MkdirAndOpen(w) \/ Copy(w) \/ Rename(w)
    \/ RecordStaged(w) \/ Cleanup(w) \/ Release(w) \/ RecordError(w) \/ Done(w)

(***************************************************************************)
(* The process is killed, or exits, and another one is started on the same *)
(* roots.  __init__ makes the directories if need be and removes nothing;  *)
(* every table is in memory.  The new temp files have another pid in their *)
(* names.                                                                  *)
(***************************************************************************)
Restart ==
    /\ restarts < MaxRestarts
    /\ restarts' = restarts + 1
    /\ litter' = [r \in Root |-> litter[r] + Cardinality(TmpBytes(r))]
    /\ inherited' = ScanUsedBytes("hot_root")
    /\ todo' = <<>>
    /\ accepting' = TRUE
    /\ future' = [p \in Path |-> "none"]
    /\ queue' = <<>>
    /\ used' = 0
    /\ tmp' = [r \in Root |-> [w \in Worker |-> [p \in Path |-> NoFile]]]
    /\ report' = [p \in Path |-> <<>>]
    /\ pc' = [w \in Worker |-> "idle"]
    /\ job' = [w \in Worker |-> NoJob]
    /\ root' = [w \in Worker |-> "hot_root"]
    /\ snap' = [w \in Worker |-> {}]
    /\ need' = [w \in Worker |-> 0]
    /\ cand' = [w \in Worker |-> {}]
    /\ UNCHANGED hot

Next ==
    \/ \E files \in Hint : Prefetch(files)
    \/ SubmitOne
    \/ Shutdown
    \/ Restart
    \/ \E w \in Worker : Stage(w)

\* The operating system schedules the caller inside prefetch() and every pool
\* thread; nothing makes the caller prefetch again or shut down.
Fairness == WF_vars(SubmitOne) /\ \A w \in Worker : WF_vars(Stage(w))

Spec == Init /\ [][Next]_vars /\ Fairness
=============================================================================
