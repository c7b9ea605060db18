-------------------------------- MODULE Shim --------------------------------
(***************************************************************************)
(* The LD_PRELOAD shim (stager/shim/agentstage_shim.c) in the threads of a *)
(* tool, over the hot tier that the stager fills and sweeps meanwhile.     *)
(* The stager is present as its abstract specification, Staging: every     *)
(* mirror that appears or vanishes does so by one of Staging's actions.    *)
(*                                                                         *)
(* A file's content is a version number: cold files start at version 1 and *)
(* every write makes the next one; a path in Archived has a compressed     *)
(* form on the cold tier, whose expanded bytes are version 0, and at first *)
(* no plain file, which the stager prefers once a tool has written one.    *)
(* A call's steps are its file-system calls, each of which other threads   *)
(* and the stager may come between.                                        *)
(***************************************************************************)
EXTENDS Integers, FiniteSets

CONSTANTS
    Path,           \* absolute paths a tool can name
    Managed,        \* those under one of AGENTSTAGE_COLD_ROOTS
    Canon,          \* Canon[p]: realpath(p)
    HasOverflow,    \* AGENTSTAGE_HOT_OVERFLOW is set
    Archived,       \* canonical paths with a compressed file beside them
    Thread,         \* threads of the preloaded tools
    SpinChecks,     \* how many 0.5 ms sleeps fit in AGENTSTAGE_RETRY_SPIN_MS
    HotFault,       \* a hot path may fail with another errno than ENOENT
    MaxVersion,     \* bound: versions the model lets a tool write
    NoFile

ASSUME ShimAssumption ==
    /\ Managed \subseteq Path
    /\ Archived \subseteq Managed
    /\ Canon \in [Path -> Path]
    /\ \A p \in Path : Canon[Canon[p]] = Canon[p]
    /\ \A p \in Archived : Canon[p] = p
    /\ HasOverflow \in BOOLEAN
    /\ HotFault \in BOOLEAN
    /\ SpinChecks \in Nat
    /\ MaxVersion \in Nat \ {0}
    /\ NoFile \notin Nat \cup Path

VARIABLES
    requested, settled, published, mirror,  \* of Staging
    copied,     \* copied[r][p]: the version in p's mirror under root r
    copyable,   \* copyable[p]: the versions a copy requested as p may read
    cold,       \* cold[p]: the version on the cold tier, or NoFile
    latest,     \* latest[p]: the last version anyone wrote
    exposed,    \* history: p was mirrored or being staged when last written, or
                \* its plain file is gone and its older archive stands again
    pc,         \* pc[t]: where thread t is in the shim
    op, path,   \* op[t], path[t]: its call, "none" and NoFile between calls
    checks,     \* checks[t]: rechecks done by open_hot_with_spin
    got,        \* got[t]: the version its last call found, or NoFile
    known,      \* history: the paths t has found and nobody has unlinked
    steady,     \* history: a mirror t can see was there since its call began
    faulted     \* history: a hot file-system call failed t's call

tierVars == <<requested, settled, published, mirror, copied, copyable>>
coldVars == <<cold, latest, exposed>>
callVars == <<op, path, checks, steady, faulted>>
vars == <<requested, settled, published, mirror, copied, copyable, cold, latest,
          exposed, pc, op, path, checks, got, known, steady, faulted>>

Tier == INSTANCE Staging

Root == {"hot_root", "overflow_root"}
Version == 0..MaxVersion

-----------------------------------------------------------------------------
\* under_managed_cold_root_resolved: the raw path when it has a cold root as
\* prefix, else its realpath, which needs the file to exist.
Key(p) == IF p \in Managed THEN p ELSE Canon[p]
Redirected(p) ==
    p \in Managed \/ (cold[Canon[p]] # NoFile /\ Canon[p] \in Managed)

\* build_overflow_path is used only when an overflow root is configured.
Visible(p) ==
    Key(p) \in mirror["hot_root"] \/ (HasOverflow /\ Key(p) \in mirror["overflow_root"])

Init ==
    /\ Tier!Init
    /\ mirror["hot_root"] \subseteq {Canon[p] : p \in Managed}
    /\ mirror["overflow_root"] = {}
    /\ latest = [p \in Path |-> IF p \in Archived THEN 0 ELSE 1]
    /\ cold = [p \in Path |-> IF p \in Archived THEN NoFile ELSE 1]
    /\ exposed = [p \in Path |-> FALSE]
    /\ copied = [r \in Root |-> latest]
    /\ copyable = [p \in Path |-> {}]
    /\ pc = [t \in Thread |-> "idle"]
    /\ op = [t \in Thread |-> "none"]
    /\ path = [t \in Thread |-> NoFile]
    /\ checks = [t \in Thread |-> 0]
    /\ got = [t \in Thread |-> NoFile]
    /\ known = [t \in Thread |-> {}]
    /\ steady = [t \in Thread |-> FALSE]
    /\ faulted = [t \in Thread |-> FALSE]

-----------------------------------------------------------------------------
(***************************************************************************)
(* The stager, seen from the tool.                                         *)
(***************************************************************************)
\* A plausible bug: archives are probed before the plain file.
ArchiveFirst(c) == IF c \in Archived THEN {0} ELSE {v \in {cold[c]} : v # NoFile}

\* What resolve finds for canonical path c: the plain file first, else the
\* archive, else nothing until a tool writes one.
Resolvable(c) ==
    IF cold[c] # NoFile THEN {cold[c]} ELSE {v \in {0} : c \in Archived}

\* The requests whose copy may come to read canonical path c from now on.
Awaiting(c) == {q \in Tier!Open : Canon[q] = c}

\* A plausible bug: the bytes may come from a cache older than the request.
RequestCached(p) ==
    /\ Tier!Request(p)
    /\ copyable' = [copyable EXCEPT ![p] = 0..latest[Canon[p]]]
    /\ UNCHANGED <<copied, coldVars, pc, callVars, got, known>>

\* The copy will read what is on the cold tier now, or what comes to stand
\* there while the request is open.
TierRequest(p) ==
    /\ Tier!Request(p)
    /\ copyable' = [copyable EXCEPT ![p] = Resolvable(Canon[p])]
    /\ UNCHANGED <<copied, coldVars, pc, callVars, got, known>>

TierPublish(p, r) ==
    /\ Tier!Publish(p, r)
    /\ \E v \in copyable[p] : copied' = [copied EXCEPT ![r][Canon[p]] = v]
    /\ UNCHANGED <<copyable, coldVars, pc, callVars, got, known>>

TierSettle(p) ==
    /\ Tier!Settle(p)
    /\ copyable' = [copyable EXCEPT ![p] = {}]
    /\ UNCHANGED <<copied, coldVars, pc, callVars, got, known>>

TierRestart ==
    /\ Tier!Restart
    /\ copyable' = [p \in Path |-> {}]
    /\ UNCHANGED <<copied, coldVars, pc, callVars, got, known>>

TierDrop(p) ==
    /\ Tier!Drop(p)
    /\ steady' = [t \in Thread |-> steady[t] /\ Key(path[t]) # p]
    /\ UNCHANGED <<copied, copyable, coldVars, pc, op, path, checks, faulted, got, known>>

-----------------------------------------------------------------------------
(***************************************************************************)
(* Calls that pass through: anything opened for writing, creat, access     *)
(* with W_OK; and unlink, which the shim does not intercept.  They touch   *)
(* the cold tier only, so it does not matter which process makes them.     *)
(***************************************************************************)
\* Version v comes to stand for canonical path c; an open request may read it.
Stands(c, v) ==
    /\ copyable' = [q \in Path |->
                      IF q \in Awaiting(c) THEN copyable[q] \cup {v} ELSE copyable[q]]
    /\ UNCHANGED <<requested, settled, published, mirror, copied>>

Write(p) ==
    LET c == Canon[p] IN
    /\ latest[c] < MaxVersion
    /\ latest' = [latest EXCEPT ![c] = @ + 1]
    /\ cold' = [cold EXCEPT ![c] = latest[c] + 1]
    /\ exposed' = [exposed EXCEPT ![c] =
                     Awaiting(c) # {} \/ \E r \in Root : c \in mirror[r]]
    /\ Stands(c, latest[c] + 1)
    /\ UNCHANGED <<pc, callVars, got, known>>

UnlinkFile(p) ==
    /\ Canon[p] = p /\ cold[p] # NoFile
    /\ cold' = [cold EXCEPT ![p] = NoFile]
    /\ known' = [t \in Thread |-> {q \in known[t] : Canon[q] # p}]
    /\ UNCHANGED <<latest, pc, callVars, got>>

\* Where an archive is beside it, the resolver falls back on the archive.
Unlink(p) ==
    /\ UnlinkFile(p)
    /\ \/ p \notin Archived /\ UNCHANGED <<tierVars, exposed>>
       \/ p \in Archived /\ Stands(p, 0) /\ exposed' = [exposed EXCEPT ![p] = TRUE]

(***************************************************************************)
(* open/openat/fopen for reading, and stat/lstat/fstatat/access/faccessat. *)
(***************************************************************************)
Call(t, what, p) ==
    /\ pc[t] = "idle"
    /\ pc' = [pc EXCEPT ![t] = IF Redirected(p) THEN "hot" ELSE "cold"]
    /\ op' = [op EXCEPT ![t] = what]
    /\ path' = [path EXCEPT ![t] = p]
    /\ steady' = [steady EXCEPT ![t] = Redirected(p) /\ Visible(p)]
    /\ UNCHANGED <<tierVars, coldVars, checks, faulted, got, known>>

Goto(t, from, to) == pc[t] = from /\ pc' = [pc EXCEPT ![t] = to]

Return(t, v) ==
    /\ pc' = [pc EXCEPT ![t] = "idle"]
    /\ got' = [got EXCEPT ![t] = v]
    /\ known' = [known EXCEPT ![t] = IF v = NoFile THEN @ ELSE @ \cup {path[t]}]
    /\ op' = [op EXCEPT ![t] = "none"]
    /\ path' = [path EXCEPT ![t] = NoFile]
    /\ checks' = [checks EXCEPT ![t] = 0]
    /\ steady' = [steady EXCEPT ![t] = FALSE]
    /\ faulted' = [faulted EXCEPT ![t] = FALSE]

\* Where a miss on the last root leads: only opens spin.
AfterMiss(t) == IF op[t] = "open" THEN "spin" ELSE "cold"

(***************************************************************************)
(* Plausible bugs, each a variant of one definition below.                 *)
(***************************************************************************)
\* An open that misses the hot root spins without looking in the overflow.
CheckHotOnly(t) ==
    /\ \/ /\ pc[t] = "hot"
          /\ Key(path[t]) \in mirror["hot_root"]
          /\ Return(t, copied["hot_root"][Key(path[t])])
       \/ /\ Goto(t, "hot", AfterMiss(t))
          /\ Key(path[t]) \notin mirror["hot_root"]
          /\ UNCHANGED <<callVars, got, known>>
    /\ UNCHANGED <<tierVars, coldVars>>

\* The stat family redirects to the hot root only.
StatSkipsOverflow(t) ==
    /\ \/ /\ pc[t] = "overflow" /\ op[t] = "open"
          /\ Key(path[t]) \in mirror["overflow_root"]
          /\ Return(t, copied["overflow_root"][Key(path[t])])
       \/ /\ Goto(t, "overflow", AfterMiss(t))
          /\ op[t] = "stat" \/ Key(path[t]) \notin mirror["overflow_root"]
          /\ UNCHANGED <<callVars, got, known>>
    /\ UNCHANGED <<tierVars, coldVars>>

\* A hot failure other than ENOENT is returned to the caller.
FaultSurfaces(t) ==
    /\ HotFault
    /\ pc[t] \in {"hot", "overflow"}
    /\ Return(t, NoFile)
    /\ UNCHANGED <<tierVars, coldVars>>

\* The clock is read again on every turn of the loop.
SpinForever(t) ==
    /\ Goto(t, "spin", IF SpinChecks > 0 THEN "hot" ELSE "cold")
    /\ UNCHANGED <<tierVars, coldVars, callVars, got, known>>

\* One turn too many.
SpinOffByOne(t) ==
    /\ \/ /\ checks[t] <= SpinChecks
          /\ Goto(t, "spin", "hot")
          /\ checks' = [checks EXCEPT ![t] = @ + 1]
       \/ Goto(t, "spin", "cold") /\ UNCHANGED checks
    /\ UNCHANGED <<tierVars, coldVars, op, path, steady, faulted, got, known>>

-----------------------------------------------------------------------------
\* real_openat / real_stat of the hot path.  ENOENT moves on to the overflow.
CheckHot(t) ==
    /\ \/ /\ pc[t] = "hot"
          /\ Key(path[t]) \in mirror["hot_root"]
          /\ Return(t, copied["hot_root"][Key(path[t])])
       \/ /\ Goto(t, "hot", IF HasOverflow THEN "overflow" ELSE AfterMiss(t))
          /\ Key(path[t]) \notin mirror["hot_root"]
          /\ UNCHANGED <<callVars, got, known>>
    /\ UNCHANGED <<tierVars, coldVars>>

CheckOverflow(t) ==
    /\ \/ /\ pc[t] = "overflow"
          /\ Key(path[t]) \in mirror["overflow_root"]
          /\ Return(t, copied["overflow_root"][Key(path[t])])
       \/ /\ Goto(t, "overflow", AfterMiss(t))
          /\ Key(path[t]) \notin mirror["overflow_root"]
          /\ UNCHANGED <<callVars, got, known>>
    /\ UNCHANGED <<tierVars, coldVars>>

\* Any other errno ends an open's redirection, but not a stat's.
HotFails(t) ==
    /\ HotFault
    /\ \/ /\ op[t] = "open"
          /\ \E from \in {"hot", "overflow"} : Goto(t, from, "cold")
       \/ /\ op[t] = "stat"
          /\ \/ Goto(t, "hot", IF HasOverflow THEN "overflow" ELSE "cold")
             \/ Goto(t, "overflow", "cold")
    /\ faulted' = [faulted EXCEPT ![t] = TRUE]
    /\ UNCHANGED <<tierVars, coldVars, op, path, checks, steady, got, known>>

\* while (elapsed_ms(&start) < retry_spin_ms) nanosleep(0.5 ms): at most
\* SpinChecks turns, fewer when the thread is scheduled late.
Spin(t) ==
    /\ \/ /\ checks[t] < SpinChecks
          /\ Goto(t, "spin", "hot")
          /\ checks' = [checks EXCEPT ![t] = @ + 1]
       \/ Goto(t, "spin", "cold") /\ UNCHANGED checks
    /\ UNCHANGED <<tierVars, coldVars, op, path, steady, faulted, got, known>>

\* The fall-through: the real call on the path the tool gave.
ReadCold(t) ==
    /\ pc[t] = "cold"
    /\ Return(t, cold[Canon[path[t]]])
    /\ UNCHANGED <<tierVars, coldVars>>

InCall(t) ==
    CheckHot(t) \/ CheckOverflow(t) \/ HotFails(t) \/ Spin(t) \/ ReadCold(t)

Next ==
    \/ \E p \in Path : TierRequest(p) \/ TierSettle(p) \/ TierDrop(p)
    \/ \E p \in Path, r \in Root : TierPublish(p, r)
    \/ TierRestart
    \/ \E p \in Path : Write(p) \/ Unlink(p)
    \/ \E t \in Thread, p \in Path, what \in {"open", "stat"} : Call(t, what, p)
    \/ \E t \in Thread : InCall(t)

\* A thread inside the shim keeps running; no tool has to make a call and the
\* stager owes nothing.
Spec == Init /\ [][Next]_vars /\ \A t \in Thread : WF_vars(InCall(t))

-----------------------------------------------------------------------------
(***************************************************************************)
(* Properties.                                                             *)
(***************************************************************************)
\* Every variable has its type; a mirror only exists for a managed path.
TypeOK ==
    /\ Tier!Open \subseteq Managed /\ settled \subseteq Managed
    /\ mirror \in [Root -> SUBSET Path]
    /\ copied \in [Root -> [Path -> Version]]
    /\ copyable \in [Path -> SUBSET Version]
    /\ cold \in [Path -> Version \cup {NoFile}]
    /\ latest \in [Path -> Version]
    /\ exposed \in [Path -> BOOLEAN]
    /\ pc \in [Thread -> {"idle", "hot", "overflow", "spin", "cold"}]
    /\ op \in [Thread -> {"none", "open", "stat"}]
    /\ path \in [Thread -> Path \cup {NoFile}]
    /\ checks \in [Thread -> 0..SpinChecks]
    /\ got \in [Thread -> Version \cup {NoFile}]
    /\ known \in [Thread -> SUBSET Path]
    /\ steady \in [Thread -> BOOLEAN]
    /\ faulted \in [Thread -> BOOLEAN]

\* Thread t's call ends in this step.
Returns(t) == pc[t] # "idle" /\ pc'[t] = "idle"

\* Whatever the stager drops and however the hot tier fails, a call fails only
\* if, when it fails, the file is really absent from the cold tier.
FailsOnlyIfColdFails ==
    [][\A t \in Thread :
          Returns(t) /\ got'[t] = NoFile => cold[Canon[path[t]]] = NoFile]_vars

\* A call does not go to the cold tier if a mirror it looks for was there from
\* the call's first step on, unless the hot tier itself failed.
StagedIsServed ==
    \A t \in Thread : steady[t] /\ pc[t] = "cold" => faulted[t]

\* With two tiers a file a thread has once found under a cold root stays there
\* for it until it is unlinked, even a file that no cold path stands for.
FoundStaysFound ==
    [][\A t \in Thread :
          HasOverflow /\ Returns(t) /\ path[t] \in known[t] \cap Managed
            => got'[t] # NoFile \/ faulted[t]]_vars

\* Every call returns: the spin ends although the mirror never appears.
CallsReturn == \A t \in Thread : pc[t] # "idle" ~> pc[t] = "idle"

\* What a call finds is the last version written, unless the file had a mirror
\* or was being staged when that version was written, or its plain file has
\* been removed since and an archive is beside it: a write goes to the cold
\* tier alone and a mirror made earlier keeps its bytes, but nothing staged
\* after the write, from the file or from an archive, is out of date.
StaleOnlyIfExposed ==
    [][\A t \in Thread :
          Returns(t) /\ got'[t] # NoFile /\ ~exposed[Canon[path[t]]]
            => got'[t] = latest[Canon[path[t]]]]_vars
=============================================================================
