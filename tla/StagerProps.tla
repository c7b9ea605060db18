---------------------------- MODULE StagerProps ----------------------------
(***************************************************************************)
(* What the stager promises, stated over Stager's variables.  The promises *)
(* come from the class docstring of Stager and the comments in _stage; the *)
(* ones the code does not keep are grouped at the end.                     *)
(***************************************************************************)
EXTENDS Stager

\* The type of every variable; a negative `used` is allowed here and excluded
\* by ReservationExact.
Item == [path : Path, primary : BOOLEAN]
TypeOK ==
    /\ todo \in Seq(Item)
    /\ accepting \in BOOLEAN
    /\ future \in [Path -> {"none", "pending", "result", "exception"}]
    /\ queue \in Seq(Path)
    /\ used \in Int
    /\ hot \in [Root -> [Path -> FileSize]]
    /\ tmp \in [Root -> [Worker -> [Path -> FileSize]]]
    /\ report \in [Path -> Seq(Event)]
    /\ pc \in [Worker -> PC]
    /\ job \in [Worker -> Path \cup {NoJob}]
    /\ root \in [Worker -> Root]
    /\ snap \in [Worker -> SUBSET Path]
    /\ need \in [Worker -> Nat]
    /\ cand \in [Worker -> SUBSET Path]
    /\ restarts \in Nat
    /\ litter \in [Root -> Nat]
    /\ inherited \in Nat

-----------------------------------------------------------------------------
\* A mirror either does not exist or holds all the bytes of its source,
\* whatever copies, failures and sweeps are under way (daemon.py: "never a
\* partial file").
NeverPartial ==
    \A r \in Root, p \in Path : hot[r][p] \in {NoFile, Real[p]}

\* A job that is accepted is in exactly one place: once in the queue or in the
\* hands of one thread, until its future is done.  So no key is staged twice,
\* none is lost, and no thread works on a settled key.
Queued(p) == {i \in DOMAIN queue : queue[i] = p}
Holders(p) == {w \in Worker : job[w] = p}
EveryJobOwnedOnce ==
    \A p \in Path : Cardinality(Queued(p)) + Cardinality(Holders(p))
                      = IF future[p] = "pending" THEN 1 ELSE 0

\* _primary_used_bytes is exactly the bytes reserved by the jobs under way
\* plus those of the jobs reported staged under hot_root: every failure path
\* gives its reservation back, mkdir() excepted: it runs outside the try block.
StagedAt(p, r) == [outcome |-> "staged", root |-> r] \in
                    {report[p][i] : i \in DOMAIN report[p]}
Owed == {p \in Path : StagedAt(p, "hot_root")} \cup
        {job[w] : w \in {v \in Worker : pc[v] \in Holding /\ root[v] = "hot_root"}}
PlanBytes(S) == UNION {{p} \X (1..Plan[Canon[p]]) : p \in S}
ReservationExact == used = Cardinality(PlanBytes(Owed))

Writing(w, r, p) ==
    pc[w] \in {"copy", "rename", "cleanup"} /\ root[w] = r /\ Target(w) = p

\* A temp file exists only while its own thread is writing, renaming or
\* removing it: none is stranded when a job ends.
NoStrandedTmp ==
    \A r \in Root, w \in Worker, p \in Path :
        tmp[r][w][p] # NoFile => Writing(w, r, p)

\* A process never puts more bytes on the primary tier, temp files included,
\* than its cap allows: routing enforces it although it never looks at the
\* disk.  The cap is per process (_primary_used_bytes starts at zero, whatever
\* an earlier one left there), and a temp file that could not be removed is no
\* longer reserved for.
Stranded(r) == UNION {FileBytes(t, tmp[r][t[1]][t[2]]) :
                        t \in {u \in Worker \X Path : ~Writing(u[1], r, u[2])}}
PrimaryWithinCap ==
    HasOverflow /\ PrimaryCap # NoCap =>
        ScanUsedBytes("hot_root") - Cardinality(Stranded("hot_root"))
            <= PrimaryCap + inherited

\* With two tiers there is no eviction: what a report calls staged stays hot.
StagedStaysHot ==
    HasOverflow => \A p \in Path, r \in Root :
        StagedAt(p, r) => hot[r][Canon[p]] = Real[Canon[p]]

\* The bytes under hot_root never exceed capacity_bytes (single tier).
WithinCapacity == ~HasOverflow => ScanUsedBytes("hot_root") <= Capacity

-----------------------------------------------------------------------------
(***************************************************************************)
(* Stager implements Staging: a request is a key in _in_flight, settled    *)
(* when its future is done, published from the rename on; a mirror counts  *)
(* when it holds every byte of its source.                                 *)
(***************************************************************************)
Published == {p \in Path : \E r \in Root : StagedAt(p, r)} \cup
             {job[w] : w \in {v \in Worker : pc[v] = "record"}}
Abstract == INSTANCE Staging WITH
    requested <- {p \in Path : future[p] # "none"},
    settled   <- {p \in Path : future[p] \in {"result", "exception"}},
    published <- Published,
    mirror    <- [r \in Root |-> {p \in Path : hot[r][p] = Real[p]}]

\* Every step of the worker pool is a step of Staging or invisible to it.
ImplementsStaging == Abstract!Safety

\* The same with the promise that open requests are settled.
ImplementsStagingFairly == Abstract!Spec

-----------------------------------------------------------------------------
(***************************************************************************)
(* Promises the code does not keep.                                        *)
(***************************************************************************)

\* "Files in self._in_flight cannot be evicted by LRU sweep": a file is not
\* removed while a job for it is still pending.
InFlightNotEvicted ==
    [][\A p \in Path :
          hot["hot_root"][p] # NoFile /\ hot'["hot_root"][p] = NoFile
            => ~\E q \in Path : Canon[q] = p /\ future[q] = "pending"]_vars
=============================================================================
