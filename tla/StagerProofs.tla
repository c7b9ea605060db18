---------------------------- MODULE StagerProofs ----------------------------
(***************************************************************************)
(* Proofs about Stager for any set of paths, any number of workers, any    *)
(* sizes, capacities, faults and left-over files.                          *)
(***************************************************************************)
EXTENDS StagerProps, FiniteSetTheorems, SequenceTheorems, TLAPS

(***************************************************************************)
(* Finite byte sets.                                                       *)
(***************************************************************************)
\* The image of a finite set under a function is finite.
LEMMA ImageFinite ==
    ASSUME NEW S, IsFiniteSet(S), NEW f, f = [x \in S |-> f[x]]
    PROVE  IsFiniteSet({f[x] : x \in S})
<1> DEFINE T == {f[x] : x \in S}
<1>1. f \in Surjection(S, T)
  BY DEF Surjection
<1>2. QED
  BY <1>1, FS_Surjection

\* A file occupies finitely many bytes.
LEMMA FileBytesFinite ==
    ASSUME NEW name, NEW size \in FileSize
    PROVE  IsFiniteSet(FileBytes(name, size))
<1>1. CASE size = NoFile
  BY <1>1, FS_EmptySet DEF FileBytes
<1>2. CASE size \in Nat
  <2>1. size # NoFile
    BY <1>2, NullAssumption
  <2>2. IsFiniteSet({name})
    BY FS_Singleton, Zenon
  <2>3. IsFiniteSet(1..size)
    <3>1. size \in Int
      BY <1>2
    <3>2. QED
      BY <3>1, FS_Interval
  <2>4. QED
    BY <2>1, <2>2, <2>3, FS_Product DEF FileBytes
<1>3. QED
  BY <1>1, <1>2 DEF FileSize

\* The tables of the file system, typed.
DiskOK ==
    /\ hot \in [Root -> [Path -> FileSize]]
    /\ tmp \in [Root -> [Worker -> [Path -> FileSize]]]
    /\ litter \in [Root -> Nat]

\* The temp files of a root are finitely many bytes.
LEMMA TmpFinite ==
    ASSUME DiskOK, NEW r \in Root
    PROVE  IsFiniteSet(TmpBytes(r))
<1>1. PICK D : D = Worker \X Path
  OBVIOUS
<1>2. IsFiniteSet(D)
  BY <1>1, PathAssumption, ConfigAssumption, FS_Product
<1>3. PICK f : f = [d \in D |-> FileBytes(d, tmp[r][d[1]][d[2]])]
  OBVIOUS
<1>4. \A d \in D : IsFiniteSet(f[d])
  BY <1>1, <1>3, FileBytesFinite DEF DiskOK
<1>5. f = [d \in D |-> f[d]]
  BY <1>3
<1>6. IsFiniteSet({f[d] : d \in D})
  BY ONLY <1>2, <1>5, ImageFinite
<1>7. IsFiniteSet(UNION {f[d] : d \in D})
  BY <1>4, <1>6, FS_UNION
<1>8. TmpBytes(r) = UNION {f[d] : d \in D}
  BY <1>1, <1>3 DEF TmpBytes
<1>9. QED
  BY <1>7, <1>8

\* What a directory walk adds up is a natural number.
LEMMA ScanIsNat ==
    ASSUME DiskOK, NEW r \in Root
    PROVE  /\ Cardinality(TmpBytes(r)) \in Nat
           /\ ScanUsedBytes(r) \in Nat
<1> USE PathAssumption, ConfigAssumption
<1>1. IsFiniteSet(HotBytes(r))
  <2> DEFINE f == [p \in Path |-> FileBytes(p, hot[r][p])]
  <2>1. \A p \in Path : IsFiniteSet(f[p])
    BY FileBytesFinite DEF DiskOK
  <2>2. IsFiniteSet({f[p] : p \in Path})
    <3>1. f = [p \in Path |-> f[p]]
      OBVIOUS
    <3> HIDE DEF f
    <3>2. QED
      BY <3>1, ImageFinite
  <2>3. IsFiniteSet(UNION {f[p] : p \in Path})
    BY <2>1, <2>2, FS_UNION
  <2>4. QED
    BY <2>3 DEF HotBytes
<1>2. IsFiniteSet(TmpBytes(r))
  BY TmpFinite
<1>3. QED
  BY <1>1, <1>2, FS_CardinalityType DEF ScanUsedBytes, DiskOK

-----------------------------------------------------------------------------
(***************************************************************************)
(* Typing.  A thread that is not idle has a job; one that copies has a     *)
(* temp file no longer than its source, and complete when it is renamed.   *)
(***************************************************************************)
JobOK == \A w \in Worker : pc[w] # "idle" => job[w] \in Path
CopyOK == \A w \in Worker :
    /\ pc[w] = "copy" => TmpFile(w) \in 0..Real[Target(w)]
    /\ pc[w] = "rename" => TmpFile(w) = Real[Target(w)]
Typed == TypeOK /\ JobOK /\ CopyOK

\* Tagging the paths of a sequence gives a sequence of items.
LEMMA ItemSeq ==
    ASSUME NEW s \in Seq(Path), NEW b \in BOOLEAN
    PROVE  [i \in DOMAIN s |-> [path |-> s[i], primary |-> b]] \in Seq(Item)
<1>1. DOMAIN s = 1..Len(s) /\ Len(s) \in Nat
  OBVIOUS
<1>2. \A i \in 1..Len(s) : [path |-> s[i], primary |-> b] \in Item
  BY DEF Item
<1>3. QED
  BY <1>1, <1>2, IsASeq

\* What is left to submit after the head of the list.
LEMMA AfterSubmitType ==
    ASSUME TypeOK, todo # <<>>
    PROVE  Head(todo) \in Item /\ AfterSubmit \in Seq(Item)
<1>1. Head(todo) \in Item /\ Tail(todo) \in Seq(Item)
  BY HeadTailProperties DEF TypeOK
<1>2. Companion[Head(todo).path] \in Seq(Path)
  BY <1>1, PathAssumption DEF Item
<1> DEFINE c == Companion[Head(todo).path]
           t == [i \in DOMAIN c |-> [path |-> c[i], primary |-> FALSE]]
<1>3. t \in Seq(Item)
  BY <1>2, ItemSeq
<1>4. t \o Tail(todo) \in Seq(Item)
  BY <1>1, <1>3, ConcatProperties
<1>5. QED
  BY <1>1, <1>4 DEF AfterSubmit

\* Recording appends an event of a known outcome to the job's list.
LEMMA RecordType ==
    ASSUME Typed, NEW w \in Worker, pc[w] # "idle", NEW o \in Outcome, Record(w, o)
    PROVE  report' \in [Path -> Seq(Event)]
<1>1. job[w] \in Path /\ [outcome |-> o, root |-> root[w]] \in Event
  BY DEF Typed, TypeOK, JobOK, Event
<1>2. Append(report[job[w]], [outcome |-> o, root |-> root[w]]) \in Seq(Event)
  BY <1>1, AppendProperties DEF Typed, TypeOK
<1>3. QED
  BY <1>1, <1>2 DEF Record, Typed, TypeOK

\* Writing a temp file, or removing it, keeps the directory well typed.
LEMMA SetTmpType ==
    ASSUME Typed, NEW w \in Worker, pc[w] # "idle",
           NEW size \in FileSize, SetTmp(w, size)
    PROVE  tmp' \in [Root -> [Worker -> [Path -> FileSize]]]
<1>1. job[w] \in Path /\ root[w] \in Root /\ Target(w) \in Path
  BY PathAssumption DEF Typed, TypeOK, JobOK, Target
<1>2. [tmp[root[w]][w] EXCEPT ![Target(w)] = size] \in [Path -> FileSize]
  BY <1>1 DEF Typed, TypeOK
<1>3. [tmp[root[w]] EXCEPT ![w][Target(w)] = size] \in [Worker -> [Path -> FileSize]]
  BY <1>1, <1>2 DEF Typed, TypeOK
<1>4. QED
  BY <1>1, <1>3 DEF SetTmp, Typed, TypeOK

\* Publishing or removing a hot file keeps the tree well typed.
LEMMA SetHotType ==
    ASSUME TypeOK, NEW r \in Root, NEW p \in Path, NEW size \in FileSize
    PROVE  [hot EXCEPT ![r][p] = size] \in [Root -> [Path -> FileSize]]
<1>1. [hot[r] EXCEPT ![p] = size] \in [Path -> FileSize]
  BY DEF TypeOK
<1>2. QED
  BY <1>1 DEF TypeOK

LEMMA TypedInit == Init => Typed
<1> SUFFICES ASSUME Init PROVE Typed
  OBVIOUS
<1> USE PathAssumption, ConfigAssumption DEF Init
<1>1. <<>> \in Seq(Item) /\ <<>> \in Seq(Path) /\ <<>> \in Seq(Event)
  BY EmptySeq
<1>2. hot \in [Root -> [Path -> FileSize]]
  BY DEF FileSize
<1>3. tmp \in [Root -> [Worker -> [Path -> FileSize]]]
  BY DEF FileSize
<1>4. report \in [Path -> Seq(Event)]
  BY <1>1
<1>5. /\ pc \in [Worker -> PC]
      /\ root \in [Worker -> Root]
      /\ job \in [Worker -> Path \cup {NoJob}]
  BY DEF PC, Root
<1>6. JobOK
  BY DEF JobOK
<1>7. CopyOK
  BY DEF CopyOK
<1>8. litter \in [Root -> Nat] /\ inherited \in Nat
  <2>1. DiskOK
    BY <1>2, <1>3 DEF DiskOK
  <2>2. QED
    BY <2>1, ScanIsNat DEF Root
<1>9. QED
  BY <1>1, <1>2, <1>3, <1>4, <1>5, <1>6, <1>7, <1>8 DEF Typed, TypeOK

\* SetTmp writes in the writer's own files only.
LEMMA SetTmpFrame ==
    ASSUME TypeOK, NEW w \in Worker, NEW v \in Worker \ {w}, NEW size, SetTmp(w, size)
    PROVE  \A r \in Root : tmp'[r][v] = tmp[r][v]
BY DEF SetTmp, TypeOK

\* A step of one thread leaves the locals and the temp files of another alone.
LEMMA StageFrame ==
    ASSUME TypeOK, NEW w \in Worker, NEW v \in Worker \ {w}, Stage(w)
    PROVE  /\ pc'[v] = pc[v] /\ job'[v] = job[v] /\ root'[v] = root[v]
           /\ \A r \in Root : tmp'[r][v] = tmp[r][v]
<1> USE DEF TypeOK, callerVars, poolVars, diskVars, sweepVars, Goto
<1>1. CASE Take(w)          BY <1>1 DEF Take
<1>2. CASE Probe(w)         BY <1>2 DEF Probe
<1>3. CASE RecordHit(w)     BY <1>3 DEF RecordHit
<1>4. CASE Resolve(w)       BY <1>4 DEF Resolve
<1>5. CASE Reserve(w)       BY <1>5 DEF Reserve
<1>6. CASE EnsureFast(w)    BY <1>6 DEF EnsureFast
<1>7. CASE Snapshot(w)      BY <1>7 DEF Snapshot
<1>8. CASE Scan(w)          BY <1>8 DEF Scan
<1>9. CASE Gather(w)        BY <1>9 DEF Gather
<1>10. CASE EvictOne(w)
  <2>1. pc' = [pc EXCEPT ![w] = "mkdir"] \/ pc' = pc
    BY <1>10 DEF EvictOne
  <2>2. UNCHANGED <<tmp, job, root>>
    BY <1>10 DEF EvictOne
  <2>3. QED
    BY <2>1, <2>2
<1>11. CASE OutOfSpace(w)   BY <1>11 DEF OutOfSpace
<1>12. CASE MkdirAndOpen(w) BY <1>12 DEF MkdirAndOpen, SetTmp
<1>13. CASE Copy(w)         BY <1>13 DEF Copy, SetTmp
<1>14. CASE Rename(w)
  <2>1. (\E size : SetTmp(w, size)) \/ UNCHANGED tmp
    BY <1>14 DEF Rename
  <2>2. \A r \in Root : tmp'[r][v] = tmp[r][v]
    BY <2>1, SetTmpFrame
  <2>3. QED
    BY <1>14, <2>2 DEF Rename
<1>15. CASE RecordStaged(w) BY <1>15 DEF RecordStaged
<1>16. CASE Cleanup(w)
  <2>1. (\E size : SetTmp(w, size)) \/ UNCHANGED tmp
    BY <1>16 DEF Cleanup
  <2>2. \A r \in Root : tmp'[r][v] = tmp[r][v]
    BY <2>1, SetTmpFrame
  <2>3. QED
    BY <1>16, <2>2 DEF Cleanup
<1>17. CASE Release(w)      BY <1>17 DEF Release
<1>18. CASE RecordError(w)  BY <1>18 DEF RecordError
<1>19. CASE Done(w)         BY <1>19 DEF Done
<1>20. QED
  BY <1>1, <1>2, <1>3, <1>4, <1>5, <1>6, <1>7, <1>8, <1>9, <1>10, <1>11, <1>12,
     <1>13, <1>14, <1>15, <1>16, <1>17, <1>18, <1>19 DEF Stage

\* SetTmp changes just the file it names.
LEMMA SetTmpValue ==
    ASSUME Typed, NEW w \in Worker, pc[w] # "idle",
           NEW size \in FileSize, SetTmp(w, size)
    PROVE  tmp'[root[w]][w][Target(w)] = size
<1>1. job[w] \in Path /\ root[w] \in Root /\ Target(w) \in Path
  BY PathAssumption DEF Typed, TypeOK, JobOK, Target
<1>2. QED
  BY <1>1 DEF SetTmp, Typed, TypeOK

\* Only the thread that moves can break CopyOK, and only by writing its file.
LEMMA CopyStep ==
    ASSUME Typed, NEW w \in Worker, Stage(w)
    PROVE  CopyOK'
<1> USE PathAssumption
<1>1. ASSUME NEW v \in Worker \ {w}
      PROVE  /\ pc'[v] = "copy" => TmpFile(v)' \in 0..Real[Target(v)']
             /\ pc'[v] = "rename" => TmpFile(v)' = Real[Target(v)']
  <2>1. /\ pc'[v] = pc[v] /\ Target(v)' = Target(v)
        /\ pc[v] # "idle" => TmpFile(v)' = TmpFile(v)
    BY StageFrame DEF Typed, TypeOK, JobOK, Target, TmpFile
  <2>2. QED
    BY <2>1 DEF Typed, CopyOK
<1>2. /\ pc'[w] = "copy" => TmpFile(w)' \in 0..Real[Target(w)']
      /\ pc'[w] = "rename" => TmpFile(w)' = Real[Target(w)']
  <2> USE DEF Goto
  <2>1. CASE MkdirAndOpen(w)
    <3>1. CASE SetTmp(w, 0) /\ pc[w] = "mkdir"
      <4>1. tmp'[root[w]][w][Target(w)] = 0
        BY <3>1, SetTmpValue DEF FileSize
      <4>2. TmpFile(w)' = 0 /\ Target(w)' = Target(w) /\ Real[Target(w)] \in Nat
        BY <2>1, <4>1 DEF MkdirAndOpen, TmpFile, Target, Typed, TypeOK, JobOK
      <4>3. pc'[w] # "rename"
        BY <2>1, <3>1 DEF MkdirAndOpen, Typed, TypeOK
      <4>4. QED
        BY <4>2, <4>3
    <3>2. CASE pc'[w] = "raise"
      BY <3>2
    <3>3. QED
      BY <2>1, <3>1, <3>2 DEF MkdirAndOpen, Typed, TypeOK
  <2>2. CASE Copy(w)
    <3>1. pc[w] = "copy"
      BY <2>2 DEF Copy
    <3>2. TmpFile(w) \in 0..Real[Target(w)] /\ Real[Target(w)] \in Nat
      BY <3>1 DEF Typed, TypeOK, CopyOK, JobOK, Target
    <3>3. Target(w)' = Target(w) /\ root' = root
      BY <2>2 DEF Copy, Target
    <3>4. CASE SetTmp(w, TmpFile(w) + 1) /\ UNCHANGED pc /\ TmpFile(w) < Real[Target(w)]
      <4>1. TmpFile(w) + 1 \in FileSize
        BY <3>2 DEF FileSize
      <4>2. tmp'[root[w]][w][Target(w)] = TmpFile(w) + 1
        BY <3>1, <3>4, <4>1, SetTmpValue
      <4>3. QED
        BY <3>1, <3>2, <3>3, <3>4, <4>2 DEF TmpFile
    <3>5. CASE UNCHANGED tmp /\ pc'[w] = "rename" /\ TmpFile(w) = Real[Target(w)]
      BY <3>3, <3>5 DEF TmpFile
    <3>6. CASE pc'[w] = "cleanup"
      BY <3>6
    <3>7. QED
      BY <2>2, <3>4, <3>5, <3>6 DEF Copy, Typed, TypeOK
  <2>3. CASE ~MkdirAndOpen(w) /\ ~Copy(w)
    <3> USE DEF Typed, TypeOK
    <3>1. pc'[w] \notin {"copy", "rename"}
      BY <2>3 DEF Stage, Take, Probe, RecordHit, Resolve, Reserve, EnsureFast,
                  Snapshot, Scan, Gather, EvictOne, OutOfSpace, Rename,
                  RecordStaged, Cleanup, Release, RecordError, Done
    <3>2. QED
      BY <3>1
  <2>4. QED
    BY <2>1, <2>2, <2>3
<1>3. QED
  BY <1>1, <1>2 DEF CopyOK

LEMMA TypedStep == Typed /\ [Next]_vars => Typed'
<1> SUFFICES ASSUME Typed, [Next]_vars PROVE Typed'
  OBVIOUS
<1> USE PathAssumption, ConfigAssumption DEF Typed
<1>1. ASSUME NEW files \in Hint, Prefetch(files) PROVE Typed'
  <2>1. todo' \in Seq(Item)
    BY <1>1, ItemSeq DEF Prefetch
  <2>2. QED
    BY <1>1, <2>1 DEF Prefetch, TypeOK, JobOK, CopyOK, TmpFile, Target, poolVars, diskVars,
                        sweepVars, processVars
<1>2. CASE SubmitOne
  <2>1. Head(todo) \in Item /\ AfterSubmit \in Seq(Item)
    BY <1>2, AfterSubmitType DEF SubmitOne
  <2>2. todo' \in Seq(Item)
    BY <1>2, <2>1, EmptySeq DEF SubmitOne
  <2>3. Head(todo).path \in Path
    BY <2>1 DEF Item
  <2>4. queue' \in Seq(Path)
    <3>1. Append(queue, Head(todo).path) \in Seq(Path)
      BY <2>3, AppendProperties DEF TypeOK
    <3>2. QED
      BY <1>2, <3>1 DEF SubmitOne, TypeOK, poolVars
  <2>5. future' \in [Path -> {"none", "pending", "result", "exception"}]
    BY <1>2, <2>3 DEF SubmitOne, TypeOK, poolVars
  <2>6. QED
    BY <1>2, <2>2, <2>4, <2>5 DEF SubmitOne, TypeOK, JobOK, CopyOK, TmpFile, Target,
                                      diskVars, sweepVars, processVars
<1>3. CASE Shutdown
  BY <1>3 DEF Shutdown, TypeOK, JobOK, CopyOK, TmpFile, Target, poolVars, diskVars,
              sweepVars, processVars
<1>4. ASSUME NEW w \in Worker, Stage(w) PROVE Typed'
  <2> SUFFICES TypeOK' /\ JobOK'
    BY <1>4, CopyStep
  <2> USE DEF callerVars, processVars, poolVars, diskVars, sweepVars, Goto, PC, JobOK
  <2>1. CASE Take(w)
    <3>1. Head(queue) \in Path /\ Tail(queue) \in Seq(Path)
      BY <2>1, HeadTailProperties DEF Take, TypeOK
    <3>2. QED
      BY <2>1, <3>1 DEF Take, TypeOK
  <2>2. CASE Probe(w)
    BY <2>2 DEF Probe, HotRootFor, Root, TypeOK
  <2>3. CASE RecordHit(w)
    <3>1. report' \in [Path -> Seq(Event)]
      BY <2>3, RecordType DEF RecordHit, Outcome, TypeOK
    <3>2. QED
      BY <2>3, <3>1 DEF RecordHit, TypeOK
  <2>4. CASE Resolve(w)
    <3>1. report' \in [Path -> Seq(Event)]
      BY <2>4, RecordType DEF Resolve, Outcome, TypeOK
    <3>2. QED
      BY <2>4, <3>1 DEF Resolve, TypeOK
  <2>5. CASE Reserve(w)
    <3>1. Plan[Target(w)] \in Nat
      BY <2>5 DEF Reserve, Target, TypeOK
    <3>2. used' \in Int /\ root' \in [Worker -> Root]
      BY <2>5, <3>1 DEF Reserve, PickTargetRoot, Root, TypeOK
    <3>3. QED
      BY <2>5, <3>2 DEF Reserve, TypeOK
  <2>6. CASE EnsureFast(w)
    BY <2>6 DEF EnsureFast, TypeOK
  <2>7. CASE Snapshot(w)
    BY <2>7 DEF Snapshot, TypeOK
  <2>8. CASE Scan(w)
    <3>1. Plan[Target(w)] \in Nat /\ ScanUsedBytes("hot_root") \in Nat
      BY <2>8, ScanIsNat DEF Scan, Target, TypeOK, DiskOK, Root
    <3> DEFINE toFree == ScanUsedBytes("hot_root") + Plan[Target(w)] - Capacity
    <3>2. (IF toFree <= 0 THEN 0 ELSE toFree) \in Nat
      BY <3>1
    <3>3. need' \in [Worker -> Nat]
      BY <2>8, <3>2 DEF Scan, TypeOK
    <3>4. pc' \in [Worker -> PC] /\ JobOK'
      BY <2>8 DEF Scan, TypeOK
    <3>5. QED
      BY <2>8, <3>3, <3>4 DEF Scan, TypeOK
  <2>9. CASE Gather(w)
    BY <2>9 DEF Gather, TypeOK
  <2>10. CASE EvictOne(w)
    <3>1. PICK p \in cand[w] : EvictOne(w)!2!(p)
      BY <2>10 DEF EvictOne
    <3>2. p \in Path
      BY <3>1 DEF TypeOK
    <3>3. hot' \in [Root -> [Path -> FileSize]]
      <4>1. "hot_root" \in Root /\ NoFile \in FileSize
        BY DEF Root, FileSize
      <4>2. [hot EXCEPT !["hot_root"][p] = NoFile] \in [Root -> [Path -> FileSize]]
        BY <3>2, <4>1, SetHotType
      <4>3. QED
        BY <3>1, <4>2 DEF TypeOK
    <3>4. need' \in [Worker -> Nat]
      BY <3>1, <3>2 DEF TypeOK, FileSize, Root, Exists, Swept
    <3>5. cand' \in [Worker -> SUBSET Path]
      <4>1. cand[w] \ {p} \in SUBSET Path /\ {} \in SUBSET Path
        BY DEF TypeOK
      <4>2. \A x \in SUBSET Path :
               [cand EXCEPT ![w] = x] \in [Worker -> SUBSET Path]
        BY DEF TypeOK
      <4>3. \/ cand' = [cand EXCEPT ![w] = cand[w] \ {p}]
            \/ cand' = [cand EXCEPT ![w] = {}]
        BY <3>1 DEF Swept
      <4>4. QED
        BY <4>1, <4>2, <4>3
    <3>6. pc' \in [Worker -> PC] /\ JobOK'
      BY <2>10, <3>1 DEF EvictOne, TypeOK
    <3>7. QED
      BY <2>10, <3>3, <3>4, <3>5, <3>6 DEF EvictOne, TypeOK
  <2>11. CASE OutOfSpace(w)
    BY <2>11 DEF OutOfSpace, Swept, TypeOK
  <2>12. CASE MkdirAndOpen(w)
    <3>1. tmp' \in [Root -> [Worker -> [Path -> FileSize]]]
      <4>1. 0 \in FileSize
        BY DEF FileSize
      <4>2. QED
        BY <2>12, <4>1, SetTmpType DEF MkdirAndOpen, TypeOK
    <3>2. QED
      BY <2>12, <3>1 DEF MkdirAndOpen, TypeOK
  <2>13. CASE Copy(w)
    <3>1. TmpFile(w) \in Nat /\ pc[w] = "copy"
      BY <2>13 DEF Copy, CopyOK
    <3>2. tmp' \in [Root -> [Worker -> [Path -> FileSize]]]
      <4>1. CASE UNCHANGED tmp
        BY <4>1 DEF TypeOK
      <4>2. CASE SetTmp(w, TmpFile(w) + 1)
        <5>1. TmpFile(w) + 1 \in FileSize /\ pc[w] # "idle"
          BY <3>1 DEF FileSize
        <5> HIDE DEF Typed
        <5>2. QED
          BY <4>2, <5>1, SetTmpType
      <4>3. QED
        BY <2>13, <4>1, <4>2 DEF Copy
    <3>3. QED
      BY <2>13, <3>2 DEF Copy, TypeOK
  <2>14. CASE Rename(w)
    <3>1. hot' \in [Root -> [Path -> FileSize]]
      <4>1. root[w] \in Root /\ Target(w) \in Path /\ TmpFile(w) \in FileSize
        BY <2>14 DEF Rename, Target, TmpFile, TypeOK
      <4>2. [hot EXCEPT ![root[w]][Target(w)] = TmpFile(w)]
              \in [Root -> [Path -> FileSize]]
        BY <4>1, SetHotType
      <4>3. QED
        BY <2>14, <4>2 DEF Rename, TypeOK
    <3>2. tmp' \in [Root -> [Worker -> [Path -> FileSize]]]
      <4>1. NoFile \in FileSize
        BY DEF FileSize
      <4>2. QED
        BY <2>14, <4>1, SetTmpType DEF Rename, TypeOK
    <3>3. QED
      BY <2>14, <3>1, <3>2 DEF Rename, TypeOK
  <2>15. CASE RecordStaged(w)
    <3>1. report' \in [Path -> Seq(Event)]
      BY <2>15, RecordType DEF RecordStaged, Outcome, TypeOK
    <3>2. QED
      BY <2>15, <3>1 DEF RecordStaged, TypeOK
  <2>16. CASE Cleanup(w)
    <3>1. tmp' \in [Root -> [Worker -> [Path -> FileSize]]]
      <4>1. NoFile \in FileSize
        BY DEF FileSize
      <4>2. QED
        BY <2>16, <4>1, SetTmpType DEF Cleanup, TypeOK
    <3>2. QED
      BY <2>16, <3>1 DEF Cleanup, TypeOK
  <2>17. CASE Release(w)
    <3>1. Reserved(w) \in Nat
      BY <2>17 DEF Release, Reserved, TypeOK
    <3>2. QED
      BY <2>17, <3>1 DEF Release, TypeOK
  <2>18. CASE RecordError(w)
    <3>1. report' \in [Path -> Seq(Event)]
      BY <2>18, RecordType DEF RecordError, Outcome, TypeOK
    <3>2. QED
      BY <2>18, <3>1 DEF RecordError, TypeOK
  <2>19. CASE Done(w)
    <3>1. job[w] \in Path
      BY <2>19 DEF Done
    <3>2. future' \in [Path -> {"none", "pending", "result", "exception"}]
      BY <2>19, <3>1 DEF Done, TypeOK
    <3>3. pc' = [pc EXCEPT ![w] = "idle"]
      BY <2>19 DEF Done
    <3>4. pc' \in [Worker -> PC] /\ root' \in [Worker -> Root]
          /\ job' \in [Worker -> Path \cup {NoJob}]
      BY <2>19, <3>3 DEF Done, TypeOK, Root
    <3>5. JobOK'
      BY <2>19, <3>3 DEF Done, TypeOK
    <3>6. QED
      BY <2>19, <3>2, <3>4, <3>5 DEF Done, TypeOK
  <2>20. QED
    BY <1>4, <2>1, <2>2, <2>3, <2>4, <2>5, <2>6, <2>7, <2>8, <2>9, <2>10,
       <2>11, <2>12, <2>13, <2>14, <2>15, <2>16, <2>17, <2>18, <2>19 DEF Stage
<1>5. CASE UNCHANGED vars
  <2>1. TypeOK'
    BY <1>5, Zenon DEF vars, TypeOK
  <2>2. JobOK'
    BY <1>5 DEF vars, JobOK
  <2>3. CopyOK'
    BY <1>5 DEF vars, CopyOK, TmpFile, Target
  <2>4. QED
    BY <2>1, <2>2, <2>3
<1>6. CASE Restart
  <2>1. DiskOK
    BY DEF TypeOK, DiskOK
  <2>2. \A r \in Root : Cardinality(TmpBytes(r)) \in Nat /\ ScanUsedBytes(r) \in Nat
    BY <2>1, ScanIsNat
  <2>3. litter' \in [Root -> Nat] /\ inherited' \in Nat /\ restarts' \in Nat
    BY <1>6, <2>2 DEF Restart, TypeOK, Root
  <2>4. /\ todo' \in Seq(Item) /\ queue' \in Seq(Path)
        /\ report' \in [Path -> Seq(Event)]
    <3>1. <<>> \in Seq(Item) /\ <<>> \in Seq(Path) /\ <<>> \in Seq(Event)
      BY EmptySeq
    <3>2. QED
      BY <1>6, <3>1 DEF Restart
  <2>5. tmp' \in [Root -> [Worker -> [Path -> FileSize]]]
    BY <1>6 DEF Restart, FileSize
  <2>6. /\ pc' \in [Worker -> PC]
        /\ root' \in [Worker -> Root]
        /\ job' \in [Worker -> Path \cup {NoJob}]
    BY <1>6 DEF Restart, PC, Root
  <2>7. JobOK' /\ CopyOK'
    BY <1>6 DEF Restart, JobOK, CopyOK
  <2>8. QED
    BY <1>6, <2>3, <2>4, <2>5, <2>6, <2>7 DEF Restart, TypeOK
<1>7. QED
  BY <1>1, <1>2, <1>3, <1>4, <1>5, <1>6 DEF Next

\* Every variable keeps its type, for all values of the constants.
THEOREM TypeCorrect == Spec => []TypeOK
<1>1. Typed => TypeOK
  BY DEF Typed
<1>2. QED
  BY <1>1, TypedInit, TypedStep, PTL DEF Spec

-----------------------------------------------------------------------------
(***************************************************************************)
(* A hot file is whole.  Only Rename publishes, from a complete temp file. *)
(***************************************************************************)
LEMMA SetHotValue ==
    ASSUME hot \in [Root -> [Path -> FileSize]],
           NEW r \in Root, NEW p \in Path, NEW x \in Root, NEW y, NEW size,
           hot' = [hot EXCEPT ![x][y] = size]
    PROVE  hot'[r][p] = hot[r][p] \/ (p = y /\ hot'[r][p] = size)
<1>1. CASE r # x
  <2>1. hot'[r] = hot[r]
    BY <1>1
  <2>2. QED
    BY <2>1
<1>2. CASE r = x
  <2>1. hot'[r] = [hot[r] EXCEPT ![y] = size]
    BY <1>2
  <2>2. QED
    BY <2>1
<1>3. QED
  BY <1>1, <1>2

LEMMA NeverPartialStep == Typed /\ NeverPartial /\ [Next]_vars => NeverPartial'
<1> SUFFICES ASSUME Typed, NeverPartial, [Next]_vars,
                    NEW r \in Root, NEW p \in Path
             PROVE  hot'[r][p] \in {NoFile, Real[p]}
  BY DEF NeverPartial
<1> USE DEF NeverPartial
<1>1. CASE UNCHANGED hot
  BY <1>1
<1>2. ASSUME NEW w \in Worker, EvictOne(w)
      PROVE  hot'[r][p] \in {NoFile, Real[p]}
  <2>1. PICK q \in Path :
           UNCHANGED hot \/ hot' = [hot EXCEPT !["hot_root"][q] = NoFile]
    BY <1>2 DEF EvictOne, Typed, TypeOK
  <2>2. hot \in [Root -> [Path -> FileSize]] /\ hot[r][p] \in {NoFile, Real[p]}
    BY DEF Typed, TypeOK
  <2>3. CASE UNCHANGED hot
    BY <2>2, <2>3
  <2>4. CASE hot' = [hot EXCEPT !["hot_root"][q] = NoFile]
    BY <2>2, <2>4, SetHotValue DEF Root
  <2>5. QED
    BY <2>1, <2>3, <2>4
<1>3. ASSUME NEW w \in Worker, Rename(w)
      PROVE  hot'[r][p] \in {NoFile, Real[p]}
  <2>1. TmpFile(w) = Real[Target(w)]
    BY <1>3 DEF Rename, Goto, Typed, CopyOK
  <2>2. hot \in [Root -> [Path -> FileSize]] /\ hot[r][p] \in {NoFile, Real[p]}
        /\ root[w] \in Root
    BY DEF Typed, TypeOK
  <2>3. UNCHANGED hot \/ hot' = [hot EXCEPT ![root[w]][Target(w)] = TmpFile(w)]
    BY <1>3 DEF Rename, diskVars
  <2>4. CASE UNCHANGED hot
    BY <2>2, <2>4
  <2>5. CASE hot' = [hot EXCEPT ![root[w]][Target(w)] = TmpFile(w)]
    BY <2>1, <2>2, <2>5, SetHotValue
  <2>6. QED
    BY <2>3, <2>4, <2>5
<1>4. ASSUME NEW w \in Worker, Stage(w), ~EvictOne(w), ~Rename(w)
      PROVE  UNCHANGED hot
  BY <1>4 DEF Stage, Take, Probe, RecordHit, Resolve, Reserve, EnsureFast,
              Snapshot, Scan, Gather, OutOfSpace, MkdirAndOpen, Copy, RecordStaged,
              Cleanup, Release, RecordError, Done, diskVars
<1>5. QED
  BY <1>1, <1>2, <1>3, <1>4
     DEF Next, Prefetch, SubmitOne, Shutdown, Restart, diskVars, vars

\* Whatever is copied, fails, is swept or aliased, a mirror is never partial.
THEOREM WholeFiles == Spec => []NeverPartial
<1>1. Init => NeverPartial
  BY DEF Init, NeverPartial
<1>2. QED
  BY <1>1, TypedInit, TypedStep, NeverPartialStep, PTL DEF Spec

-----------------------------------------------------------------------------
(***************************************************************************)
(* Temp files: if removing one cannot fail, none outlives its copy.        *)
(***************************************************************************)
LEMMA NoStrandedTmpStep ==
    ASSUME "unlink_tmp" \notin Fault
    PROVE  Typed /\ NoStrandedTmp /\ [Next]_vars => NoStrandedTmp'
<1> SUFFICES ASSUME Typed, NoStrandedTmp, [Next]_vars,
                    NEW r \in Root, NEW v \in Worker, NEW p \in Path,
                    tmp'[r][v][p] # NoFile
             PROVE  /\ pc'[v] \in {"copy", "rename", "cleanup"}
                    /\ root'[v] = r
                    /\ Target(v)' = p
  BY DEF NoStrandedTmp, Writing
<1> USE DEF NoStrandedTmp, Writing
<1> DEFINE Owned == /\ pc'[v] \in {"copy", "rename", "cleanup"}
                    /\ root'[v] = r
                    /\ Target(v)' = p
<1>1. ASSUME UNCHANGED <<pc, job, root, tmp>> PROVE  Owned
  BY <1>1 DEF Target
<1>2. ASSUME NEW w \in Worker, Stage(w), w # v PROVE  Owned
  <2>1. pc'[v] = pc[v] /\ job'[v] = job[v] /\ root'[v] = root[v] /\ tmp'[r][v] = tmp[r][v]
    BY <1>2, StageFrame DEF Typed
  <2>2. QED
    BY <2>1 DEF Target
<1>3. CASE Stage(v)
  <2> USE DEF Goto
  <2>1. CASE MkdirAndOpen(v)
    <3>1. tmp[r][v][p] = NoFile
      BY <2>1 DEF MkdirAndOpen
    <3>2. SetTmp(v, 0) /\ pc'[v] = "copy" /\ UNCHANGED <<job, root>>
      BY <2>1, <3>1 DEF MkdirAndOpen, Typed, TypeOK
    <3>3. r = root[v] /\ p = Target(v)
      BY <3>1, <3>2 DEF SetTmp, Typed, TypeOK
    <3>4. QED
      BY <3>2, <3>3 DEF Target
  <2>2. CASE Copy(v)
    <3>1. pc[v] = "copy" /\ pc'[v] \in {"copy", "rename", "cleanup"}
          /\ UNCHANGED <<job, root>>
      BY <2>2 DEF Copy, Typed, TypeOK
    <3>2. r = root[v] /\ p = Target(v)
      BY <2>2 DEF Copy, SetTmp, Typed, TypeOK
    <3>3. QED
      BY <3>1, <3>2 DEF Target
  <2>3. CASE Rename(v)
    <3>1. CASE SetTmp(v, NoFile)
      BY <2>3, <3>1 DEF Rename, SetTmp, Typed, TypeOK
    <3>2. CASE UNCHANGED tmp /\ pc' = [pc EXCEPT ![v] = "cleanup"]
      <4>1. pc \in [Worker -> PC] /\ UNCHANGED <<job, root>> /\ pc[v] = "rename"
        BY <2>3 DEF Rename, Typed, TypeOK
      <4>2. r = root[v] /\ p = Target(v)
        BY <3>2
      <4>3. QED
        BY <3>2, <4>1, <4>2 DEF Target
    <3>3. SetTmp(v, NoFile)
          \/ (UNCHANGED tmp /\ pc' = [pc EXCEPT ![v] = "cleanup"])
      BY <2>3 DEF Rename, diskVars
    <3>4. QED
      BY <3>1, <3>2, <3>3
  <2>4. CASE Cleanup(v)
    <3>1. SetTmp(v, NoFile) /\ pc[v] = "cleanup"
      BY <2>4 DEF Cleanup
    <3>2. tmp \in [Root -> [Worker -> [Path -> FileSize]]]
      BY DEF Typed, TypeOK
    <3>3. QED
      BY <3>1, <3>2 DEF SetTmp
  <2>5. CASE ~MkdirAndOpen(v) /\ ~Copy(v) /\ ~Rename(v) /\ ~Cleanup(v)
    <3>1. UNCHANGED tmp /\ pc[v] \notin {"copy", "rename", "cleanup"}
      BY <1>3, <2>5 DEF Stage, Take, Probe, RecordHit, Resolve, Reserve, EnsureFast,
             Snapshot, Scan, Gather, EvictOne, OutOfSpace, RecordStaged, Release,
             RecordError, Done, diskVars
    <3>2. QED
      BY <3>1
  <2>6. QED
    BY <2>1, <2>2, <2>3, <2>4, <2>5
<1>4. CASE Restart
  BY <1>4 DEF Restart
<1>5. QED
  BY <1>1, <1>2, <1>3, <1>4
     DEF Next, Prefetch, SubmitOne, Shutdown, diskVars, vars

\* No job ends, in success or in failure, with a temp file left behind.
THEOREM NothingStranded ==
    ASSUME "unlink_tmp" \notin Fault
    PROVE  Spec => []NoStrandedTmp
<1>1. Init => NoStrandedTmp
  BY DEF Init, NoStrandedTmp
<1>2. QED
  BY <1>1, TypedInit, TypedStep, NoStrandedTmpStep, PTL DEF Spec
=============================================================================
