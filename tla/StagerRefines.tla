--------------------------- MODULE StagerRefines ---------------------------
(***************************************************************************)
(* Proofs that relate the stager's tables: who owns an accepted job, what  *)
(* a report promises, that every step of the worker pool is a step of      *)
(* Staging or invisible to it, and what the counter of reserved bytes says *)
(* about the disk.  All for any paths, workers and faults.                 *)
(***************************************************************************)
EXTENDS StagerProofs

(***************************************************************************)
(* Ownership.  A pending key is in the queue or with one thread, and in no *)
(* second place; whatever is in either is pending.                         *)
(***************************************************************************)
InQueue(p) == \E i \in DOMAIN queue : queue[i] = p
QueueOwned == \A i \in DOMAIN queue : future[queue[i]] = "pending"
QueueOnce == \A i, j \in DOMAIN queue : queue[i] = queue[j] => i = j
HeldOwned == \A w \in Worker :
    pc[w] # "idle" => future[job[w]] = "pending" /\ ~InQueue(job[w])
HeldOnce == \A w, v \in Worker :
    pc[w] # "idle" /\ pc[v] # "idle" /\ job[w] = job[v] => w = v
IdleFree == \A w \in Worker : pc[w] = "idle" => job[w] = NoJob
NoneLost == \A p \in Path :
    future[p] = "pending" => InQueue(p) \/ \E w \in Worker : job[w] = p
Owned == QueueOwned /\ QueueOnce /\ HeldOwned /\ HeldOnce /\ IdleFree /\ NoneLost

\* The places of a queue after a job is appended.
LEMMA AppendPlaces ==
    ASSUME NEW q \in Seq(Path), NEW p \in Path, NEW t, t = Append(q, p)
    PROVE  /\ DOMAIN q = 1..Len(q) /\ Len(q) \in Nat
           /\ DOMAIN t = 1..(Len(q) + 1)
           /\ t[Len(q) + 1] = p
           /\ \A i \in DOMAIN q : i \in DOMAIN t /\ t[i] = q[i]
  BY AppendProperties

\* The places of a queue after its first job is taken.
LEMMA TailPlaces ==
    ASSUME NEW q \in Seq(Path), q # <<>>, NEW t, t = Tail(q)
    PROVE  /\ Len(q) \in Nat \ {0}
           /\ DOMAIN q = 1..Len(q) /\ DOMAIN t = 1..(Len(q) - 1)
           /\ Head(q) = q[1] /\ 1 \in DOMAIN q
           /\ \A i \in DOMAIN t : i + 1 \in DOMAIN q /\ t[i] = q[i + 1]
<1>1. Len(q) \in Nat /\ Len(q) # 0 /\ DOMAIN q = 1..Len(q)
  BY EmptySeq
<1>2. Len(t) = Len(q) - 1 /\ \A i \in 1..Len(t) : t[i] = q[i + 1]
  BY <1>1, HeadTailProperties
<1>3. t \in Seq(Path)
  BY HeadTailProperties
<1>4. QED
  BY <1>1, <1>2, <1>3, HeadTailProperties

\* Between Take and Done a thread leaves the tables of jobs alone.
LEMMA WorkFrame ==
    ASSUME Typed, NEW w \in Worker, Stage(w), ~Take(w), ~Done(w)
    PROVE  /\ UNCHANGED <<future, queue, job, todo, accepting>>
           /\ pc[w] # "idle" /\ pc'[w] # "idle"
<1> USE DEF Typed, TypeOK, callerVars, poolVars, Goto
<1>1. CASE Probe(w)         BY <1>1 DEF Probe
<1>2. CASE RecordHit(w)     BY <1>2 DEF RecordHit
<1>3. CASE Resolve(w)       BY <1>3 DEF Resolve
<1>4. CASE Reserve(w)       BY <1>4 DEF Reserve
<1>5. CASE EnsureFast(w)    BY <1>5 DEF EnsureFast
<1>6. CASE Snapshot(w)      BY <1>6 DEF Snapshot
<1>7. CASE Scan(w)          BY <1>7 DEF Scan
<1>8. CASE Gather(w)        BY <1>8 DEF Gather
<1>9. CASE EvictOne(w)
  <2>1. pc[w] = "evict" /\ (pc' = [pc EXCEPT ![w] = "mkdir"] \/ pc' = pc)
    BY <1>9 DEF EvictOne
  <2>2. UNCHANGED <<future, queue, job, todo, accepting>>
    BY <1>9 DEF EvictOne
  <2>3. QED
    BY <2>1, <2>2
<1>10. CASE OutOfSpace(w)   BY <1>10 DEF OutOfSpace
<1>11. CASE MkdirAndOpen(w) BY <1>11 DEF MkdirAndOpen
<1>12. CASE Copy(w)         BY <1>12 DEF Copy
<1>13. CASE Rename(w)       BY <1>13 DEF Rename
<1>14. CASE RecordStaged(w) BY <1>14 DEF RecordStaged
<1>15. CASE Cleanup(w)      BY <1>15 DEF Cleanup
<1>16. CASE Release(w)      BY <1>16 DEF Release
<1>17. CASE RecordError(w)  BY <1>17 DEF RecordError
<1>18. QED
  BY <1>1, <1>2, <1>3, <1>4, <1>5, <1>6, <1>7, <1>8, <1>9, <1>10, <1>11, <1>12,
     <1>13, <1>14, <1>15, <1>16, <1>17 DEF Stage

\* When no job changes place or state, ownership is unchanged.
LEMMA OwnedFrame ==
    ASSUME Owned, UNCHANGED <<future, queue, job>>,
           \A v \in Worker : pc'[v] = "idle" <=> pc[v] = "idle"
    PROVE  Owned'
  BY DEF Owned, QueueOwned, QueueOnce, HeldOwned, HeldOnce, IdleFree, NoneLost, InQueue

\* At the start nobody owns anything.
LEMMA OwnedInit == Init => Owned
  BY DEF Init, Owned, QueueOwned, QueueOnce, HeldOwned, HeldOnce, IdleFree,
         NoneLost, InQueue

\* A new job joins the queue once and is in nobody's hands.
LEMMA OwnedSubmit == Typed /\ Owned /\ SubmitOne => Owned'
<1> SUFFICES ASSUME Typed, Owned, SubmitOne PROVE Owned'
  OBVIOUS
<1> DEFINE p == Head(todo).path
<1>1. UNCHANGED <<pc, job>>
  BY DEF SubmitOne
<1>2. CASE UNCHANGED <<future, queue>>
  BY <1>1, <1>2, OwnedFrame
<1>3. CASE /\ p \in Managed /\ future[p] = "none"
           /\ future' = [future EXCEPT ![p] = "pending"]
           /\ queue' = Append(queue, p)
  <2>1. p \in Path /\ queue \in Seq(Path)
    BY <1>3, PathAssumption DEF Typed, TypeOK
  <2>2. \A q \in Path : future'[q] = IF q = p THEN "pending" ELSE future[q]
    BY <1>3, <2>1 DEF Typed, TypeOK
  <2>3. /\ DOMAIN queue = 1..Len(queue) /\ Len(queue) \in Nat
        /\ DOMAIN queue' = 1..(Len(queue) + 1)
        /\ queue'[Len(queue) + 1] = p
        /\ \A i \in DOMAIN queue : i \in DOMAIN queue' /\ queue'[i] = queue[i]
    BY <1>3, <2>1, AppendPlaces
  <2>4. \A i \in DOMAIN queue : queue[i] \in Path /\ queue[i] # p
    BY <1>3, <2>1 DEF Owned, QueueOwned
  <2>5. \A w \in Worker : pc[w] # "idle" => job[w] \in Path /\ job[w] # p
    BY <1>3 DEF Owned, HeldOwned, Typed, JobOK
  <2>6. QueueOwned' /\ QueueOnce'
    BY <2>1, <2>2, <2>3, <2>4 DEF Owned, QueueOwned, QueueOnce
  <2>7. HeldOwned'
    BY <1>1, <2>2, <2>3, <2>5 DEF Owned, HeldOwned, InQueue
  <2>8. HeldOnce' /\ IdleFree'
    BY <1>1 DEF Owned, HeldOnce, IdleFree
  <2>9. NoneLost'
    BY <1>1, <2>2, <2>3 DEF Owned, NoneLost, InQueue
  <2>10. QED
    BY <2>6, <2>7, <2>8, <2>9 DEF Owned
<1>4. QED
  BY <1>2, <1>3 DEF SubmitOne, poolVars

\* The oldest job goes from the queue to one thread.
LEMMA OwnedTake == ASSUME NEW w \in Worker PROVE Typed /\ Owned /\ Take(w) => Owned'
<1> SUFFICES ASSUME Typed, Owned, Take(w) PROVE Owned'
  OBVIOUS
<1>1. queue # <<>> /\ queue \in Seq(Path) /\ queue' = Tail(queue) /\ UNCHANGED future
  BY DEF Take, Typed, TypeOK
<1>2. /\ Len(queue) \in Nat \ {0}
      /\ DOMAIN queue = 1..Len(queue) /\ DOMAIN queue' = 1..(Len(queue) - 1)
      /\ Head(queue) = queue[1] /\ 1 \in DOMAIN queue
      /\ \A i \in DOMAIN queue' : i + 1 \in DOMAIN queue /\ queue'[i] = queue[i + 1]
  BY <1>1, TailPlaces
<1>3. /\ pc[w] = "idle" /\ pc'[w] = "probe" /\ job'[w] = queue[1]
      /\ \A v \in Worker \ {w} : pc'[v] = pc[v] /\ job'[v] = job[v]
  BY <1>2 DEF Take, Goto, Typed, TypeOK
<1>4. queue[1] \in Path /\ future[queue[1]] = "pending"
  BY <1>1, <1>2 DEF Owned, QueueOwned
<1>5. QueueOwned' /\ QueueOnce'
  BY <1>1, <1>2 DEF Owned, QueueOwned, QueueOnce
<1>6. HeldOwned'
  <2>1. \A i \in DOMAIN queue' : queue'[i] # queue[1]
    BY <1>2 DEF Owned, QueueOnce
  <2>2. \A q : ~InQueue(q) => \A i \in DOMAIN queue' : queue'[i] # q
    BY <1>2 DEF InQueue
  <2>3. QED
    BY <1>1, <1>3, <1>4, <2>1, <2>2 DEF Owned, HeldOwned, InQueue
<1>7. HeldOnce'
  <2>1. \A v \in Worker : pc[v] # "idle" => job[v] # queue[1]
    BY <1>2 DEF Owned, HeldOwned, InQueue
  <2>2. QED
    BY <1>3, <2>1 DEF Owned, HeldOnce
<1>8. IdleFree'
  BY <1>3 DEF Owned, IdleFree
<1>9. NoneLost'
  <2>1. ASSUME NEW q \in Path, future'[q] = "pending"
        PROVE  InQueue(q)' \/ \E v \in Worker : job'[v] = q
    <3>1. CASE InQueue(q)
      <4>1. PICK i \in DOMAIN queue : queue[i] = q
        BY <3>1 DEF InQueue
      <4>2. CASE i = 1
        BY <1>3, <4>1, <4>2
      <4>3. CASE i # 1
        <5>1. i - 1 \in DOMAIN queue' /\ queue'[i - 1] = q
          BY <1>2, <4>1, <4>3
        <5>2. QED
          BY <5>1 DEF InQueue
      <4>4. QED
        BY <4>2, <4>3
    <3>2. ASSUME NEW v \in Worker, job[v] = q
          PROVE  \E u \in Worker : job'[u] = q
      <4>1. v # w
        BY <1>3, <3>2, NullAssumption DEF Owned, IdleFree
      <4>2. QED
        BY <1>3, <3>2, <4>1
    <3>3. QED
      BY <1>1, <2>1, <3>1, <3>2 DEF Owned, NoneLost
  <2>2. QED
    BY <2>1 DEF NoneLost
<1>10. QED
  BY <1>5, <1>6, <1>7, <1>8, <1>9 DEF Owned

\* A job that is over is in no place and no longer pending.
LEMMA OwnedDone == ASSUME NEW w \in Worker PROVE Typed /\ Owned /\ Done(w) => Owned'
<1> SUFFICES ASSUME Typed, Owned, Done(w) PROVE Owned'
  OBVIOUS
<1>1. /\ pc[w] # "idle" /\ pc'[w] = "idle" /\ job'[w] = NoJob /\ UNCHANGED queue
      /\ \A v \in Worker \ {w} : pc'[v] = pc[v] /\ job'[v] = job[v]
  BY DEF Done, Goto, Typed, TypeOK
<1>2. job[w] \in Path /\ ~InQueue(job[w])
  BY <1>1 DEF Owned, HeldOwned, Typed, JobOK
<1>3. /\ future'[job[w]] # "pending"
      /\ \A q \in Path \ {job[w]} : future'[q] = future[q]
  BY <1>2 DEF Done, Typed, TypeOK
<1>4. \A i \in DOMAIN queue : queue[i] \in Path /\ queue[i] # job[w]
  BY <1>2 DEF InQueue, Typed, TypeOK
<1>5. \A v \in Worker \ {w} : pc[v] # "idle" => job[v] \in Path /\ job[v] # job[w]
  BY <1>1 DEF Owned, HeldOnce, Typed, JobOK
<1>6. QueueOwned' /\ QueueOnce'
  BY <1>1, <1>3, <1>4 DEF Owned, QueueOwned, QueueOnce
<1>7. HeldOwned'
  BY <1>1, <1>3, <1>5 DEF Owned, HeldOwned, InQueue
<1>8. HeldOnce' /\ IdleFree'
  BY <1>1 DEF Owned, HeldOnce, IdleFree
<1>9. NoneLost'
  BY <1>1, <1>3 DEF Owned, NoneLost, InQueue
<1>10. QED
  BY <1>6, <1>7, <1>8, <1>9 DEF Owned

\* One case for each step that moves a job.
LEMMA OwnedStep == Typed /\ Owned /\ [Next]_vars => Owned'
<1> SUFFICES ASSUME Typed, Owned, [Next]_vars PROVE Owned'
  OBVIOUS
<1>1. ASSUME NEW w \in Worker, Stage(w), ~Take(w), ~Done(w) PROVE Owned'
  <2>1. \A v \in Worker \ {w} : pc'[v] = pc[v]
    BY <1>1, StageFrame DEF Typed
  <2>2. QED
    BY <1>1, <2>1, WorkFrame, OwnedFrame
<1>2. CASE Restart
  <2>1. /\ future' = [p \in Path |-> "none"] /\ queue' = <<>>
        /\ pc' = [w \in Worker |-> "idle"] /\ job' = [w \in Worker |-> NoJob]
    BY <1>2 DEF Restart
  <2>2. QED
    BY <2>1 DEF Owned, QueueOwned, QueueOnce, HeldOwned, HeldOnce, IdleFree,
                NoneLost, InQueue
<1>3. CASE Shutdown
  BY <1>3, OwnedFrame DEF Shutdown, poolVars
<1>4. ASSUME NEW files \in Hint, Prefetch(files) PROVE Owned'
  BY <1>4, OwnedFrame DEF Prefetch, poolVars
<1>5. CASE UNCHANGED vars
  BY <1>5, OwnedFrame DEF vars
<1>6. QED
  BY <1>1, <1>2, <1>3, <1>4, <1>5, OwnedSubmit, OwnedTake, OwnedDone DEF Next

\* A set with exactly one element, or none, has that cardinality.
LEMMA AtMostOne ==
    ASSUME NEW S, \A x, y \in S : x = y
    PROVE  Cardinality(S) = IF S = {} THEN 0 ELSE 1
<1>1. CASE S = {}
  BY <1>1, FS_EmptySet
<1>2. CASE S # {}
  <2>1. PICK x : x \in S
    BY <1>2
  <2>2. S = {x}
    BY <2>1
  <2>3. QED
    BY <1>2, <2>2, FS_Singleton
<1>3. QED
  BY <1>1, <1>2

\* The ownership invariant counts to at most one place per key.
LEMMA OwnedOnce == Typed /\ Owned => EveryJobOwnedOnce
<1> SUFFICES ASSUME Typed, Owned, NEW p \in Path
             PROVE  Cardinality(Queued(p)) + Cardinality(Holders(p))
                      = IF future[p] = "pending" THEN 1 ELSE 0
  BY DEF EveryJobOwnedOnce
<1>1. \A i, j \in Queued(p) : i = j
  BY DEF Queued, Owned, QueueOnce
<1>2. \A w \in Holders(p) : pc[w] # "idle"
  BY NullAssumption DEF Holders, Owned, IdleFree
<1>3. \A w, v \in Holders(p) : w = v
  BY <1>2 DEF Holders, Owned, HeldOnce
<1>4. future[p] = "pending" => Queued(p) # {} \/ Holders(p) # {}
  BY DEF Queued, Holders, Owned, NoneLost, InQueue
<1>5. Queued(p) # {} => future[p] = "pending"
  BY DEF Queued, Owned, QueueOwned
<1>6. Holders(p) # {} => future[p] = "pending" /\ Queued(p) = {}
  BY <1>2 DEF Queued, Holders, Owned, HeldOwned, InQueue
<1>7. /\ Cardinality(Queued(p)) = IF Queued(p) = {} THEN 0 ELSE 1
      /\ Cardinality(Holders(p)) = IF Holders(p) = {} THEN 0 ELSE 1
  BY <1>1, <1>3, AtMostOne
<1>8. QED
  BY <1>4, <1>5, <1>6, <1>7

\* Whatever threads, failures and restarts interleave, an accepted job is in
\* exactly one place until its future is done.
THEOREM OneOwner == Spec => []EveryJobOwnedOnce
  BY TypedInit, TypedStep, OwnedInit, OwnedStep, OwnedOnce, PTL DEF Spec

-----------------------------------------------------------------------------
(***************************************************************************)
(* Reports.  Only RecordStaged says "staged", for its own job and root,    *)
(* and after it the thread only has to return.                             *)
(***************************************************************************)
ReportedLast == \A p \in Path, r \in Root : StagedAt(p, r) =>
    /\ future[p] # "none" /\ ~InQueue(p)
    /\ \A w \in Worker : pc[w] # "idle" /\ job[w] = p => pc[w] = "return"

\* Recording an outcome adds it to the job's reports and to no other.
LEMMA RecordAdds ==
    ASSUME Typed, NEW w \in Worker, pc[w] # "idle", NEW o \in Outcome, Record(w, o)
    PROVE  \A p \in Path, r \in Root :
             StagedAt(p, r)' <=>
                StagedAt(p, r) \/ (o = "staged" /\ p = job[w] /\ r = root[w])
<1> DEFINE e == [outcome |-> o, root |-> root[w]]
<1>1. job[w] \in Path /\ root[w] \in Root /\ e \in Event
  BY DEF Typed, TypeOK, JobOK, Event
<1>2. report[job[w]] \in Seq(Event)
  BY <1>1 DEF Typed, TypeOK
<1>3. /\ report'[job[w]] = Append(report[job[w]], e)
      /\ \A p \in Path \ {job[w]} : report'[p] = report[p]
  BY <1>1 DEF Record, Typed, TypeOK
<1>4. {report'[job[w]][i] : i \in DOMAIN report'[job[w]]}
        = {report[job[w]][i] : i \in DOMAIN report[job[w]]} \cup {e}
  <2> DEFINE q == report[job[w]]
             t == report'[job[w]]
  <2>1. /\ DOMAIN q = 1..Len(q) /\ Len(q) \in Nat /\ DOMAIN t = 1..(Len(q) + 1)
        /\ t[Len(q) + 1] = e
        /\ \A i \in 1..Len(q) : t[i] = q[i]
    BY <1>1, <1>2, <1>3, AppendProperties
  <2> HIDE DEF q, t, e
  <2>2. {t[i] : i \in DOMAIN t} \subseteq {q[i] : i \in DOMAIN q} \cup {e}
    BY <2>1
  <2>3. {q[i] : i \in DOMAIN q} \cup {e} \subseteq {t[i] : i \in DOMAIN t}
    <3>1. \A i \in DOMAIN q : i \in DOMAIN t /\ q[i] = t[i]
      BY <2>1
    <3>2. Len(q) + 1 \in DOMAIN t
      BY <2>1
    <3>3. QED
      BY <2>1, <3>1, <3>2
  <2>4. QED
    BY <2>2, <2>3 DEF q, t, e
<1>5. \A r \in Root : [outcome |-> "staged", root |-> r] = e
                        <=> o = "staged" /\ r = root[w]
  OBVIOUS
<1> HIDE DEF e
<1>6. ASSUME NEW p \in Path \ {job[w]}, NEW r \in Root
      PROVE  StagedAt(p, r)' <=> StagedAt(p, r)
  BY <1>3, <1>6 DEF StagedAt
<1>7. ASSUME NEW p \in Path, p = job[w], NEW r \in Root
      PROVE  StagedAt(p, r)' <=> StagedAt(p, r) \/ (o = "staged" /\ r = root[w])
  <2> DEFINE x == [outcome |-> "staged", root |-> r]
  <2>1. x = e <=> o = "staged" /\ r = root[w]
    BY <1>5
  <2>2. /\ StagedAt(p, r) <=> x \in {report[p][i] : i \in DOMAIN report[p]}
        /\ StagedAt(p, r)' <=> x \in {report'[p][i] : i \in DOMAIN report'[p]}
    BY DEF StagedAt
  <2>3. {report'[p][i] : i \in DOMAIN report'[p]}
          = {report[p][i] : i \in DOMAIN report[p]} \cup {e}
    BY <1>4, <1>7
  <2> HIDE DEF x
  <2>4. QED
    BY <2>1, <2>2, <2>3
<1>8. QED
  BY <1>6, <1>7

\* What a step does to the reports.
LEMMA ReportStep ==
    ASSUME Typed, NEW w \in Worker, Stage(w)
    PROVE  \A p \in Path, r \in Root :
             StagedAt(p, r)' <=>
                StagedAt(p, r) \/ (pc[w] = "record" /\ p = job[w] /\ r = root[w])
<1> USE DEF Goto
<1>1. CASE RecordHit(w)
  <2>1. pc[w] = "hit" /\ (Record(w, "hit") \/ UNCHANGED report)
    BY <1>1 DEF RecordHit
  <2>2. QED
    BY <2>1, RecordAdds DEF Outcome, StagedAt
<1>2. CASE Resolve(w)
  <2>1. pc[w] = "resolve" /\ (Record(w, "skip_oversize") \/ UNCHANGED report)
    BY <1>2 DEF Resolve
  <2>2. QED
    BY <2>1, RecordAdds DEF Outcome, StagedAt
<1>3. CASE RecordStaged(w)
  <2>1. pc[w] = "record" /\ Record(w, "staged")
    BY <1>3 DEF RecordStaged
  <2>2. QED
    BY <2>1, RecordAdds DEF Outcome
<1>4. CASE RecordError(w)
  <2>1. pc[w] = "error" /\ Record(w, "error")
    BY <1>4 DEF RecordError
  <2>2. QED
    BY <2>1, RecordAdds DEF Outcome
<1>5. ASSUME ~RecordHit(w), ~Resolve(w), ~RecordStaged(w), ~RecordError(w)
      PROVE  UNCHANGED report /\ pc[w] # "record"
  BY <1>5 DEF Stage, Take, Probe, Reserve, EnsureFast, Snapshot, Scan, Gather,
              EvictOne, OutOfSpace, MkdirAndOpen, Copy, Rename, Cleanup, Release,
              Done
<1>6. QED
  BY <1>1, <1>2, <1>3, <1>4, <1>5 DEF StagedAt

\* A thread at its return can only be done.
LEMMA ReturnIsLast ==
    ASSUME NEW w \in Worker, Stage(w), pc[w] = "return" PROVE Done(w)
  BY DEF Stage, Goto, Take, Probe, RecordHit, Resolve, Reserve, EnsureFast,
         Snapshot, Scan, Gather, EvictOne, OutOfSpace, MkdirAndOpen, Copy, Rename,
         RecordStaged, Cleanup, Release, RecordError

\* A thread whose rename succeeded can only report it.
LEMMA RecordIsStaged ==
    ASSUME NEW w \in Worker, Stage(w), pc[w] = "record" PROVE RecordStaged(w)
  BY DEF Stage, Goto, Take, Probe, RecordHit, Resolve, Reserve, EnsureFast,
         Snapshot, Scan, Gather, EvictOne, OutOfSpace, MkdirAndOpen, Copy, Rename,
         Done, Cleanup, Release, RecordError

\* A reported key keeps its future and is never queued or started again.
LEMMA ReportedStep ==
    Typed /\ Owned /\ ReportedLast /\ [Next]_vars => ReportedLast'
<1> SUFFICES ASSUME Typed, Owned, ReportedLast, [Next]_vars,
                    NEW p \in Path, NEW r \in Root, StagedAt(p, r)'
             PROVE  /\ future'[p] # "none" /\ ~InQueue(p)'
                    /\ \A w \in Worker : pc'[w] # "idle" /\ job'[w] = p
                                          => pc'[w] = "return"
  BY DEF ReportedLast
<1> DEFINE Goal == /\ future'[p] # "none" /\ ~InQueue(p)'
                   /\ \A w \in Worker : pc'[w] # "idle" /\ job'[w] = p
                                         => pc'[w] = "return"
<1>0. StagedAt(p, r) => /\ future[p] # "none" /\ ~InQueue(p)
                        /\ \A w \in Worker : pc[w] # "idle" /\ job[w] = p
                                              => pc[w] = "return"
  BY DEF ReportedLast
<1>1. ASSUME UNCHANGED <<report, future, queue, pc, job>> PROVE Goal
  BY <1>0, <1>1 DEF StagedAt, InQueue
<1>2. CASE SubmitOne
  <2>1. UNCHANGED <<report, pc, job>> /\ StagedAt(p, r)
    BY <1>2 DEF SubmitOne, StagedAt
  <2>2. CASE UNCHANGED <<future, queue>>
    BY <1>1, <2>1, <2>2
  <2>3. CASE LET q == Head(todo).path IN
             /\ q \in Managed /\ future[q] = "none"
             /\ future' = [future EXCEPT ![q] = "pending"]
             /\ queue' = Append(queue, q)
    <3> DEFINE q == Head(todo).path
    <3>1. q # p /\ q \in Path /\ queue \in Seq(Path)
      BY <1>0, <2>1, <2>3, PathAssumption DEF Typed, TypeOK
    <3>2. future'[p] = future[p]
      BY <2>3, <3>1 DEF Typed, TypeOK
    <3>3. ~InQueue(p)'
      <4>1. queue' = Append(queue, q)
        BY <2>3
      <4> HIDE DEF q
      <4>2. /\ DOMAIN queue = 1..Len(queue) /\ Len(queue) \in Nat
            /\ DOMAIN queue' = 1..(Len(queue) + 1)
            /\ queue'[Len(queue) + 1] = q
            /\ \A i \in DOMAIN queue : i \in DOMAIN queue' /\ queue'[i] = queue[i]
        BY <3>1, <4>1, AppendPlaces
      <4>3. \A i \in DOMAIN queue : queue[i] # p
        BY <1>0, <2>1 DEF InQueue
      <4>4. QED
        BY <3>1, <4>2, <4>3 DEF InQueue
    <3>4. QED
      BY <1>0, <2>1, <3>2, <3>3
  <2>4. QED
    BY <1>2, <2>2, <2>3 DEF SubmitOne, poolVars
<1>3. ASSUME NEW w \in Worker, Take(w) PROVE Goal
  <2>1. UNCHANGED <<report, future>> /\ StagedAt(p, r)
    BY <1>3 DEF Take, StagedAt
  <2>2. queue # <<>> /\ queue \in Seq(Path) /\ queue' = Tail(queue)
    BY <1>3 DEF Take, Typed, TypeOK
  <2>3. /\ DOMAIN queue = 1..Len(queue) /\ DOMAIN queue' = 1..(Len(queue) - 1)
        /\ Head(queue) = queue[1] /\ 1 \in DOMAIN queue
        /\ \A i \in DOMAIN queue' : i + 1 \in DOMAIN queue /\ queue'[i] = queue[i + 1]
    BY <2>2, TailPlaces
  <2>4. ~InQueue(p) /\ ~InQueue(p)' /\ Head(queue) # p
    BY <1>0, <2>1, <2>3 DEF InQueue
  <2>5. job'[w] = Head(queue) /\ \A v \in Worker \ {w} : pc'[v] = pc[v] /\ job'[v] = job[v]
    BY <1>3 DEF Take, Goto, Typed, TypeOK
  <2>6. QED
    BY <1>0, <2>1, <2>4, <2>5
<1>4. ASSUME NEW w \in Worker, Done(w) PROVE Goal
  <2>1. UNCHANGED <<report, queue>> /\ StagedAt(p, r)
    BY <1>4 DEF Done, StagedAt
  <2>2. /\ pc'[w] = "idle"
        /\ \A v \in Worker \ {w} : pc'[v] = pc[v] /\ job'[v] = job[v]
    BY <1>4 DEF Done, Goto, Typed, TypeOK
  <2>3. future'[p] # "none"
    BY <1>0, <1>4, <2>1 DEF Done, Typed, TypeOK
  <2>4. QED
    BY <1>0, <2>1, <2>2, <2>3 DEF InQueue
<1>5. ASSUME NEW w \in Worker, Stage(w), ~Take(w), ~Done(w) PROVE Goal
  <2>1. /\ UNCHANGED <<future, queue, job>> /\ pc[w] # "idle"
        /\ \A v \in Worker \ {w} : pc'[v] = pc[v]
    BY <1>5, WorkFrame, StageFrame DEF Typed
  <2>2. CASE StagedAt(p, r)
    <3>1. job[w] # p
      BY <1>0, <1>5, <2>1, <2>2, ReturnIsLast
    <3>2. QED
      BY <1>0, <2>1, <2>2, <3>1 DEF InQueue
  <2>3. CASE ~StagedAt(p, r)
    <3>1. pc[w] = "record" /\ p = job[w]
      BY <1>5, <2>3, ReportStep
    <3>2. pc'[w] = "return"
      <4>1. RecordStaged(w)
        BY <1>5, <3>1, RecordIsStaged
      <4>2. QED
        BY <4>1 DEF RecordStaged, Goto, Typed, TypeOK
    <3>3. future[p] = "pending" /\ ~InQueue(p)
      BY <2>1, <3>1 DEF Owned, HeldOwned
    <3>4. \A v \in Worker \ {w} : pc[v] # "idle" => job[v] # p
      BY <2>1, <3>1 DEF Owned, HeldOnce
    <3>5. QED
      BY <2>1, <3>1, <3>2, <3>3, <3>4 DEF InQueue
  <2>4. QED
    BY <2>2, <2>3
<1>6. CASE Restart
  BY <1>6 DEF Restart, StagedAt
<1>7. CASE UNCHANGED vars
  BY <1>1, <1>7 DEF vars
<1>8. ASSUME (\E files \in Hint : Prefetch(files)) \/ Shutdown PROVE Goal
  BY <1>1, <1>8 DEF Prefetch, Shutdown, poolVars
<1>9. QED
  BY <1>2, <1>3, <1>4, <1>5, <1>6, <1>7, <1>8 DEF Next

-----------------------------------------------------------------------------
(***************************************************************************)
(* Tiers.  A single-tier thread only ever works under hot_root; a two-tier *)
(* one never sweeps.                                                       *)
(***************************************************************************)
Sweeping == {"ensure", "snapshot", "scan", "gather", "evict"}
TierOK == \A w \in Worker :
    IF HasOverflow THEN pc[w] \notin Sweeping ELSE root[w] = "hot_root"

\* Only _pick_target_root changes the root, and it respects the tiers.
LEMMA TierStep == Typed /\ TierOK /\ [Next]_vars => TierOK'
<1> SUFFICES ASSUME Typed, TierOK, [Next]_vars, NEW v \in Worker
             PROVE  IF HasOverflow THEN pc'[v] \notin Sweeping ELSE root'[v] = "hot_root"
  BY DEF TierOK
<1> DEFINE Goal == IF HasOverflow THEN pc'[v] \notin Sweeping
                                 ELSE root'[v] = "hot_root"
<1>0. IF HasOverflow THEN pc[v] \notin Sweeping ELSE root[v] = "hot_root"
  BY DEF TierOK
<1>1. ASSUME pc'[v] = pc[v], root'[v] = root[v] PROVE Goal
  BY <1>0, <1>1
<1>2. ASSUME NEW w \in Worker, Stage(w), w # v PROVE Goal
  BY <1>0, <1>2, StageFrame DEF Typed
<1>3. CASE Stage(v)
  <2> USE DEF Goto, Typed, TypeOK, Sweeping, callerVars, poolVars, diskVars, sweepVars
  <2>1. CASE Probe(v)
    BY <1>0, <2>1 DEF Probe, HotRootFor
  <2>2. CASE Reserve(v)
    BY <1>0, <2>2 DEF Reserve, PickTargetRoot
  <2>3. CASE Done(v)
    BY <1>0, <2>3 DEF Done
  <2>4. CASE EvictOne(v)
    <3>1. pc[v] = "evict" /\ UNCHANGED root
      BY <2>4 DEF EvictOne
    <3>2. QED
      BY <1>0, <3>1
  <2>5. CASE EnsureFast(v) \/ Snapshot(v) \/ Scan(v) \/ Gather(v) \/ OutOfSpace(v)
    BY <1>0, <2>5 DEF EnsureFast, Snapshot, Scan, Gather, OutOfSpace
  <2>6. CASE \/ Take(v) \/ RecordHit(v) \/ Resolve(v) \/ MkdirAndOpen(v) \/ Copy(v)
             \/ Rename(v) \/ RecordStaged(v) \/ Cleanup(v) \/ Release(v)
             \/ RecordError(v)
    BY <1>0, <2>6 DEF Take, RecordHit, Resolve, MkdirAndOpen, Copy, Rename,
                      RecordStaged, Cleanup, Release, RecordError
  <2>7. QED
    BY <1>3, <2>1, <2>2, <2>3, <2>4, <2>5, <2>6 DEF Stage
<1>4. CASE Restart
  BY <1>4 DEF Restart, Sweeping
<1>5. QED
  BY <1>1, <1>2, <1>3, <1>4 DEF Next, Prefetch, SubmitOne, Shutdown, vars

(***************************************************************************)
(* With two tiers a mirror that was published stays: nothing is evicted,   *)
(* and a rename over a mirror puts the same bytes there.                   *)
(***************************************************************************)
PublishedOK == HasOverflow =>
    /\ \A w \in Worker : pc[w] = "record" => hot[root[w]][Target(w)] = Real[Target(w)]
    /\ StagedStaysHot

\* A mirror that is whole is left whole by every step of a two-tier stager.
LEMMA WholeStays ==
    ASSUME Typed, TierOK, HasOverflow, [Next]_vars,
           NEW r \in Root, NEW p \in Path, hot[r][p] = Real[p]
    PROVE  hot'[r][p] = Real[p]
<1>1. ASSUME NEW w \in Worker, EvictOne(w) PROVE FALSE
  BY <1>1 DEF EvictOne, TierOK, Sweeping
<1>2. ASSUME NEW w \in Worker, Rename(w) PROVE hot'[r][p] = Real[p]
  <2>1. TmpFile(w) = Real[Target(w)]
    BY <1>2 DEF Rename, Goto, Typed, CopyOK
  <2>2. hot \in [Root -> [Path -> FileSize]] /\ root[w] \in Root
    BY DEF Typed, TypeOK
  <2>3. UNCHANGED hot \/ hot' = [hot EXCEPT ![root[w]][Target(w)] = TmpFile(w)]
    BY <1>2 DEF Rename, diskVars
  <2>4. CASE hot' = [hot EXCEPT ![root[w]][Target(w)] = TmpFile(w)]
    BY <2>1, <2>2, <2>4, SetHotValue
  <2>5. QED
    BY <2>3, <2>4
<1>3. ASSUME NEW w \in Worker, Stage(w), ~EvictOne(w), ~Rename(w)
      PROVE  UNCHANGED hot
  BY <1>3 DEF Stage, Take, Probe, RecordHit, Resolve, Reserve, EnsureFast,
              Snapshot, Scan, Gather, OutOfSpace, MkdirAndOpen, Copy, RecordStaged,
              Cleanup, Release, RecordError, Done, diskVars
<1>4. QED
  BY <1>1, <1>2, <1>3
     DEF Next, Prefetch, SubmitOne, Shutdown, Restart, diskVars, vars

\* What is published with two tiers is there until the process ends.
LEMMA PublishedStep ==
    Typed /\ TierOK /\ PublishedOK /\ [Next]_vars => PublishedOK'
<1> SUFFICES ASSUME Typed, TierOK, PublishedOK, HasOverflow, [Next]_vars
             PROVE  /\ \A v \in Worker : pc'[v] = "record"
                          => hot'[root'[v]][Target(v)'] = Real[Target(v)']
                    /\ StagedStaysHot'
  BY DEF PublishedOK
<1> USE PathAssumption
<1>1. ASSUME NEW v \in Worker, pc'[v] = "record"
      PROVE  hot'[root'[v]][Target(v)'] = Real[Target(v)']
  <2>1. ASSUME pc[v] = "record", UNCHANGED <<job[v], root[v]>>
        PROVE  hot'[root'[v]][Target(v)'] = Real[Target(v)']
    <3>1. root[v] \in Root /\ Target(v) \in Path /\ Target(v)' = Target(v)
      BY <2>1 DEF Typed, TypeOK, JobOK, Target
    <3>2. hot[root[v]][Target(v)] = Real[Target(v)]
      BY <2>1 DEF PublishedOK
    <3>3. QED
      BY <2>1, <3>1, <3>2, WholeStays
  <2>2. ASSUME NEW w \in Worker, Stage(w), w # v
        PROVE  pc[v] = "record" /\ UNCHANGED <<job[v], root[v]>>
    BY <1>1, <2>2, StageFrame DEF Typed
  <2>3. CASE Rename(v)
    <3>1. TmpFile(v) = Real[Target(v)] /\ pc[v] = "rename"
      BY <2>3 DEF Rename, Goto, Typed, CopyOK
    <3>2. root[v] \in Root /\ Target(v) \in Path
      BY <3>1 DEF Typed, TypeOK, JobOK, Target
    <3>3. hot' = [hot EXCEPT ![root[v]][Target(v)] = TmpFile(v)] /\ UNCHANGED <<job, root>>
      BY <1>1, <2>3 DEF Rename, Goto, Typed, TypeOK
    <3>4. hot'[root[v]][Target(v)] = TmpFile(v)
      BY <3>2, <3>3 DEF Typed, TypeOK
    <3>5. QED
      BY <3>1, <3>3, <3>4 DEF Target
  <2>4. ASSUME Stage(v), ~Rename(v) PROVE FALSE
    <3>1. CASE EvictOne(v)
      BY <3>1 DEF EvictOne, TierOK, Sweeping
    <3>2. CASE ~EvictOne(v)
      BY <1>1, <2>4, <3>2 DEF Stage, Goto, Take, Probe, RecordHit, Resolve, Reserve,
         EnsureFast, Snapshot, Scan, Gather, OutOfSpace, MkdirAndOpen, Copy,
         RecordStaged, Cleanup, Release, RecordError, Done, Typed, TypeOK
    <3>3. QED
      BY <3>1, <3>2
  <2>5. ~Restart
    BY <1>1 DEF Restart
  <2>6. QED
    BY <1>1, <2>1, <2>2, <2>3, <2>4, <2>5 DEF Next, Prefetch, SubmitOne, Shutdown, vars
<1>2. ASSUME NEW p \in Path, NEW r \in Root, StagedAt(p, r)'
      PROVE  hot'[r][Canon[p]] = Real[Canon[p]]
  <2>1. ASSUME StagedAt(p, r) PROVE hot'[r][Canon[p]] = Real[Canon[p]]
    BY <2>1, WholeStays DEF PublishedOK, StagedStaysHot
  <2>2. ASSUME NEW w \in Worker, Stage(w), ~StagedAt(p, r)
        PROVE  hot'[r][Canon[p]] = Real[Canon[p]]
    <3>1. pc[w] = "record" /\ p = job[w] /\ r = root[w]
      BY <1>2, <2>2, ReportStep
    <3>2. hot[r][Canon[p]] = Real[Canon[p]]
      BY <3>1 DEF PublishedOK, Target
    <3>3. QED
      BY <3>2, WholeStays
  <2>3. ~Restart
    BY <1>2 DEF Restart, StagedAt
  <2>4. ASSUME UNCHANGED report PROVE StagedAt(p, r)
    BY <1>2, <2>4 DEF StagedAt
  <2>5. QED
    BY <2>1, <2>2, <2>3, <2>4 DEF Next, Prefetch, SubmitOne, Shutdown, vars
<1>3. QED
  BY <1>1, <1>2 DEF StagedStaysHot

\* With two tiers, what a report calls staged is under that root, whole, for
\* as long as the process lives.
THEOREM StagedStays == Spec => []StagedStaysHot
<1>1. Init => TierOK /\ PublishedOK
  BY DEF Init, TierOK, Sweeping, PublishedOK, StagedStaysHot, StagedAt
<1>2. PublishedOK => StagedStaysHot
  BY DEF PublishedOK, StagedStaysHot
<1>3. QED
  BY <1>1, <1>2, TypedInit, TypedStep, TierStep, PublishedStep, PTL DEF Spec

-----------------------------------------------------------------------------
(***************************************************************************)
(* Refinement.  A rename publishes, a sweep drops, the end of a job        *)
(* settles it; the other steps of a job are invisible.                     *)
(***************************************************************************)
Requested == {p \in Path : future[p] # "none"}
Settled == {p \in Path : future[p] \in {"result", "exception"}}
Mirror == [r \in Root |-> {p \in Path : hot[r][p] = Real[p]}]

\* A job between its start and its rename is open and unpublished.
LEMMA NotYetPublished ==
    ASSUME Typed, Owned, ReportedLast, NEW w \in Worker,
           pc[w] \notin {"idle", "record", "return"}
    PROVE  job[w] \in (Requested \ Settled) \ Published
<1>1. job[w] \in Path /\ future[job[w]] = "pending"
  BY DEF Typed, JobOK, Owned, HeldOwned
<1>2. \A r \in Root : ~StagedAt(job[w], r)
  BY <1>1 DEF ReportedLast
<1>3. \A v \in Worker : pc[v] = "record" => job[v] # job[w]
  BY DEF Owned, HeldOnce
<1>4. QED
  BY <1>1, <1>2, <1>3 DEF Requested, Settled, Published

\* Only a successful rename adds a published path; none is taken back.
LEMMA PublishedMoves ==
    ASSUME Typed, NEW w \in Worker, Stage(w)
    PROVE  Published' = IF pc'[w] = "record" /\ pc[w] # "record"
                        THEN Published \cup {job[w]} ELSE Published
<1>1. \A p \in Path, r \in Root :
        StagedAt(p, r)' <=>
            StagedAt(p, r) \/ (pc[w] = "record" /\ p = job[w] /\ r = root[w])
  BY ReportStep
<1>2. \A v \in Worker \ {w} : pc'[v] = pc[v] /\ job'[v] = job[v]
  BY StageFrame DEF Typed
<1>3. pc[w] = "record" => /\ job[w] \in Path /\ root[w] \in Root
                          /\ pc'[w] = "return"
  <2>1. ASSUME pc[w] = "record" PROVE pc'[w] = "return"
    BY <2>1, RecordIsStaged DEF RecordStaged, Goto, Typed, TypeOK
  <2>2. QED
    BY <2>1 DEF Typed, TypeOK, JobOK
<1>4. pc'[w] = "record" => job'[w] = job[w]
  <2>1. CASE Take(w) \/ Done(w)
    BY <2>1 DEF Take, Done, Goto, Typed, TypeOK
  <2>2. QED
    BY <2>1, WorkFrame
<1>5. QED
  BY <1>1, <1>2, <1>3, <1>4 DEF Published

\* A step of a job between Take and Done, as Staging sees it.
LEMMA WorkRefines ==
    ASSUME Typed, NeverPartial, Owned, ReportedLast, TierOK,
           NEW w \in Worker, Stage(w), ~Take(w), ~Done(w)
    PROVE  [Abstract!Next]_(Abstract!vars)
<1> USE DEF Goto
<1>1. UNCHANGED <<Requested, Settled>>
  BY WorkFrame DEF Requested, Settled
<1>2. pc[w] # "idle" /\ job[w] \in Path /\ root[w] \in Root /\ Target(w) \in Path
  BY WorkFrame, PathAssumption DEF Typed, TypeOK, JobOK, Target
<1>3. CASE Rename(w) /\ pc'[w] = "record"
  <2>1. pc[w] = "rename" /\ TmpFile(w) = Real[Target(w)]
    BY <1>3 DEF Rename, Typed, CopyOK
  <2>2. hot' = [hot EXCEPT ![root[w]][Target(w)] = Real[Target(w)]]
    BY <1>2, <1>3, <2>1 DEF Rename, Typed, TypeOK
  <2>3. Mirror' = [Mirror EXCEPT ![root[w]] = @ \cup {Canon[job[w]]}]
    <3> DEFINE x == root[w]
               y == Target(w)
    <3>1. /\ hot \in [Root -> [Path -> FileSize]] /\ x \in Root /\ y \in Path
          /\ hot' = [hot EXCEPT ![x][y] = Real[y]] /\ y = Canon[job[w]]
      BY <1>2, <2>2 DEF Typed, TypeOK, Target
    <3> HIDE DEF x, y
    <3>2. hot'[x] = [hot[x] EXCEPT ![y] = Real[y]] /\ hot[x] \in [Path -> FileSize]
      BY <3>1
    <3>3. \A r \in Root \ {x} : hot'[r] = hot[r]
      BY <3>1
    <3>4. {p \in Path : hot'[x][p] = Real[p]}
            = {p \in Path : hot[x][p] = Real[p]} \cup {y}
      BY <3>1, <3>2
    <3>5. Mirror' = [Mirror EXCEPT ![x] = @ \cup {y}]
      BY <3>1, <3>3, <3>4 DEF Mirror
    <3>6. QED
      BY <3>1, <3>5 DEF x
  <2>4. Published' = Published \cup {job[w]}
    BY <1>3, <2>1, PublishedMoves
  <2>5. job[w] \in (Requested \ Settled) \ Published
    BY <2>1, NotYetPublished
  <2>6. HasOverflow \/ root[w] = "hot_root"
    BY DEF TierOK
  <2>7. PICK q \in Path, x \in Root : q = job[w] /\ x = root[w]
    BY <1>2
  <2>8. Abstract!Publish(q, x)
    BY <1>1, <2>3, <2>4, <2>5, <2>6, <2>7
       DEF Abstract!Publish, Abstract!Open, Requested, Settled, Mirror
  <2>9. Abstract!Next
    BY <2>8 DEF Abstract!Next, Abstract!Root, Root
  <2>10. QED
    BY <2>9
<1>4. CASE EvictOne(w)
  <2>1. pc[w] = "evict" /\ UNCHANGED report /\ UNCHANGED job
        /\ pc'[w] # "record"
    <3>1. pc[w] = "evict" /\ UNCHANGED report /\ UNCHANGED job
      BY <1>4 DEF EvictOne
    <3>2. pc' = [pc EXCEPT ![w] = "mkdir"] \/ pc' = pc
      BY <1>4 DEF EvictOne
    <3>3. QED
      BY <3>1, <3>2 DEF Typed, TypeOK
  <2>2. UNCHANGED Published
    BY <2>1, PublishedMoves
  <2>3. ~HasOverflow
    BY <2>1 DEF TierOK, Sweeping
  <2>4. job[w] \in (Requested \ Settled) \ Published
    BY <2>1, NotYetPublished
  <2>5. CASE UNCHANGED hot
    BY <1>1, <2>2, <2>5 DEF Abstract!vars, Requested, Settled
  <2>6. ASSUME NEW p \in cand[w], Exists("hot_root", p),
               hot' = [hot EXCEPT !["hot_root"][p] = NoFile]
        PROVE  Abstract!Next
    <3>1. p \in Path
      BY <2>6 DEF Typed, TypeOK
    <3>2. hot["hot_root"][p] = Real[p]
      BY <2>6, <3>1 DEF NeverPartial, Exists, Root
    <3>3. NoFile # Real[p]
      BY <3>1, PathAssumption, NullAssumption
    <3>4. Mirror' = [Mirror EXCEPT !["hot_root"] = @ \ {p}]
      BY <2>6, <3>1, <3>3 DEF Mirror, Root, Typed, TypeOK
    <3>5. Abstract!Drop(p)
      BY <1>1, <2>2, <2>3, <2>4, <3>1, <3>2, <3>4
         DEF Abstract!Drop, Abstract!Open, Requested, Settled, Mirror, Root
    <3>6. QED
      BY <3>1, <3>5 DEF Abstract!Next
  <2>7. UNCHANGED hot \/ \E p \in cand[w] :
            /\ Exists("hot_root", p)
            /\ hot' = [hot EXCEPT !["hot_root"][p] = NoFile]
    BY <1>4 DEF EvictOne
  <2>8. QED
    BY <2>5, <2>6, <2>7
<1>5. CASE ~EvictOne(w) /\ ~(Rename(w) /\ pc'[w] = "record")
  <2>1. UNCHANGED hot /\ ~(pc'[w] = "record" /\ pc[w] # "record")
    BY <1>2, <1>5
       DEF Stage, Probe, RecordHit, Resolve, Reserve, EnsureFast, Snapshot, Scan,
           Gather, OutOfSpace, MkdirAndOpen, Copy, Rename, RecordStaged, Cleanup,
           Release, RecordError, diskVars, Typed, TypeOK
  <2>2. UNCHANGED Published
    BY <2>1, PublishedMoves
  <2>3. QED
    BY <1>1, <2>1, <2>2 DEF Abstract!vars, Requested, Settled
<1>6. QED
  BY <1>3, <1>4, <1>5

\* Submitting a new key requests it; a dropped or repeated one is invisible.
LEMMA SubmitRefines ==
    ASSUME Typed, SubmitOne PROVE [Abstract!Next]_(Abstract!vars)
<1> DEFINE p == Head(todo).path
<1>1. UNCHANGED <<Published, Mirror>>
  BY DEF SubmitOne, diskVars, Published, StagedAt, Mirror
<1>2. CASE UNCHANGED future
  BY <1>1, <1>2 DEF Abstract!vars, Mirror
<1>3. CASE /\ p \in Managed /\ future[p] = "none"
           /\ future' = [future EXCEPT ![p] = "pending"]
  <2>1. p \in Path
    BY <1>3, PathAssumption
  <2> HIDE DEF p
  <2>2. Requested' = Requested \cup {p} /\ Settled' = Settled
    BY <1>3, <2>1 DEF Requested, Settled, Typed, TypeOK
  <2>3. p \notin Requested
    BY <1>3 DEF Requested
  <2>4. PICK q \in Path : q = p
    BY <2>1
  <2>5. Abstract!Request(q)
    BY <1>1, <1>3, <2>2, <2>3, <2>4
       DEF Abstract!Request, Requested, Settled, Mirror
  <2>6. Abstract!Next
    BY <2>5 DEF Abstract!Next
  <2>7. QED
    BY <2>6
<1>4. QED
  BY <1>2, <1>3 DEF SubmitOne, poolVars

\* Taking a job is invisible; its end settles it.
LEMMA JobRefines ==
    ASSUME Typed, Owned, NEW w \in Worker, Take(w) \/ Done(w)
    PROVE  [Abstract!Next]_(Abstract!vars)
<1> USE DEF Goto
<1>1. UNCHANGED Mirror
  BY DEF Take, Done, diskVars, Mirror
<1>2. UNCHANGED Published
  <2>1. pc'[w] \in {"probe", "idle"}
    BY DEF Take, Done, Typed, TypeOK
  <2>2. Stage(w)
    BY DEF Stage
  <2>3. QED
    BY <2>1, <2>2, PublishedMoves
<1>3. CASE Take(w)
  BY <1>1, <1>2, <1>3 DEF Take, Abstract!vars, Mirror
<1>4. CASE Done(w)
  <2>1. job[w] \in Path /\ future[job[w]] = "pending"
    BY <1>4 DEF Done, Owned, HeldOwned, Typed, JobOK
  <2>2. \E f \in {"result", "exception"} : future' = [future EXCEPT ![job[w]] = f]
    BY <1>4 DEF Done
  <2>3. Requested' = Requested /\ Settled' = Settled \cup {job[w]}
    BY <2>1, <2>2 DEF Requested, Settled, Typed, TypeOK
  <2>4. job[w] \in Requested \ Settled
    BY <2>1 DEF Requested, Settled
  <2>5. PICK q \in Path : q = job[w]
    BY <2>1
  <2>6. Abstract!Settle(q)
    BY <1>1, <1>2, <2>3, <2>4, <2>5
       DEF Abstract!Settle, Abstract!Open, Requested, Settled, Mirror
  <2>7. Abstract!Next
    BY <2>6 DEF Abstract!Next
  <2>8. QED
    BY <2>7
<1>5. QED
  BY <1>3, <1>4

\* A new process forgets the requests and keeps the mirrors.
LEMMA RestartRefines ==
    ASSUME Restart PROVE Abstract!Next
<1>1. Requested' = {} /\ Settled' = {} /\ Published' = {} /\ Mirror' = Mirror
  <2>1. Requested' = {} /\ Settled' = {} /\ Mirror' = Mirror
    BY DEF Restart, Requested, Settled, Mirror
  <2>2. \A p \in Path, r \in Root : ~StagedAt(p, r)'
    BY DEF Restart, StagedAt
  <2>3. \A v \in Worker : pc'[v] # "record"
    BY DEF Restart
  <2>4. Published' = {}
    BY <2>2, <2>3 DEF Published
  <2>5. QED
    BY <2>1, <2>4
<1>2. Abstract!Restart
  BY <1>1 DEF Abstract!Restart, Requested, Settled, Mirror
<1>3. QED
  BY <1>2 DEF Abstract!Next

\* Every step maps to a step of Staging or to a stutter.
LEMMA NextRefines ==
    Typed /\ NeverPartial /\ Owned /\ ReportedLast /\ TierOK /\ [Next]_vars
      => [Abstract!Next]_(Abstract!vars)
<1> SUFFICES ASSUME Typed, NeverPartial, Owned, ReportedLast, TierOK, [Next]_vars
             PROVE  [Abstract!Next]_(Abstract!vars)
  OBVIOUS
<1>1. ASSUME UNCHANGED <<future, report, pc, job, hot>>
      PROVE  UNCHANGED Abstract!vars
  BY <1>1 DEF Abstract!vars, Published, StagedAt
<1>2. CASE UNCHANGED vars
  BY <1>1, <1>2 DEF vars
<1>3. CASE (\E files \in Hint : Prefetch(files)) \/ Shutdown
  BY <1>1, <1>3 DEF Prefetch, Shutdown, poolVars, diskVars
<1>4. QED
  BY <1>2, <1>3, WorkRefines, SubmitRefines, JobRefines, RestartRefines DEF Next

\* The stager implements Staging: whatever the threads, failures, sweeps and
\* restarts, a client sees requests opened once, mirrors published whole and
\* dropped only for an open request of a single-tier stager.
THEOREM Refinement == Spec => ImplementsStaging
<1>1. Init => ReportedLast /\ TierOK /\ NeverPartial
  BY DEF Init, ReportedLast, StagedAt, TierOK, Sweeping, NeverPartial
<1>2. Init => Abstract!Init
  BY DEF Init, Abstract!Init, Published, StagedAt, Root, Abstract!Root
<1>3. QED
  BY <1>1, <1>2, TypedInit, TypedStep, OwnedInit, OwnedStep, ReportedStep, TierStep,
     NeverPartialStep, NextRefines, PTL DEF Spec, ImplementsStaging, Abstract!Safety

-----------------------------------------------------------------------------
(***************************************************************************)
(* Bytes.  Every account of the stager is the number of bytes of a table   *)
(* of sizes, and changes with one entry of that table.                     *)
(***************************************************************************)
Bytes(size) == UNION {{d} \X (1..size[d]) : d \in DOMAIN size}

\* A file of n bytes has n bytes.
LEMMA OneFile ==
    ASSUME NEW d, NEW n \in Nat
    PROVE  IsFiniteSet({d} \X (1..n)) /\ Cardinality({d} \X (1..n)) = n
<1>1. IsFiniteSet({d}) /\ Cardinality({d}) = 1
  BY FS_Singleton, Zenon
<1>2. IsFiniteSet(1..n) /\ Cardinality(1..n) = n
  BY FS_Interval
<1>3. PICK one, body : one = {d} /\ body = 1..n
  OBVIOUS
<1>4. IsFiniteSet(one \X body) /\ Cardinality(one \X body) = Cardinality(one) * Cardinality(body)
  BY <1>1, <1>2, <1>3, FS_Product
<1>5. Cardinality(one) * Cardinality(body) = n
  BY <1>1, <1>2, <1>3
<1>6. QED
  BY <1>3, <1>4, <1>5

\* A finite table of sizes has finitely many bytes.
LEMMA BytesFinite ==
    ASSUME NEW D, IsFiniteSet(D), NEW size \in [D -> Nat]
    PROVE  IsFiniteSet(Bytes(size)) /\ Cardinality(Bytes(size)) \in Nat
<1>1. PICK f : f = [d \in D |-> {d} \X (1..size[d])]
  OBVIOUS
<1>2. \A d \in D : IsFiniteSet(f[d])
  BY <1>1, OneFile
<1>3. f = [d \in D |-> f[d]]
  BY <1>1
<1>4. IsFiniteSet({f[d] : d \in D})
  BY ONLY <1>3, IsFiniteSet(D), ImageFinite
<1>5. IsFiniteSet(UNION {f[d] : d \in D})
  BY <1>2, <1>4, FS_UNION
<1>6. Bytes(size) = UNION {f[d] : d \in D}
  BY <1>1 DEF Bytes
<1>7. QED
  BY <1>5, <1>6, FS_CardinalityType

\* Resizing one file changes the total by the difference.
LEMMA OneFileChanges ==
    ASSUME NEW D, IsFiniteSet(D), NEW old \in [D -> Nat], NEW new \in [D -> Nat],
           NEW d \in D, \A x \in D \ {d} : new[x] = old[x]
    PROVE  Cardinality(Bytes(new)) = Cardinality(Bytes(old)) - old[d] + new[d]
<1>1. PICK rest : rest = UNION {{x} \X (1..old[x]) : x \in D \ {d}}
  OBVIOUS
<1>2. ASSUME NEW size \in [D -> Nat], \A x \in D \ {d} : size[x] = old[x]
      PROVE  /\ IsFiniteSet(rest)
             /\ Cardinality(Bytes(size)) = Cardinality(rest) + size[d]
  <2>1. PICK one : one = {d} \X (1..size[d])
    OBVIOUS
  <2>2. Bytes(size) = rest \cup one
    <3>1. DOMAIN size = D
      BY <1>2
    <3>2. Bytes(size) = (UNION {{x} \X (1..size[x]) : x \in D \ {d}})
                          \cup ({d} \X (1..size[d]))
      BY <3>1 DEF Bytes
    <3>3. \A x \in D \ {d} : {x} \X (1..size[x]) = {x} \X (1..old[x])
      BY <1>2
    <3>4. QED
      BY <1>1, <2>1, <3>2, <3>3
  <2>3. rest \cap one = {}
    BY <1>1, <2>1
  <2>4. IsFiniteSet(Bytes(size))
    BY <1>2, BytesFinite
  <2>5. IsFiniteSet(rest) /\ Cardinality(rest) \in Nat
    BY <2>2, <2>4, FS_Subset, FS_CardinalityType
  <2>6. IsFiniteSet(one) /\ Cardinality(one) = size[d] /\ size[d] \in Nat
    BY <1>2, <2>1, OneFile
  <2>7. Cardinality(rest \cap one) = 0
    BY <2>3, FS_EmptySet
  <2>8. Cardinality(rest \cup one)
          = Cardinality(rest) + Cardinality(one) - Cardinality(rest \cap one)
    BY <2>5, <2>6, FS_Union
  <2>9. QED
    BY <2>2, <2>5, <2>6, <2>7, <2>8
<1>3. Cardinality(Bytes(old)) = Cardinality(rest) + old[d]
  BY <1>2
<1>4. Cardinality(Bytes(new)) = Cardinality(rest) + new[d]
  BY <1>2
<1>5. Cardinality(rest) \in Nat /\ old[d] \in Nat /\ new[d] \in Nat
  BY <1>2, FS_CardinalityType
<1>6. QED
  BY <1>3, <1>4, <1>5

(***************************************************************************)
(* Reservations.  A job owes its planned size from Reserve until Release,  *)
(* or for good once it is reported staged.                                 *)
(***************************************************************************)
Holds(w) == pc[w] \in Holding /\ root[w] = "hot_root"
OwedSize == [p \in Path |-> IF p \in Owed THEN Plan[Canon[p]] ELSE 0]

\* What is owed is counted by a table of sizes.
Counted == /\ OwedSize \in [Path -> Nat]
           /\ Bytes(OwedSize) = PlanBytes(Owed)
LEMMA OwedBytes == Typed => Counted
<1> SUFFICES ASSUME Typed PROVE Counted
  OBVIOUS
<1> USE PathAssumption
<1>1. OwedSize \in [Path -> Nat]
  BY DEF OwedSize
<1>2. Owed \subseteq Path
  BY DEF Owed, Typed, JobOK, Holding
<1>3. \A p \in Path : {p} \X (1..OwedSize[p])
                        = IF p \in Owed THEN {p} \X (1..Plan[Canon[p]]) ELSE {}
  BY DEF OwedSize
<1>4. DOMAIN OwedSize = Path
  BY DEF OwedSize
<1>5. QED
  BY <1>1, <1>2, <1>3, <1>4 DEF Bytes, PlanBytes, Counted

\* A key is owed by its report or by the thread that holds it.
LEMMA OwedBy ==
    ASSUME NEW p
    PROVE  p \in Owed <=> \/ p \in Path /\ StagedAt(p, "hot_root")
                          \/ \E w \in Worker : Holds(w) /\ job[w] = p
BY DEF Owed, Holds

\* A step that changes no hold and no report changes no debt.
LEMMA OwedFrame ==
    ASSUME \A p \in Path : StagedAt(p, "hot_root")' <=> StagedAt(p, "hot_root"),
           \A w \in Worker : /\ Holds(w)' <=> Holds(w)
                             /\ Holds(w) => job'[w] = job[w]
    PROVE  Owed' = Owed
<1> DEFINE H == {job[w] : w \in {v \in Worker : pc[v] \in Holding /\ root[v] = "hot_root"}}
           S == {p \in Path : StagedAt(p, "hot_root")}
<1>1. S' = S
  OBVIOUS
<1>2. H' = H
  BY DEF Holds
<1>3. QED
  BY <1>1, <1>2 DEF Owed

\* A thread holds, and others hold, as before unless it reserves or is done.
LEMMA OthersHold ==
    ASSUME Typed, NEW w \in Worker, Stage(w), NEW v \in Worker \ {w}
    PROVE  (Holds(v)' <=> Holds(v)) /\ job'[v] = job[v]
BY StageFrame DEF Holds, Typed

\* Reserving makes a new debt of exactly the planned size.
LEMMA ReserveExact ==
    ASSUME Typed, Typed', Owned, ReportedLast, ReservationExact,
           NEW w \in Worker, Reserve(w)
    PROVE  ReservationExact'
<1> USE PathAssumption DEF Goto
<1> DEFINE size == Plan[Target(w)]
           target == PickTargetRoot(size)
<1>1. /\ pc[w] = "reserve" /\ job[w] \in Path /\ Target(w) \in Path
      /\ size \in Nat /\ job' = job /\ UNCHANGED report
  BY DEF Reserve, Typed, TypeOK, JobOK, Target
<1>2. pc'[w] \in {"mkdir", "ensure"} /\ root'[w] = target
  BY DEF Reserve, Typed, TypeOK
<1>3. \A v \in Worker \ {w} : (Holds(v)' <=> Holds(v)) /\ job'[v] = job[v]
  BY OthersHold DEF Stage
<1>4. ~Holds(w) /\ (Holds(w)' <=> target = "hot_root")
  BY <1>1, <1>2 DEF Holds, Holding
<1>5. \A p \in Path : StagedAt(p, "hot_root")' <=> StagedAt(p, "hot_root")
  BY <1>1 DEF StagedAt
<1>6. CASE target # "hot_root"
  <2>1. used' = used
    BY <1>6 DEF Reserve
  <2>2. Owed' = Owed
    BY <1>3, <1>4, <1>5, <1>6, OwedFrame
  <2>3. QED
    BY <2>1, <2>2 DEF ReservationExact, PlanBytes
<1>7. CASE target = "hot_root"
  <2>1. used' = used + size
    BY <1>7 DEF Reserve
  <2>2. job[w] \notin Owed
    <3>1. ~StagedAt(job[w], "hot_root")
      BY <1>1 DEF ReportedLast, Root
    <3>2. \A v \in Worker \ {w} : Holds(v) => job[v] # job[w]
      BY <1>1 DEF Holds, Holding, Owned, HeldOnce
    <3>3. QED
      BY <1>4, <3>1, <3>2, OwedBy
  <2>3. \A p : p \in Owed' <=> p \in Owed \/ p = job[w]
    <3>1. \A p : p \in Owed' <=> \/ p \in Path /\ StagedAt(p, "hot_root")'
                                 \/ \E v \in Worker : Holds(v)' /\ job'[v] = p
      BY DEF Owed, Holds
    <3>2. QED
      BY <1>1, <1>3, <1>4, <1>5, <1>7, <3>1, OwedBy
  <2>4. Counted /\ Counted'
    BY OwedBytes, PTL
  <2>5. PICK old, new, key : old = OwedSize /\ new = OwedSize' /\ key = job[w]
    OBVIOUS
  <2>6. old \in [Path -> Nat] /\ new \in [Path -> Nat] /\ key \in Path
    BY <1>1, <2>4, <2>5 DEF Counted
  <2>7. \A p \in Path \ {key} : new[p] = old[p]
    BY <2>3, <2>5 DEF OwedSize
  <2>8. old[key] = 0 /\ new[key] = size
    BY <1>1, <2>2, <2>3, <2>5 DEF OwedSize, Target
  <2> HIDE DEF size, target
  <2>9. Cardinality(Bytes(new)) = Cardinality(Bytes(old)) - old[key] + new[key]
    <3>1. IsFiniteSet(Path)
      OBVIOUS
    <3>2. QED
      BY ONLY <2>6, <2>7, <3>1, OneFileChanges
  <2>10. Cardinality(Bytes(old)) = used /\ Cardinality(Bytes(new)) = Cardinality(PlanBytes(Owed))'
    BY <2>4, <2>5 DEF Counted, ReservationExact
  <2>11. Cardinality(Bytes(old)) \in Nat
    BY <2>6, BytesFinite
  <2>12. QED
    BY <1>1, <2>1, <2>8, <2>9, <2>10, <2>11 DEF ReservationExact
<1>8. QED
  BY <1>6, <1>7

\* Releasing cancels the debt of the thread's own job.
LEMMA ReleaseExact ==
    ASSUME Typed, Typed', Owned, ReportedLast, ReservationExact,
           NEW w \in Worker, Release(w)
    PROVE  ReservationExact'
<1> USE PathAssumption DEF Goto
<1> DEFINE size == Plan[Target(w)]
<1>1. /\ pc[w] = "release" /\ job[w] \in Path /\ Target(w) \in Path
      /\ size \in Nat /\ UNCHANGED <<job, root, report>>
  BY DEF Release, Typed, TypeOK, JobOK, Target
<1>2. pc'[w] = "error"
  BY DEF Release, Typed, TypeOK
<1>3. \A v \in Worker \ {w} : (Holds(v)' <=> Holds(v)) /\ job'[v] = job[v]
  BY OthersHold DEF Stage
<1>4. (Holds(w) <=> root[w] = "hot_root") /\ ~Holds(w)'
  BY <1>1, <1>2 DEF Holds, Holding
<1>5. \A p \in Path : StagedAt(p, "hot_root")' <=> StagedAt(p, "hot_root")
  BY <1>1 DEF StagedAt
<1>6. CASE root[w] # "hot_root"
  <2>1. used' = used
    BY <1>6 DEF Release, Reserved, Typed, TypeOK
  <2>2. Owed' = Owed
    BY <1>3, <1>4, <1>5, <1>6, OwedFrame
  <2>3. QED
    BY <2>1, <2>2 DEF ReservationExact, PlanBytes
<1>7. CASE root[w] = "hot_root"
  <2>1. used' = used - size
    BY <1>7 DEF Release, Reserved, Target
  <2>2. \A p : p \in Owed' <=> p \in Owed /\ p # job[w]
    <3>1. \A p : p \in Owed' <=> \/ p \in Path /\ StagedAt(p, "hot_root")'
                                 \/ \E v \in Worker : Holds(v)' /\ job'[v] = p
      BY DEF Owed, Holds
    <3>2. ~StagedAt(job[w], "hot_root")
      BY <1>1 DEF ReportedLast, Root
    <3>3. \A v \in Worker \ {w} : Holds(v) => job[v] # job[w]
      BY <1>1 DEF Holds, Holding, Owned, HeldOnce
    <3>4. QED
      BY <1>1, <1>3, <1>4, <1>5, <1>7, <3>1, <3>2, <3>3, OwedBy
  <2>3. job[w] \in Owed
    BY <1>4, <1>7, OwedBy
  <2>4. Counted /\ Counted'
    BY OwedBytes, PTL
  <2>5. PICK old, new, key : old = OwedSize /\ new = OwedSize' /\ key = job[w]
    OBVIOUS
  <2>6. old \in [Path -> Nat] /\ new \in [Path -> Nat] /\ key \in Path
    BY <1>1, <2>4, <2>5 DEF Counted
  <2>7. \A p \in Path \ {key} : new[p] = old[p]
    BY <2>2, <2>5 DEF OwedSize
  <2>8. old[key] = size /\ new[key] = 0
    BY <1>1, <2>2, <2>3, <2>5 DEF OwedSize, Target
  <2> HIDE DEF size
  <2>9. Cardinality(Bytes(new)) = Cardinality(Bytes(old)) - old[key] + new[key]
    <3>1. IsFiniteSet(Path)
      OBVIOUS
    <3>2. QED
      BY ONLY <2>6, <2>7, <3>1, OneFileChanges
  <2>10. Cardinality(Bytes(old)) = used /\ Cardinality(Bytes(new)) = Cardinality(PlanBytes(Owed))'
    BY <2>4, <2>5 DEF Counted, ReservationExact
  <2>11. Cardinality(Bytes(old)) \in Nat
    BY <2>6, BytesFinite
  <2>12. QED
    BY <1>1, <2>1, <2>8, <2>9, <2>10, <2>11 DEF ReservationExact
<1>8. QED
  BY <1>6, <1>7

\* A thread that neither reserves nor releases leaves the debts as they are;
\* reporting "staged" only moves one from the thread to the report.
LEMMA DebtStays ==
    ASSUME Typed, "mkdir" \notin Fault, NEW w \in Worker, Stage(w),
           ~Reserve(w), ~Release(w)
    PROVE  used' = used /\ Owed' = Owed
<1> USE DEF Goto
<1>1. used' = used
  BY DEF Stage, Take, Probe, RecordHit, Resolve, EnsureFast, Snapshot, Scan, Gather,
         EvictOne, OutOfSpace, MkdirAndOpen, Copy, Rename, RecordStaged, Cleanup,
         RecordError, Done
<1>2. \A v \in Worker \ {w} : (Holds(v)' <=> Holds(v)) /\ job'[v] = job[v]
  BY OthersHold
<1>3. CASE RecordStaged(w)
  <2>1. /\ pc[w] = "record" /\ pc'[w] = "return" /\ UNCHANGED <<job, root>>
        /\ job[w] \in Path
    BY <1>3 DEF RecordStaged, Typed, TypeOK, JobOK
  <2>2. \A p \in Path : StagedAt(p, "hot_root")' <=>
           StagedAt(p, "hot_root") \/ (p = job[w] /\ root[w] = "hot_root")
    BY <2>1, ReportStep DEF Root
  <2>3. (Holds(w) <=> root[w] = "hot_root") /\ ~Holds(w)'
    BY <2>1 DEF Holds, Holding
  <2>4. \A p : p \in Owed' <=> \/ p \in Path /\ StagedAt(p, "hot_root")'
                               \/ \E v \in Worker : Holds(v)' /\ job'[v] = p
    BY DEF Owed, Holds
  <2>5. \A p : p \in Owed' <=> p \in Owed
    BY <1>2, <2>1, <2>2, <2>3, <2>4, OwedBy
  <2>6. QED
    BY <1>1, <2>5
<1>4. CASE ~RecordStaged(w)
  <2>1. \A p \in Path : StagedAt(p, "hot_root")' <=> StagedAt(p, "hot_root")
    <3>1. pc[w] # "record"
      BY <1>4, RecordIsStaged
    <3>2. QED
      BY <3>1, ReportStep DEF Root
  <2>2. (Holds(w)' <=> Holds(w)) /\ (Holds(w) => job'[w] = job[w])
    <3>1. CASE EvictOne(w)
      <4>1. pc[w] = "evict" /\ pc'[w] \in {"evict", "mkdir"} /\ UNCHANGED <<job, root>>
        BY <3>1 DEF EvictOne, Typed, TypeOK
      <4>2. QED
        BY <4>1 DEF Holds, Holding
    <3>2. CASE ~EvictOne(w)
      BY <1>4, <3>2 DEF Typed, TypeOK, Holds, Holding, Stage, Take, Probe, RecordHit,
         Resolve, EnsureFast, Snapshot, Scan, Gather, OutOfSpace, MkdirAndOpen, Copy,
         Rename, Cleanup, RecordError, Done
    <3>3. QED
      BY <3>1, <3>2
  <2>3. QED
    BY <1>1, <1>2, <2>1, <2>2, OwedFrame
<1>5. QED
  BY <1>3, <1>4

\* The counter stays exact.
LEMMA ReservationStep ==
    ASSUME "mkdir" \notin Fault
    PROVE  Typed /\ Typed' /\ Owned /\ ReportedLast /\ ReservationExact /\ [Next]_vars
             => ReservationExact'
<1> SUFFICES ASSUME Typed, Typed', Owned, ReportedLast, ReservationExact, [Next]_vars
             PROVE  ReservationExact'
  OBVIOUS
<1>1. ASSUME used' = used, Owed' = Owed PROVE ReservationExact'
  BY <1>1 DEF ReservationExact, PlanBytes
<1>2. ASSUME NEW w \in Worker, Stage(w) PROVE ReservationExact'
  BY <1>1, <1>2, DebtStays, ReserveExact, ReleaseExact
<1>3. ASSUME UNCHANGED <<used, report, pc, root, job>> PROVE ReservationExact'
  BY <1>1, <1>3 DEF Owed, StagedAt
<1>4. CASE Restart
  <2>1. used' = 0 /\ PlanBytes(Owed)' = {}
    BY <1>4 DEF Restart, Owed, PlanBytes, StagedAt, Holding
  <2>2. QED
    BY <2>1, FS_EmptySet DEF ReservationExact
<1>5. QED
  BY <1>2, <1>3, <1>4 DEF Next, Prefetch, SubmitOne, Shutdown, vars, poolVars

\* Unless mkdir() can fail, the counter that routes files to a tier is exactly
\* what the open jobs reserved there and what was staged there, whatever the
\* threads, failures and restarts.
THEOREM ReservationsAreExact ==
    ASSUME "mkdir" \notin Fault
    PROVE  Spec => []ReservationExact
<1>1. Init => ReservationExact
  <2>1. Init => used = 0 /\ PlanBytes(Owed) = {}
    BY DEF Init, Owed, PlanBytes, StagedAt, Holding
  <2>2. QED
    BY <2>1, FS_EmptySet DEF ReservationExact
<1>2. Init => ReportedLast
  BY DEF Init, ReportedLast, StagedAt
<1>3. QED
  BY <1>1, <1>2, TypedInit, TypedStep, OwnedInit, OwnedStep, ReportedStep,
     ReservationStep, PTL DEF Spec

-----------------------------------------------------------------------------
(***************************************************************************)
(* The cap.  Each byte under hot_root is either one the process found      *)
(* there, or one it reserved for: first as a charge of the job under way,  *)
(* which bounds the job's temp file, then as the file the job published.   *)
(***************************************************************************)
Size(x) == IF x = NoFile THEN 0 ELSE x
HotSize == [p \in Path |-> Size(hot["hot_root"][p])]

\* What the job of w may still write, at the place where it writes it.
Charges(w, p) == /\ pc[w] \in Holding \ {"record"} /\ root[w] = "hot_root"
                 /\ Target(w) = p
ChargeSize == [t \in Worker \X Path |-> IF Charges(t[1], t[2]) THEN Plan[t[2]] ELSE 0]

CleanupOK == \A w \in Worker : pc[w] = "cleanup" =>
    TmpFile(w) = NoFile \/ TmpFile(w) \in 0..Real[Target(w)]
ReservedWithinCap == HasOverflow /\ PrimaryCap # NoCap => used <= PrimaryCap
Covered == Cardinality(Bytes(HotSize)) + Cardinality(Bytes(ChargeSize))
             + litter["hot_root"] <= used + inherited
Accounts == CleanupOK /\ ReservedWithinCap /\ Covered

\* The tables are well formed, and the first one counts the hot files.
Measured == /\ HotSize \in [Path -> Nat] /\ ChargeSize \in [Worker \X Path -> Nat]
            /\ Bytes(HotSize) = HotBytes("hot_root")
LEMMA Measures == Typed => Measured
<1> SUFFICES ASSUME Typed PROVE Measured
  OBVIOUS
<1>1. \A p \in Path : hot["hot_root"][p] \in FileSize
  BY DEF Typed, TypeOK, Root
<1>2. HotSize \in [Path -> Nat]
  BY <1>1 DEF HotSize, Size, FileSize
<1>3. ChargeSize \in [Worker \X Path -> Nat]
  BY PathAssumption DEF ChargeSize
<1>4. \A p \in Path : {p} \X (1..HotSize[p]) = FileBytes(p, hot["hot_root"][p])
  BY DEF HotSize, Size, FileBytes
<1>5. Bytes(HotSize) = HotBytes("hot_root")
  <2>1. DOMAIN HotSize = Path
    BY DEF HotSize
  <2>2. QED
    BY <1>4, <2>1 DEF Bytes, HotBytes
<1>6. QED
  BY <1>2, <1>3, <1>5 DEF Measured

\* Both totals are natural numbers.
LEMMA TotalsAreNat ==
    ASSUME Measured
    PROVE  Cardinality(Bytes(HotSize)) \in Nat /\ Cardinality(Bytes(ChargeSize)) \in Nat
<1>1. IsFiniteSet(Path) /\ IsFiniteSet(Worker \X Path)
  BY PathAssumption, ConfigAssumption, FS_Product
<1>2. QED
  BY <1>1, BytesFinite DEF Measured

\* A step of one thread leaves the charges of the others alone.
LEMMA OthersCharge ==
    ASSUME Typed, NEW w \in Worker, Stage(w), NEW v \in Worker \ {w}, NEW p
    PROVE  Charges(v, p)' <=> Charges(v, p)
BY StageFrame DEF Charges, Typed, Target

\* Changing the charge of one job changes the total by the difference.
LEMMA ChargeChanges ==
    ASSUME Measured, Measured', NEW w \in Worker, NEW q \in Path,
           \A v \in Worker, p \in Path : v # w \/ p # q => (Charges(v, p)' <=> Charges(v, p))
    PROVE  Cardinality(Bytes(ChargeSize))' = Cardinality(Bytes(ChargeSize))
             - (IF Charges(w, q) THEN Plan[q] ELSE 0)
             + (IF Charges(w, q)' THEN Plan[q] ELSE 0)
<1>1. PICK old, new, D, t :
         old = ChargeSize /\ new = ChargeSize' /\ D = Worker \X Path /\ t = <<w, q>>
  OBVIOUS
<1>2. IsFiniteSet(D)
  BY <1>1, PathAssumption, ConfigAssumption, FS_Product
<1>3. old \in [D -> Nat] /\ new \in [D -> Nat] /\ t \in D
  BY <1>1 DEF Measured
<1>4. \A x \in D \ {t} : new[x] = old[x]
  <2> SUFFICES ASSUME NEW x \in D \ {t} PROVE new[x] = old[x]
    OBVIOUS
  <2>1. PICK v \in Worker, p \in Path : x = <<v, p>>
    BY <1>1
  <2>2. v # w \/ p # q
    BY <1>1, <2>1
  <2>3. Charges(v, p)' <=> Charges(v, p)
    BY <2>2
  <2>4. /\ old[x] = IF Charges(v, p) THEN Plan[p] ELSE 0
        /\ new[x] = IF Charges(v, p)' THEN Plan[p] ELSE 0
    BY <1>1, <2>1 DEF ChargeSize
  <2>5. QED
    BY <2>3, <2>4
<1>5. Cardinality(Bytes(new)) = Cardinality(Bytes(old)) - old[t] + new[t]
  BY ONLY <1>2, <1>3, <1>4, OneFileChanges
<1>6. /\ old[t] = IF Charges(w, q) THEN Plan[q] ELSE 0
      /\ new[t] = IF Charges(w, q)' THEN Plan[q] ELSE 0
  BY <1>1 DEF ChargeSize
<1>7. QED
  BY <1>1, <1>5, <1>6

\* Changing one file under hot_root changes the total by the difference.
LEMMA HotChanges ==
    ASSUME Measured, Measured', NEW q \in Path,
           \A p \in Path \ {q} : hot'["hot_root"][p] = hot["hot_root"][p]
    PROVE  Cardinality(Bytes(HotSize))' = Cardinality(Bytes(HotSize))
             - HotSize[q] + Size(hot'["hot_root"][q])
<1>1. PICK old, new : old = HotSize /\ new = HotSize'
  OBVIOUS
<1>2. old \in [Path -> Nat] /\ new \in [Path -> Nat] /\ IsFiniteSet(Path)
  BY <1>1, PathAssumption DEF Measured
<1>3. \A x \in Path \ {q} : new[x] = old[x]
  BY <1>1 DEF HotSize
<1>4. Cardinality(Bytes(new)) = Cardinality(Bytes(old)) - old[q] + new[q]
  BY ONLY <1>2, <1>3, q \in Path, OneFileChanges
<1>5. new[q] = Size(hot'["hot_root"][q])
  BY <1>1 DEF HotSize, Size
<1>6. QED
  BY <1>1, <1>4, <1>5

\* The steps that change a charge, a hot file or the counter.
Effect(w) == \/ Reserve(w) \/ Release(w) \/ Rename(w) \/ EvictOne(w)
             \/ MkdirAndOpen(w)

\* A thread at any other step keeps its charge, the hot files and the counter.
LEMMA NoEffect ==
    ASSUME Typed, NEW w \in Worker, Stage(w), ~Effect(w)
    PROVE  /\ hot' = hot /\ used' = used
           /\ \A p \in Path : Charges(w, p)' <=> Charges(w, p)
<1> USE DEF Goto, Effect, diskVars
<1>1. hot' = hot /\ used' = used
  BY DEF Stage, Take, Probe, RecordHit, Resolve, EnsureFast, Snapshot, Scan, Gather,
         OutOfSpace, Copy, RecordStaged, Cleanup, RecordError, Done
<1>2. \A p \in Path : Charges(w, p)' <=> Charges(w, p)
  BY DEF Typed, TypeOK, Charges, Target, Holding, Stage, Take, Probe, RecordHit,
         Resolve, EnsureFast, Snapshot, Scan, Gather, OutOfSpace, Copy, RecordStaged,
         Cleanup, RecordError, Done
<1>3. QED
  BY <1>1, <1>2

\* A temp file that is being removed is no longer than its source.
LEMMA CleanupStep ==
    Typed /\ CleanupOK /\ [Next]_vars => CleanupOK'
<1> SUFFICES ASSUME Typed, CleanupOK, [Next]_vars, NEW v \in Worker, pc'[v] = "cleanup"
             PROVE  TmpFile(v)' = NoFile \/ TmpFile(v)' \in 0..Real[Target(v)']
  BY DEF CleanupOK
<1>1. ASSUME UNCHANGED <<pc, job, root, tmp>>
      PROVE  TmpFile(v)' = NoFile \/ TmpFile(v)' \in 0..Real[Target(v)']
  BY <1>1 DEF CleanupOK, TmpFile, Target
<1>2. ASSUME NEW w \in Worker \ {v}, Stage(w)
      PROVE  TmpFile(v)' = NoFile \/ TmpFile(v)' \in 0..Real[Target(v)']
  <2>1. /\ pc'[v] = pc[v] /\ job'[v] = job[v] /\ root'[v] = root[v]
        /\ root[v] \in Root /\ tmp'[root[v]][v] = tmp[root[v]][v]
    BY <1>2, StageFrame DEF Typed, TypeOK
  <2>2. QED
    BY <2>1 DEF CleanupOK, TmpFile, Target
<1>3. CASE Stage(v)
  <2>1. CASE Copy(v) \/ Rename(v)
    <3>1. /\ pc[v] \in {"copy", "rename"} /\ UNCHANGED <<job, root, tmp>>
      BY <1>3, <2>1 DEF Copy, Rename, Goto, diskVars, Typed, TypeOK
    <3>2. TmpFile(v) \in 0..Real[Target(v)]
      <4>1. Real[Target(v)] \in Nat
        BY <3>1, PathAssumption DEF Typed, TypeOK, JobOK, Target
      <4>2. QED
        BY <3>1, <4>1 DEF Typed, CopyOK
    <3>3. QED
      BY <3>1, <3>2 DEF TmpFile, Target
  <2>2. CASE ~Copy(v) /\ ~Rename(v)
    BY <1>3, <2>2 DEF Stage, Goto, Typed, TypeOK, Take, Probe, RecordHit, Resolve,
       Reserve, EnsureFast, Snapshot, Scan, Gather, EvictOne, OutOfSpace, MkdirAndOpen,
       RecordStaged, Cleanup, Release, RecordError, Done
  <2>3. QED
    BY <2>1, <2>2
<1>4. CASE Restart
  BY <1>4 DEF Restart
<1>5. QED
  BY <1>1, <1>2, <1>3, <1>4
     DEF Next, Prefetch, SubmitOne, Shutdown, poolVars, diskVars, vars

\* The routing keeps what is reserved under the cap.
LEMMA CapStep ==
    Typed /\ ReservedWithinCap /\ [Next]_vars => ReservedWithinCap'
<1> SUFFICES ASSUME Typed, ReservedWithinCap, [Next]_vars, HasOverflow, PrimaryCap # NoCap
             PROVE  used' <= PrimaryCap
  BY DEF ReservedWithinCap
<1>1. used \in Int /\ used <= PrimaryCap /\ PrimaryCap \in Nat
  BY ConfigAssumption DEF Typed, TypeOK, ReservedWithinCap
<1>2. ASSUME NEW w \in Worker, Reserve(w) PROVE used' <= PrimaryCap
  BY <1>1, <1>2 DEF Reserve, PickTargetRoot
<1>3. ASSUME NEW w \in Worker, Release(w) PROVE used' <= PrimaryCap
  <2>1. Reserved(w) \in Nat /\ used' = used - Reserved(w)
    BY <1>3, PathAssumption DEF Release, Goto, Reserved, Typed, JobOK
  <2>2. QED
    BY <1>1, <2>1
<1>4. ASSUME NEW w \in Worker, Stage(w), ~Reserve(w), ~Release(w) PROVE used' = used
  BY <1>4 DEF Stage, Take, Probe, RecordHit, Resolve, EnsureFast, Snapshot, Scan,
     Gather, EvictOne, OutOfSpace, MkdirAndOpen, Copy, Rename, RecordStaged, Cleanup,
     RecordError, Done
<1>5. Restart => used' = 0
  BY DEF Restart
<1>6. QED
  BY <1>1, <1>2, <1>3, <1>4, <1>5 DEF Next, Prefetch, SubmitOne, Shutdown, vars

\* A step of a thread that keeps its job can change only its own charge.
LEMMA OwnCharge ==
    ASSUME Typed, NEW w \in Worker, Stage(w), job' = job,
           NEW v \in Worker, NEW p \in Path, v # w \/ p # Target(w)
    PROVE  Charges(v, p)' <=> Charges(v, p)
<1>1. CASE v # w
  BY <1>1, OthersCharge
<1>2. CASE v = w
  BY <1>2 DEF Charges, Target
<1>3. QED
  BY <1>1, <1>2

\* Every byte stays covered, step by step.
LEMMA CoveredStep ==
    ASSUME \A p \in Path : Real[p] <= Plan[p]
    PROVE  Typed /\ Typed' /\ Covered /\ [Next]_vars => Covered'
<1> SUFFICES ASSUME Typed, Typed', Covered, [Next]_vars PROVE Covered'
  OBVIOUS
<1> DEFINE H == Cardinality(Bytes(HotSize))
           C == Cardinality(Bytes(ChargeSize))
           Kept == UNCHANGED <<litter, inherited>>
<1>1. Measured /\ Measured'
  BY Measures, PTL
<1>2. H \in Nat /\ C \in Nat
  BY <1>1, TotalsAreNat
<1>3. used \in Int /\ litter["hot_root"] \in Nat /\ inherited \in Nat
  BY DEF Typed, TypeOK, Root
<1>4. H + C + litter["hot_root"] <= used + inherited
  BY DEF Covered
<1>5. ASSUME Kept, used' \in Int, H' \in Int, C' \in Int, H' + C' - used' <= H + C - used
      PROVE  Covered'
  <2> HIDE DEF H, C
  <2>1. litter'["hot_root"] = litter["hot_root"] /\ inherited' = inherited
    BY <1>5
  <2> HIDE DEF Kept
  <2>2. H' + C' + litter'["hot_root"] <= used' + inherited'
    BY <1>2, <1>3, <1>4, <1>5, <2>1
  <2>3. QED
    BY <2>2 DEF Covered, H, C
<1>6. used' \in Int /\ H' \in Int /\ C' \in Int
  <2>1. used' \in Int
    BY DEF Typed, TypeOK
  <2>2. (Measured => H \in Nat /\ C \in Nat)'
    BY TotalsAreNat, PTL
  <2>3. QED
    BY <1>1, <2>1, <2>2
<1>7. (hot' = hot => H' = H) /\ (ChargeSize' = ChargeSize => C' = C)
  BY DEF HotSize, Size, Bytes
<1>8. (\A v \in Worker, p \in Path : Charges(v, p)' <=> Charges(v, p))
        => ChargeSize' = ChargeSize
  <2> SUFFICES ASSUME \A v \in Worker, p \in Path : Charges(v, p)' <=> Charges(v, p)
               PROVE  ChargeSize' = ChargeSize
    OBVIOUS
  <2>1. \A t \in Worker \X Path : Charges(t[1], t[2])' <=> Charges(t[1], t[2])
    OBVIOUS
  <2>2. QED
    BY <2>1 DEF ChargeSize
<1> HIDE DEF H, C
<1>9. ASSUME NEW w \in Worker, Stage(w) PROVE Covered'
  <2>1. Kept
    BY <1>9 DEF Stage, Take, Probe, RecordHit, Resolve, Reserve, EnsureFast, Snapshot,
       Scan, Gather, EvictOne, OutOfSpace, MkdirAndOpen, Copy, Rename, RecordStaged,
       Cleanup, Release, RecordError, Done, callerVars, processVars
  <2>2. CASE ~Effect(w)
    <3>1. hot' = hot /\ used' = used
      BY <1>9, <2>2, NoEffect
    <3>2. ChargeSize' = ChargeSize
      BY <1>8, <1>9, <2>2, NoEffect, OthersCharge
    <3>3. QED
      BY <1>2, <1>3, <1>5, <1>6, <1>7, <2>1, <3>1, <3>2
  <2>3. CASE Effect(w)
    <3> DEFINE q == Target(w)
               before == IF Charges(w, q) THEN Plan[q] ELSE 0
               after == IF Charges(w, q)' THEN Plan[q] ELSE 0
    <3>1. /\ job' = job /\ q \in Path /\ Plan[q] \in Nat /\ Real[q] \in Nat
          /\ Target(w)' = q
      BY <2>3, PathAssumption DEF Effect, Reserve, Release, Rename, EvictOne, MkdirAndOpen,
         Goto, Typed, JobOK, Target
    <3>2. C' = C - before + after
      BY <1>1, <1>9, <3>1, ChargeChanges, OwnCharge DEF C
    <3>3. Charges(w, q) <=> pc[w] \in Holding \ {"record"} /\ root[w] = "hot_root"
      BY DEF Charges
    <3>4. Charges(w, q)' <=> pc'[w] \in Holding \ {"record"} /\ root'[w] = "hot_root"
      BY <3>1 DEF Charges
    <3>5. CASE Reserve(w)
      <4>1. /\ hot' = hot /\ pc[w] = "reserve" /\ pc'[w] \in {"mkdir", "ensure"}
            /\ used' = IF root'[w] = "hot_root" THEN used + Plan[q] ELSE used
        BY <3>5 DEF Reserve, Goto, diskVars, Typed, TypeOK
      <4>2. before = 0 /\ after = IF root'[w] = "hot_root" THEN Plan[q] ELSE 0
        BY <3>3, <3>4, <4>1 DEF Holding
      <4> HIDE DEF q, before, after
      <4>3. QED
        BY <1>2, <1>3, <1>5, <1>6, <1>7, <2>1, <3>1, <3>2, <4>1, <4>2
    <3>6. CASE Release(w)
      <4>1. /\ hot' = hot /\ pc[w] = "release" /\ pc'[w] = "error"
            /\ used' = IF root[w] = "hot_root" THEN used - Plan[q] ELSE used
        BY <1>3, <3>6 DEF Release, Reserved, Goto, diskVars, Typed, TypeOK, Target
      <4>2. after = 0 /\ before = IF root[w] = "hot_root" THEN Plan[q] ELSE 0
        BY <3>3, <3>4, <4>1 DEF Holding
      <4> HIDE DEF q, before, after
      <4>3. QED
        BY <1>2, <1>3, <1>5, <1>6, <1>7, <2>1, <3>1, <3>2, <4>1, <4>2
    <3>7. CASE MkdirAndOpen(w)
      <4>1. hot' = hot /\ used' = used /\ root' = root /\ pc[w] = "mkdir"
        BY <3>7 DEF MkdirAndOpen, Goto
      <4>2. after <= before /\ before \in Nat /\ after \in Nat
        BY <3>1, <3>3, <3>4, <4>1 DEF Holding
      <4> HIDE DEF q, before, after
      <4>3. QED
        BY <1>2, <1>3, <1>5, <1>6, <1>7, <2>1, <3>2, <4>1, <4>2
    <3>8. CASE EvictOne(w)
      <4>1. used' = used /\ root' = root /\ pc[w] = "evict" /\ pc'[w] \in {"evict", "mkdir"}
        BY <3>8 DEF EvictOne, Goto, Typed, TypeOK
      <4>2. after = before /\ before \in Nat
        BY <3>1, <3>3, <3>4, <4>1 DEF Holding
      <4>3. H' <= H
        <5>1. PICK p \in Path :
                 UNCHANGED hot \/ hot' = [hot EXCEPT !["hot_root"][p] = NoFile]
          BY <3>8 DEF EvictOne, Typed, TypeOK
        <5>2. CASE hot' = [hot EXCEPT !["hot_root"][p] = NoFile]
          <6>1. /\ hot'["hot_root"][p] = NoFile
                /\ \A x \in Path \ {p} : hot'["hot_root"][x] = hot["hot_root"][x]
            BY <5>2 DEF Typed, TypeOK, Root
          <6>2. H' = H - HotSize[p] + Size(hot'["hot_root"][p])
            BY <1>1, <6>1, HotChanges DEF H
          <6>3. HotSize[p] \in Nat /\ Size(hot'["hot_root"][p]) = 0
            BY <1>1, <6>1 DEF Measured, Size
          <6>4. QED
            BY <1>2, <6>2, <6>3
        <5>3. QED
          BY <1>2, <1>7, <5>1, <5>2
      <4> HIDE DEF q, before, after
      <4>4. QED
        BY <1>2, <1>3, <1>5, <1>6, <2>1, <3>2, <4>1, <4>2, <4>3
    <3>9. CASE Rename(w)
      <4>1. used' = used /\ root' = root /\ pc[w] = "rename" /\ root[w] \in Root
        BY <3>9 DEF Rename, Goto, Typed, TypeOK
      <4>2. before = IF root[w] = "hot_root" THEN Plan[q] ELSE 0
        BY <3>3, <4>1 DEF Holding
      <4>3. CASE hot' = hot /\ pc'[w] = "cleanup"
        <5>1. after = before /\ before \in Nat
          BY <3>1, <3>4, <4>1, <4>2, <4>3 DEF Holding
        <5> HIDE DEF q, before, after
        <5>2. QED
          BY <1>2, <1>3, <1>5, <1>6, <1>7, <2>1, <3>2, <4>1, <4>3, <5>1
      <4>4. CASE hot' = [hot EXCEPT ![root[w]][q] = TmpFile(w)] /\ pc'[w] = "record"
        <5>1. after = 0
          BY <3>4, <4>4
        <5>2. TmpFile(w) = Real[q] /\ Real[q] <= Plan[q]
          BY <3>1, <4>1 DEF Typed, CopyOK
        <5>3. CASE root[w] = "hot_root"
          <6>1. /\ hot'["hot_root"][q] = Real[q]
                /\ \A x \in Path \ {q} : hot'["hot_root"][x] = hot["hot_root"][x]
            BY <3>1, <4>4, <5>2, <5>3 DEF Typed, TypeOK, Root
          <6>2. H' = H - HotSize[q] + Size(hot'["hot_root"][q])
            BY <1>1, <3>1, <6>1, HotChanges DEF H
          <6>3. HotSize[q] \in Nat /\ Size(hot'["hot_root"][q]) = Real[q]
            BY <1>1, <3>1, <6>1, NullAssumption DEF Measured, Size
          <6> HIDE DEF q, before, after
          <6>4. H' <= H + Plan[q]
            BY <1>2, <3>1, <5>2, <6>2, <6>3
          <6>5. QED
            BY <1>2, <1>3, <1>5, <1>6, <2>1, <3>1, <3>2, <4>1, <4>2, <5>1, <5>3, <6>4
        <5>4. CASE root[w] # "hot_root"
          <6>1. hot'["hot_root"] = hot["hot_root"]
            BY <4>4, <5>4 DEF Typed, TypeOK, Root
          <6>2. H' = H
            BY <6>1 DEF H, HotSize, Size, Bytes
          <6> HIDE DEF q, before, after
          <6>3. QED
            BY <1>2, <1>3, <1>5, <1>6, <2>1, <3>2, <4>1, <4>2, <5>1, <5>4, <6>2
        <5>5. QED
          BY <5>3, <5>4
      <4>5. QED
        BY <3>9, <4>3, <4>4 DEF Rename, Goto, diskVars, Typed, TypeOK
    <3>10. QED
      BY <2>3, <3>5, <3>6, <3>7, <3>8, <3>9 DEF Effect
  <2>4. QED
    BY <2>2, <2>3
<1>10. CASE Restart
  <2>1. H' = H /\ H = Cardinality(HotBytes("hot_root"))
    BY <1>1, <1>7, <1>10 DEF Restart, Measured, H
  <2>2. C' = 0
    <3>1. \A v \in Worker, p \in Path : ~Charges(v, p)'
      BY <1>10 DEF Restart, Charges, Holding
    <3>2. \A t \in Worker \X Path : ChargeSize'[t] = 0
      BY <3>1 DEF ChargeSize
    <3>3. DOMAIN ChargeSize' = Worker \X Path
      BY DEF ChargeSize
    <3>4. Bytes(ChargeSize)' = {}
      BY <3>2, <3>3 DEF Bytes
    <3>5. QED
      BY <3>4, FS_EmptySet DEF C
  <2>3. /\ litter'["hot_root"] = litter["hot_root"] + Cardinality(TmpBytes("hot_root"))
        /\ inherited' = Cardinality(HotBytes("hot_root")) + Cardinality(TmpBytes("hot_root"))
                          + litter["hot_root"]
        /\ used' = 0
    BY <1>10 DEF Restart, ScanUsedBytes, Root
  <2>4. Cardinality(TmpBytes("hot_root")) \in Nat
    BY ScanIsNat DEF DiskOK, Typed, TypeOK, Root
  <2>5. H' + C' + litter'["hot_root"] <= used' + inherited'
    BY <1>2, <1>3, <2>1, <2>2, <2>3, <2>4
  <2>6. QED
    BY <2>5 DEF Covered, H, C
<1>11. ASSUME UNCHANGED <<hot, pc, job, root, used, litter, inherited>> PROVE Covered'
  <2>1. ChargeSize' = ChargeSize
    BY <1>8, <1>11 DEF Charges, Target
  <2>2. QED
    BY <1>2, <1>3, <1>5, <1>6, <1>7, <1>11, <2>1
<1>12. QED
  BY <1>9, <1>10, <1>11
     DEF Next, Prefetch, SubmitOne, Shutdown, vars, processVars, diskVars

\* What a process has under hot_root, stranded temp files aside, is covered.
LEMMA CoveredIsWithinCap ==
    ASSUME \A p \in Path : Real[p] <= Plan[p]
    PROVE  Typed /\ Accounts => PrimaryWithinCap
<1> SUFFICES ASSUME Typed, Accounts, HasOverflow, PrimaryCap # NoCap
             PROVE  ScanUsedBytes("hot_root") - Cardinality(Stranded("hot_root"))
                      <= PrimaryCap + inherited
  BY DEF PrimaryWithinCap
<1> DEFINE T == TmpBytes("hot_root")
           S == Stranded("hot_root")
           G == Bytes(ChargeSize)
<1>1. Measured
  BY Measures
<1>2. IsFiniteSet(G)
  <2>1. IsFiniteSet(Worker \X Path)
    BY PathAssumption, ConfigAssumption, FS_Product
  <2>2. QED
    BY <1>1, <2>1, BytesFinite DEF Measured
<1>3. T \subseteq S \cup G
  <2> SUFFICES ASSUME NEW w \in Worker, NEW p \in Path,
                      Writing(w, "hot_root", p), tmp["hot_root"][w][p] # NoFile
               PROVE  FileBytes(<<w, p>>, tmp["hot_root"][w][p]) \subseteq G
    <3>1. \A t \in Worker \X Path : t = <<t[1], t[2]>>
      OBVIOUS
    <3>2. ASSUME NEW t \in Worker \X Path, Writing(t[1], "hot_root", t[2])
          PROVE  FileBytes(t, tmp["hot_root"][t[1]][t[2]]) \subseteq G
      <4>1. CASE tmp["hot_root"][t[1]][t[2]] = NoFile
        BY <4>1 DEF FileBytes
      <4>2. CASE tmp["hot_root"][t[1]][t[2]] # NoFile
        BY <3>1, <3>2, <4>2
      <4>3. QED
        BY <4>1, <4>2
    <3>3. QED
      BY <3>2 DEF TmpBytes, Stranded
  <2>1. pc[w] \in {"copy", "rename", "cleanup"} /\ root[w] = "hot_root" /\ p = Target(w)
    BY DEF Writing
  <2>2. Charges(w, p)
    BY <2>1 DEF Charges, Holding
  <2>3. Real[p] \in Nat /\ Plan[p] \in Nat /\ Real[p] <= Plan[p]
    BY PathAssumption
  <2>4. tmp["hot_root"][w][p] \in 0..Plan[p]
    <3>1. TmpFile(w) = tmp["hot_root"][w][p]
      BY <2>1 DEF TmpFile
    <3>2. TmpFile(w) \in 0..Real[p]
      BY <2>1, <2>3, <3>1 DEF Typed, CopyOK, Accounts, CleanupOK
    <3>3. QED
      BY <2>3, <3>1, <3>2
  <2>5. <<w, p>> \in DOMAIN ChargeSize /\ ChargeSize[<<w, p>>] = Plan[p]
    BY <2>2 DEF ChargeSize
  <2>6. {<<w, p>>} \X (1..Plan[p]) \subseteq G
    BY <2>5 DEF Bytes
  <2>7. FileBytes(<<w, p>>, tmp["hot_root"][w][p]) \subseteq {<<w, p>>} \X (1..Plan[p])
    BY <2>3, <2>4 DEF FileBytes
  <2>8. QED
    BY <2>6, <2>7
<1>4. S \subseteq T
  BY DEF TmpBytes, Stranded
<1>5. IsFiniteSet(T)
  BY TmpFinite DEF DiskOK, Typed, TypeOK, Root
<1> HIDE DEF T, S, G
<1>6. IsFiniteSet(S) /\ Cardinality(S) \in Nat /\ Cardinality(T) \in Nat /\ Cardinality(G) \in Nat
  BY <1>2, <1>4, <1>5, FS_Subset, FS_CardinalityType
<1>7. Cardinality(T) <= Cardinality(S) + Cardinality(G)
  <2>1. IsFiniteSet(S \cup G) /\ Cardinality(S \cup G) <= Cardinality(S) + Cardinality(G)
    <3>1. IsFiniteSet(S \cap G) /\ Cardinality(S \cap G) \in Nat
      <4>1. S \cap G \in SUBSET S
        OBVIOUS
      <4>2. IsFiniteSet(S \cap G)
        BY <1>6, <4>1, FS_Subset
      <4>3. QED
        BY <4>2, FS_CardinalityType
    <3>2. /\ IsFiniteSet(S \cup G)
          /\ Cardinality(S \cup G) = Cardinality(S) + Cardinality(G) - Cardinality(S \cap G)
      BY <1>2, <1>6, FS_Union
    <3>3. QED
      BY <1>6, <3>1, <3>2
  <2>2. Cardinality(T) <= Cardinality(S \cup G)
    BY <1>3, <2>1, FS_Subset
  <2>3. Cardinality(S \cup G) \in Nat
    BY <2>1, FS_CardinalityType
  <2>4. QED
    BY <1>6, <2>1, <2>2, <2>3
<1>8. Cardinality(HotBytes("hot_root")) \in Nat
  BY <1>1, TotalsAreNat DEF Measured
<1>9. Cardinality(HotBytes("hot_root")) + Cardinality(G) + litter["hot_root"]
        <= used + inherited
  BY <1>1 DEF Accounts, Covered, Measured, G
<1>10. /\ used \in Int /\ litter["hot_root"] \in Nat /\ inherited \in Nat
       /\ used <= PrimaryCap /\ PrimaryCap \in Nat
  BY ConfigAssumption DEF Typed, TypeOK, Root, Accounts, ReservedWithinCap
<1>11. ScanUsedBytes("hot_root")
         = Cardinality(HotBytes("hot_root")) + Cardinality(T) + litter["hot_root"]
  BY DEF ScanUsedBytes, T
<1>12. ScanUsedBytes("hot_root") - Cardinality(S) <= PrimaryCap + inherited
  BY <1>6, <1>7, <1>8, <1>9, <1>10, <1>11
<1>13. QED
  BY <1>12 DEF S

\* A process starts with what it found and owes nothing.
LEMMA AccountsInit == Init => Accounts
<1> SUFFICES ASSUME Init PROVE Accounts
  OBVIOUS
<1>1. Typed /\ Measured
  BY TypedInit, Measures
<1>2. CleanupOK /\ ReservedWithinCap
  BY ConfigAssumption DEF Init, CleanupOK, ReservedWithinCap
<1>3. Bytes(ChargeSize) = {} /\ TmpBytes("hot_root") = {}
  <2>1. \A v \in Worker, p \in Path : ~Charges(v, p)
    BY DEF Init, Charges, Holding
  <2>2. \A t \in Worker \X Path : ChargeSize[t] = 0
    BY <2>1 DEF ChargeSize
  <2>3. DOMAIN ChargeSize = Worker \X Path
    BY DEF ChargeSize
  <2>4. \A w \in Worker, p \in Path : tmp["hot_root"][w][p] = NoFile
    BY DEF Init, Root
  <2>5. Bytes(ChargeSize) = {}
    BY <2>2, <2>3 DEF Bytes
  <2>6. TmpBytes("hot_root") = {}
    BY <2>4 DEF TmpBytes, FileBytes
  <2>7. QED
    BY <2>5, <2>6
<1>4. litter["hot_root"] = 0 /\ used = 0 /\ inherited = ScanUsedBytes("hot_root")
  BY DEF Init, Root
<1>5. Cardinality(Bytes(ChargeSize)) = 0 /\ Cardinality(TmpBytes("hot_root")) = 0
  BY <1>3, FS_EmptySet
<1>6. Cardinality(HotBytes("hot_root")) \in Nat
  BY <1>1, TotalsAreNat DEF Measured
<1>7. Covered
  BY <1>1, <1>4, <1>5, <1>6 DEF Covered, ScanUsedBytes, Measured
<1>8. QED
  BY <1>2, <1>7 DEF Accounts

\* If no artifact turns out larger than it was planned, a process never puts
\* more on the primary tier than its cap allows, whatever the threads, sizes,
\* failures and restarts.
THEOREM PrimaryStaysWithinCap ==
    ASSUME \A p \in Path : Real[p] <= Plan[p]
    PROVE  Spec => []PrimaryWithinCap
<1>1. Typed /\ Typed' /\ Accounts /\ [Next]_vars => Accounts'
  BY CleanupStep, CapStep, CoveredStep DEF Accounts
<1>2. QED
  BY <1>1, AccountsInit, CoveredIsWithinCap, TypedInit, TypedStep, PTL DEF Spec
=============================================================================
