----------------------------- MODULE ShimProofs -----------------------------
(***************************************************************************)
(* Proofs about Shim for any paths, any number of threads, any length of   *)
(* the spin and any number of versions.                                    *)
(***************************************************************************)
EXTENDS Shim, TLAPS

(***************************************************************************)
(* Typing.  A thread inside the shim has a path.                           *)
(***************************************************************************)
CallOK == \A t \in Thread : pc[t] # "idle" => path[t] \in Path
Typed == TypeOK /\ CallOK

\* The path a mirror is looked for under is a path.
LEMMA KeyType == \A p \in Path : Key(p) \in Path /\ Canon[p] \in Path
  BY ShimAssumption DEF Key

\* A call that ends with a version or with nothing leaves typed variables.
LEMMA ReturnType ==
    ASSUME Typed, NEW t \in Thread, NEW v \in Version \cup {NoFile},
           pc[t] # "idle", Return(t, v), UNCHANGED tierVars, UNCHANGED coldVars
    PROVE  Typed'
<1> USE ShimAssumption
<1>1. /\ path[t] \in Path
      /\ \A u \in Thread : u # t => pc'[u] = pc[u] /\ path'[u] = path[u]
      /\ pc'[t] = "idle"
  BY DEF Typed, TypeOK, CallOK, Return
<1>2. CallOK'
  BY <1>1 DEF Typed, CallOK
<1>3. known' \in [Thread -> SUBSET Path]
  BY <1>1 DEF Typed, TypeOK, Return
<1>4. QED
  BY <1>2, <1>3
     DEF Typed, TypeOK, Return, tierVars, coldVars, Tier!Open, Version

\* What can be resolved is a version, and so is what comes to stand.
LEMMA CopyableType ==
    ASSUME Typed, NEW c \in Path
    PROVE  /\ Resolvable(c) \subseteq Version
           /\ \A v \in Version : Stands(c, v) => copyable' \in [Path -> SUBSET Version]
<1> USE ShimAssumption
<1>1. cold[c] \in Version \cup {NoFile} /\ 0 \in Version
  BY DEF Typed, TypeOK, Version
<1>2. Resolvable(c) \subseteq Version
  BY <1>1 DEF Resolvable
<1>3. \A v \in Version : Stands(c, v) => copyable' \in [Path -> SUBSET Version]
  BY DEF Typed, TypeOK, Stands
<1>4. QED
  BY <1>2, <1>3

\* Before the first call every variable has its type.
LEMMA TypedInit == Init => Typed
<1> USE ShimAssumption
<1> SUFFICES ASSUME Init PROVE Typed
  OBVIOUS
<1>1. latest \in [Path -> Version] /\ cold \in [Path -> Version \cup {NoFile}]
  BY DEF Init, Version
<1>2. copied \in [Root -> [Path -> Version]]
  BY <1>1 DEF Init
<1>3. Tier!Open = {} /\ settled = {}
  BY DEF Init, Tier!Init, Tier!Open
<1>4. mirror \in [Root -> SUBSET Path]
  BY DEF Init, Tier!Init, Tier!Root, Root
<1>5. CallOK
  BY DEF Init, CallOK
<1>6. QED
  BY <1>1, <1>2, <1>3, <1>4, <1>5 DEF Init, Typed, TypeOK, Version

\* One case per action.
LEMMA TypedStep == Typed /\ [Next]_vars => Typed'
<1> SUFFICES ASSUME Typed, [Next]_vars PROVE Typed'
  OBVIOUS
<1> USE ShimAssumption DEF Typed
<1>1. ASSUME NEW p \in Path, TierRequest(p) PROVE Typed'
  <2>1. Resolvable(Canon[p]) \subseteq Version
    BY KeyType, CopyableType
  <2>2. copyable' \in [Path -> SUBSET Version]
    BY <1>1, <2>1 DEF TypeOK, TierRequest
  <2>3. Tier!Open' \subseteq Managed
    BY <1>1 DEF TypeOK, TierRequest, Tier!Request, Tier!Open
  <2>4. QED
    BY <1>1, <2>2, <2>3
       DEF TypeOK, CallOK, TierRequest, Tier!Request, coldVars, callVars
<1>2. ASSUME NEW p \in Path, TierSettle(p) PROVE Typed'
  BY <1>2 DEF TypeOK, CallOK, TierSettle, Tier!Settle, Tier!Open, coldVars, callVars
<1>3. ASSUME NEW p \in Path, TierDrop(p) PROVE Typed'
  BY <1>3 DEF TypeOK, CallOK, TierDrop, Tier!Drop, Tier!Open, coldVars
<1>4. ASSUME NEW p \in Path, NEW r \in Root, TierPublish(p, r) PROVE Typed'
  <2>1. PICK v \in copyable[p] : copied' = [copied EXCEPT ![r][Canon[p]] = v]
    BY <1>4 DEF TierPublish
  <2>2. v \in Version
    BY DEF TypeOK
  <2>3. copied' \in [Root -> [Path -> Version]]
    BY <2>1, <2>2 DEF TypeOK
  <2>4. mirror' \in [Root -> SUBSET Path]
    BY <1>4, KeyType DEF TypeOK, TierPublish, Tier!Publish
  <2>5. QED
    BY <1>4, <2>3, <2>4
       DEF TypeOK, CallOK, TierPublish, Tier!Publish, Tier!Open, coldVars, callVars
<1>5. ASSUME NEW p \in Path, Write(p) PROVE Typed'
  <2>1. latest[Canon[p]] + 1 \in Version
    BY <1>5, KeyType DEF TypeOK, Write, Version
  <2>2. latest' \in [Path -> Version] /\ cold' \in [Path -> Version \cup {NoFile}]
    BY <1>5, <2>1 DEF TypeOK, Write
  <2>3. exposed' \in [Path -> BOOLEAN]
    BY <1>5 DEF TypeOK, Write
  <2>4. copyable' \in [Path -> SUBSET Version]
    BY <1>5, <2>1, KeyType, CopyableType DEF Write
  <2>5. QED
    BY <1>5, <2>2, <2>3, <2>4 DEF TypeOK, CallOK, Write, Stands, callVars, Tier!Open
<1>6. ASSUME NEW p \in Path, Unlink(p) PROVE Typed'
  <2>1. copyable' \in [Path -> SUBSET Version] /\ exposed' \in [Path -> BOOLEAN]
    <3>1. 0 \in Version
      BY DEF Version
    <3>2. QED
      BY <1>6, <3>1, CopyableType DEF TypeOK, Unlink, tierVars
  <2>2. UNCHANGED <<requested, settled, mirror, copied>>
    BY <1>6 DEF Unlink, Stands, tierVars
  <2>3. QED
    BY <1>6, <2>1, <2>2 DEF TypeOK, CallOK, Unlink, UnlinkFile, callVars, Tier!Open
<1>7. ASSUME NEW t \in Thread, NEW p \in Path, NEW what \in {"open", "stat"},
             Call(t, what, p)
      PROVE  Typed'
  <2>1. steady' \in [Thread -> BOOLEAN]
    BY <1>7 DEF TypeOK, Call, Redirected, Visible
  <2>2. QED
    BY <1>7, <2>1 DEF TypeOK, CallOK, Call, tierVars, coldVars, Tier!Open
<1>8. ASSUME NEW t \in Thread, InCall(t) PROVE Typed'
  <2>1. CASE CheckHot(t)
    <3>1. CASE Return(t, copied["hot_root"][Key(path[t])]) /\ pc[t] = "hot"
      <4>1. copied["hot_root"][Key(path[t])] \in Version
        BY <3>1, KeyType DEF TypeOK, CallOK, Root
      <4>2. QED
        BY <2>1, <3>1, <4>1, ReturnType DEF CheckHot
    <3>2. CASE /\ Goto(t, "hot", IF HasOverflow THEN "overflow" ELSE AfterMiss(t))
               /\ UNCHANGED <<callVars, got, known>>
      <4>1. pc' \in [Thread -> {"idle", "hot", "overflow", "spin", "cold"}]
        BY <3>2 DEF TypeOK, Goto, AfterMiss
      <4>2. CallOK'
        BY <3>2 DEF TypeOK, CallOK, Goto, callVars
      <4>3. QED
        BY <2>1, <3>2, <4>1, <4>2
           DEF TypeOK, CheckHot, tierVars, coldVars, callVars, Tier!Open
    <3>3. QED
      BY <2>1, <3>1, <3>2 DEF CheckHot
  <2>2. CASE CheckOverflow(t)
    <3>1. CASE Return(t, copied["overflow_root"][Key(path[t])]) /\ pc[t] = "overflow"
      <4>1. copied["overflow_root"][Key(path[t])] \in Version
        BY <3>1, KeyType DEF TypeOK, CallOK, Root
      <4>2. QED
        BY <2>2, <3>1, <4>1, ReturnType DEF CheckOverflow
    <3>2. CASE /\ Goto(t, "overflow", AfterMiss(t))
               /\ UNCHANGED <<callVars, got, known>>
      <4>1. pc' \in [Thread -> {"idle", "hot", "overflow", "spin", "cold"}]
        BY <3>2 DEF TypeOK, Goto, AfterMiss
      <4>2. CallOK'
        BY <3>2 DEF TypeOK, CallOK, Goto, callVars
      <4>3. QED
        BY <2>2, <3>2, <4>1, <4>2
           DEF TypeOK, CheckOverflow, tierVars, coldVars, callVars, Tier!Open
    <3>3. QED
      BY <2>2, <3>1, <3>2 DEF CheckOverflow
  <2>3. CASE HotFails(t)
    BY <2>3 DEF TypeOK, CallOK, HotFails, Goto, tierVars, coldVars, Tier!Open
  <2>4. CASE Spin(t)
    <3>1. checks' \in [Thread -> 0..SpinChecks]
      BY <2>4 DEF TypeOK, Spin
    <3>2. pc' \in [Thread -> {"idle", "hot", "overflow", "spin", "cold"}] /\ CallOK'
      BY <2>4 DEF TypeOK, CallOK, Spin, Goto
    <3>3. QED
      BY <2>4, <3>1, <3>2 DEF TypeOK, Spin, tierVars, coldVars, Tier!Open
  <2>5. CASE ReadCold(t)
    <3>1. cold[Canon[path[t]]] \in Version \cup {NoFile}
      BY <2>5, KeyType DEF TypeOK, CallOK, ReadCold
    <3>2. QED
      BY <2>5, <3>1, ReturnType DEF ReadCold
  <2>6. QED
    BY <1>8, <2>1, <2>2, <2>3, <2>4, <2>5 DEF InCall
<1>9. CASE TierRestart
  BY <1>9 DEF TypeOK, CallOK, TierRestart, Tier!Restart, Tier!Open, coldVars, callVars
<1>10. CASE UNCHANGED vars
  BY <1>10 DEF TypeOK, CallOK, vars, Tier!Open
<1>11. QED
  BY <1>1, <1>2, <1>3, <1>4, <1>5, <1>6, <1>7, <1>8, <1>9, <1>10 DEF Next

\* Every variable keeps its type; the spin takes at most SpinChecks turns.
THEOREM TypeCorrect == Spec => []TypeOK
<1>1. Typed => TypeOK
  BY DEF Typed
<1>2. QED
  BY <1>1, TypedInit, TypedStep, PTL DEF Spec

(***************************************************************************)
(* Only the fall-through to the cold tier can end a call with nothing: the *)
(* hot branches return a version, and a hot failure moves on instead.      *)
(***************************************************************************)
FailStep(t) ==
    Returns(t) /\ got'[t] = NoFile => pc[t] = "cold" /\ cold[Canon[path[t]]] = NoFile

\* A call's return is the business of its own thread.
LEMMA ReturnOnlyOwn ==
    ASSUME Typed, NEW t \in Thread, NEW v, Return(t, v)
    PROVE  got'[t] = v /\ \A u \in Thread : u # t => pc'[u] = pc[u] /\ got'[u] = got[u]
  BY DEF Typed, TypeOK, Return

\* No step but the failing read of the cold tier ends a call with nothing.
LEMMA FailStepHolds == Typed /\ [Next]_vars => [\A t \in Thread : FailStep(t)]_vars
<1> SUFFICES ASSUME Typed, Next, NEW u \in Thread PROVE FailStep(u)
  BY DEF FailStep, Returns, vars
<1> USE ShimAssumption
<1>1. CASE UNCHANGED pc
  BY <1>1 DEF FailStep, Returns
<1>2. ASSUME NEW t \in Thread, NEW p \in Path, NEW what \in {"open", "stat"},
             Call(t, what, p)
      PROVE  FailStep(u)
  BY <1>2 DEF Typed, TypeOK, FailStep, Returns, Call
<1>3. ASSUME NEW t \in Thread, InCall(t) PROVE FailStep(u)
  <2>1. CASE CheckHot(t)
    <3>1. CASE Return(t, copied["hot_root"][Key(path[t])]) /\ pc[t] = "hot"
      <4>1. copied["hot_root"][Key(path[t])] \in Version
        BY <3>1, KeyType DEF Typed, TypeOK, CallOK, Root
      <4>2. QED
        BY <3>1, <4>1, ReturnOnlyOwn DEF FailStep, Returns, Version
    <3>2. CASE Goto(t, "hot", IF HasOverflow THEN "overflow" ELSE AfterMiss(t))
      BY <3>2 DEF Typed, TypeOK, Goto, AfterMiss, FailStep, Returns
    <3>3. QED
      BY <2>1, <3>1, <3>2 DEF CheckHot
  <2>2. CASE CheckOverflow(t)
    <3>1. CASE Return(t, copied["overflow_root"][Key(path[t])]) /\ pc[t] = "overflow"
      <4>1. copied["overflow_root"][Key(path[t])] \in Version
        BY <3>1, KeyType DEF Typed, TypeOK, CallOK, Root
      <4>2. QED
        BY <3>1, <4>1, ReturnOnlyOwn DEF FailStep, Returns, Version
    <3>2. CASE Goto(t, "overflow", AfterMiss(t))
      BY <3>2 DEF Typed, TypeOK, Goto, AfterMiss, FailStep, Returns
    <3>3. QED
      BY <2>2, <3>1, <3>2 DEF CheckOverflow
  <2>3. CASE HotFails(t)
    BY <2>3 DEF Typed, TypeOK, HotFails, Goto, FailStep, Returns
  <2>4. CASE Spin(t)
    BY <2>4 DEF Typed, TypeOK, Spin, Goto, FailStep, Returns
  <2>5. CASE ReadCold(t)
    BY <2>5, ReturnOnlyOwn DEF ReadCold, FailStep, Returns
  <2>6. QED
    BY <1>3, <2>1, <2>2, <2>3, <2>4, <2>5 DEF InCall
<1>4. QED
  BY <1>1, <1>2, <1>3
     DEF Next, TierRequest, TierSettle, TierDrop, TierPublish, TierRestart,
         Write, Unlink, UnlinkFile

\* Whatever the stager publishes or drops in between, and however the hot tier
\* fails, a call fails only if the file is absent from the cold tier.
THEOREM NoSpuriousFailure == Spec => FailsOnlyIfColdFails
<1>1. [\A t \in Thread : FailStep(t)]_vars
        => [\A t \in Thread :
              Returns(t) /\ got'[t] = NoFile => cold[Canon[path[t]]] = NoFile]_vars
  BY DEF FailStep
<1>2. QED
  BY <1>1, TypedInit, TypedStep, FailStepHolds, PTL DEF Spec, FailsOnlyIfColdFails

(***************************************************************************)
(* A call that had its mirror in sight from its first step.  If it misses  *)
(* the hot root without a fault, the mirror is in the overflow root.       *)
(***************************************************************************)
InSight(t) ==
    /\ pc[t] # "idle" /\ Visible(path[t])
    /\ pc[t] = "overflow" =>
          faulted[t] \/ (HasOverflow /\ Key(path[t]) \in mirror["overflow_root"])
    /\ pc[t] \in {"spin", "cold"} => faulted[t]
ServedInv == \A t \in Thread : steady[t] => InSight(t)

\* What the other threads and the cold tier do leaves a thread's view alone.
LEMMA InSightKept ==
    ASSUME NEW u \in Thread, steady[u] => InSight(u), steady'[u] => steady[u],
           pc'[u] = pc[u], path'[u] = path[u], faulted'[u] = faulted[u],
           Key(path[u]) \in mirror["hot_root"] /\ steady'[u]
              => Key(path[u]) \in mirror'["hot_root"],
           mirror["overflow_root"] \subseteq mirror'["overflow_root"]
    PROVE  steady'[u] => InSight(u)'
<1> SUFFICES ASSUME steady'[u] PROVE InSight(u)'
  OBVIOUS
<1>1. InSight(u) /\ Key(path[u])' = Key(path[u])
  BY DEF Key
<1>2. QED
  BY <1>1 DEF InSight, Visible

\* Every step keeps steady mirrors in sight: one case per action.
LEMMA ServedStep == Typed /\ ServedInv /\ [Next]_vars => ServedInv'
<1> SUFFICES ASSUME Typed, ServedInv, [Next]_vars, NEW u \in Thread
             PROVE  steady'[u] => InSight(u)'
  BY DEF ServedInv
<1> USE ShimAssumption
<1>0. steady[u] => InSight(u)
  BY DEF ServedInv
<1>1. ASSUME UNCHANGED mirror, UNCHANGED pc, UNCHANGED callVars
      PROVE  steady'[u] => InSight(u)'
  BY <1>0, <1>1, InSightKept DEF callVars
<1>2. ASSUME NEW p \in Path, TierDrop(p) PROVE steady'[u] => InSight(u)'
  <2>1. steady'[u] => steady[u] /\ Key(path[u]) # p
    BY <1>2 DEF TierDrop
  <2>2. mirror' = [mirror EXCEPT !["hot_root"] = @ \ {p}]
    BY <1>2 DEF TierDrop, Tier!Drop
  <2>3. mirror'["hot_root"] = mirror["hot_root"] \ {p}
        /\ mirror'["overflow_root"] = mirror["overflow_root"]
    BY <2>2 DEF Typed, TypeOK, Root
  <2>4. pc' = pc /\ path' = path /\ faulted' = faulted
    BY <1>2 DEF TierDrop
  <2>5. QED
    BY <1>0, <2>1, <2>3, <2>4, InSightKept
<1>3. ASSUME NEW p \in Path, NEW r \in Root, TierPublish(p, r)
      PROVE  steady'[u] => InSight(u)'
  <2>1. mirror' = [mirror EXCEPT ![r] = @ \cup {Canon[p]}]
    BY <1>3 DEF TierPublish, Tier!Publish
  <2>2. mirror["hot_root"] \subseteq mirror'["hot_root"]
        /\ mirror["overflow_root"] \subseteq mirror'["overflow_root"]
    BY <2>1 DEF Typed, TypeOK, Root
  <2>3. UNCHANGED <<pc, callVars>>
    BY <1>3 DEF TierPublish
  <2>4. QED
    BY <1>0, <2>2, <2>3, InSightKept DEF callVars
<1>4. ASSUME NEW t \in Thread, NEW p \in Path, NEW what \in {"open", "stat"},
             Call(t, what, p)
      PROVE  steady'[u] => InSight(u)'
  <2>1. UNCHANGED mirror /\ UNCHANGED faulted
    BY <1>4 DEF Call, tierVars
  <2>2. CASE u # t
    <3>1. pc'[u] = pc[u] /\ path'[u] = path[u] /\ (steady'[u] <=> steady[u])
      BY <1>4, <2>2 DEF Typed, TypeOK, Call
    <3>2. QED
      BY <1>0, <2>1, <3>1, InSightKept
  <2>3. CASE u = t
    <3>1. path'[u] = p /\ pc'[u] = (IF Redirected(p) THEN "hot" ELSE "cold")
      BY <1>4, <2>3 DEF Typed, TypeOK, Call
    <3>2. steady'[u] => Redirected(p) /\ Visible(p)
      BY <1>4, <2>3 DEF Typed, TypeOK, Call
    <3>3. QED
      BY <2>1, <3>1, <3>2 DEF InSight, Visible, Key
  <2>4. QED
    BY <2>2, <2>3
<1>5. ASSUME NEW t \in Thread, InCall(t) PROVE steady'[u] => InSight(u)'
  <2>1. UNCHANGED mirror
    BY <1>5 DEF InCall, CheckHot, CheckOverflow, HotFails, Spin, ReadCold, tierVars
  <2>2. ASSUME NEW v, Return(t, v) PROVE steady'[u] => InSight(u)'
    <3>1. CASE u = t
      BY <2>2, <3>1 DEF Typed, TypeOK, Return
    <3>2. CASE u # t
      <4>1. /\ pc'[u] = pc[u] /\ path'[u] = path[u]
            /\ faulted'[u] = faulted[u] /\ steady'[u] = steady[u]
        BY <2>2, <3>2 DEF Typed, TypeOK, Return
      <4>2. QED
        BY <1>0, <2>1, <4>1, InSightKept
    <3>3. QED
      BY <3>1, <3>2
  <2>3. ASSUME NEW from, NEW to, Goto(t, from, to), UNCHANGED <<path, steady>>,
               faulted[u] => faulted'[u], u # t => faulted'[u] = faulted[u],
               u = t /\ steady[u] /\ InSight(u) =>
                  /\ to # "idle"
                  /\ to = "overflow" => faulted'[u] \/
                        (HasOverflow /\ Key(path[u]) \in mirror["overflow_root"])
                  /\ to \in {"spin", "cold"} => faulted'[u]
        PROVE  steady'[u] => InSight(u)'
    <3>1. CASE u # t
      <4>1. pc'[u] = pc[u]
        BY <2>3, <3>1 DEF Typed, TypeOK, Goto
      <4>2. QED
        BY <1>0, <2>1, <2>3, <3>1, <4>1, InSightKept
    <3>2. CASE u = t
      <4>1. pc'[u] = to
        BY <2>3, <3>2 DEF Typed, TypeOK, Goto
      <4>2. QED
        BY <1>0, <2>1, <2>3, <3>2, <4>1 DEF InSight, Visible, Key
    <3>3. QED
      BY <3>1, <3>2
  <2>4. CASE CheckHot(t)
    <3>1. CASE Return(t, copied["hot_root"][Key(path[t])])
      BY <3>1, <2>2
    <3>2. CASE /\ Goto(t, "hot", IF HasOverflow THEN "overflow" ELSE AfterMiss(t))
               /\ Key(path[t]) \notin mirror["hot_root"] /\ UNCHANGED callVars
      BY <3>2, <2>3 DEF InSight, Visible, callVars, AfterMiss
    <3>3. QED
      BY <2>4, <3>1, <3>2 DEF CheckHot
  <2>5. CASE CheckOverflow(t)
    <3>1. CASE Return(t, copied["overflow_root"][Key(path[t])])
      BY <3>1, <2>2
    <3>2. CASE /\ Goto(t, "overflow", AfterMiss(t))
               /\ Key(path[t]) \notin mirror["overflow_root"] /\ UNCHANGED callVars
      BY <3>2, <2>3 DEF InSight, Goto, callVars, AfterMiss
    <3>3. QED
      BY <2>5, <3>1, <3>2 DEF CheckOverflow
  <2>6. CASE HotFails(t)
    <3>1. UNCHANGED <<path, steady>> /\ faulted' = [faulted EXCEPT ![t] = TRUE]
      BY <2>6 DEF HotFails
    <3>2. faulted'[t] /\ (u # t => faulted'[u] = faulted[u])
      BY <3>1 DEF Typed, TypeOK
    <3>3. \E from \in {"hot", "overflow"}, to \in {"overflow", "cold"} : Goto(t, from, to)
      BY <2>6 DEF HotFails
    <3>4. PICK from \in {"hot", "overflow"}, to \in {"overflow", "cold"} :
             Goto(t, from, to)
      BY <3>3
    <3>5. faulted[u] => faulted'[u]
      BY <3>2
    <3>6. to # "idle" /\ (u = t => faulted'[u])
      BY <3>2, <3>4
    <3>7. QED
      BY <2>3, <3>1, <3>2, <3>4, <3>5, <3>6
  <2>7. CASE Spin(t)
    <3>1. CASE Goto(t, "spin", "hot")
      BY <2>7, <3>1, <2>3 DEF Spin
    <3>2. CASE Goto(t, "spin", "cold")
      BY <2>7, <3>2, <2>3 DEF Spin, Goto, InSight
    <3>3. QED
      BY <2>7, <3>1, <3>2 DEF Spin
  <2>8. CASE ReadCold(t)
    BY <2>8, <2>2 DEF ReadCold
  <2>9. QED
    BY <1>5, <2>4, <2>5, <2>6, <2>7, <2>8 DEF InCall
<1>6. QED
  <2>1. ASSUME NEW p \in Path, TierRequest(p) \/ TierSettle(p) \/ Write(p) \/ Unlink(p)
        PROVE  UNCHANGED mirror /\ UNCHANGED pc /\ UNCHANGED callVars
    BY <2>1 DEF TierRequest, Tier!Request, TierSettle, Tier!Settle, Write, Unlink,
           UnlinkFile, Stands, tierVars
  <2>2. CASE TierRestart
    BY <2>2, <1>1 DEF TierRestart, Tier!Restart
  <2>3. CASE UNCHANGED vars
    BY <2>3, <1>1 DEF vars, callVars
  <2>4. CASE Next
    BY <2>1, <2>2, <2>4, <1>1, <1>2, <1>3, <1>4, <1>5 DEF Next
  <2>5. QED
    BY <2>3, <2>4

\* A call does not go to the cold tier, unless the hot tier failed, while a
\* mirror it looks for has been there since the call began.
THEOREM ServedFromHot == Spec => []StagedIsServed
<1>1. Init => ServedInv
  BY DEF Init, ServedInv
<1>2. ServedInv => StagedIsServed
  BY DEF ServedInv, InSight, StagedIsServed
<1>3. QED
  BY <1>1, <1>2, TypedInit, TypedStep, ServedStep, PTL DEF Spec

(***************************************************************************)
(* What a thread has found and nobody has unlinked is on the cold tier or  *)
(* in a mirror, which a two-tier stager never drops; a call about it that  *)
(* can only be served from a mirror has had that mirror in sight.          *)
(***************************************************************************)
Known(t) == known[t] \cap Managed
KnownOK(t) == \A q \in Known(t) : cold[Canon[q]] # NoFile \/ Visible(q)
CallKnown(t) ==
    pc[t] # "idle" /\ path[t] \in Known(t) /\ cold[Canon[path[t]]] = NoFile
      => steady[t]
KnownInv == HasOverflow => \A t \in Thread : KnownOK(t) /\ CallKnown(t)

\* Mirrors and cold files that stay keep what a thread knows within reach.
LEMMA KnownKept ==
    ASSUME Typed, NEW u \in Thread, KnownOK(u), CallKnown(u),
           known'[u] \subseteq known[u], pc'[u] = pc[u], path'[u] = path[u],
           steady[u] => steady'[u],
           \A r \in Root : mirror[r] \subseteq mirror'[r],
           \A q \in known'[u] : cold[Canon[q]] # NoFile => cold'[Canon[q]] # NoFile
    PROVE  KnownOK(u)' /\ CallKnown(u)'
<1>1. ASSUME NEW q \in Path, Visible(q) PROVE Visible(q)'
  BY <1>1 DEF Visible, Key, Root
<1>2. known'[u] \subseteq Path
  BY DEF Typed, TypeOK
<1>3. KnownOK(u)'
  BY <1>1, <1>2 DEF KnownOK, Known
<1>4. CallKnown(u)'
  BY DEF CallKnown, Known
<1>5. QED
  BY <1>3, <1>4

\* Every step keeps what is known within reach: one case per action.
LEMMA KnownStep == Typed /\ KnownInv /\ [Next]_vars => KnownInv'
<1> SUFFICES ASSUME Typed, KnownInv, [Next]_vars, HasOverflow, NEW u \in Thread
             PROVE  KnownOK(u)' /\ CallKnown(u)'
  BY DEF KnownInv
<1> USE ShimAssumption
<1>0. KnownOK(u) /\ CallKnown(u)
  BY DEF KnownInv
<1>1. ASSUME UNCHANGED <<pc, path, steady, mirror, cold, known>>
      PROVE  KnownOK(u)' /\ CallKnown(u)'
  BY <1>0, <1>1, KnownKept
<1>2. ASSUME NEW p \in Path, TierDrop(p) PROVE FALSE
  BY <1>2 DEF TierDrop, Tier!Drop
<1>3. ASSUME NEW p \in Path, NEW r \in Root, TierPublish(p, r)
      PROVE  KnownOK(u)' /\ CallKnown(u)'
  <2>1. \A s \in Root : mirror[s] \subseteq mirror'[s]
    BY <1>3 DEF TierPublish, Tier!Publish, Typed, TypeOK
  <2>2. UNCHANGED <<pc, path, steady, cold, known>>
    BY <1>3 DEF TierPublish, callVars, coldVars
  <2>3. QED
    BY <1>0, <2>1, <2>2, KnownKept
<1>4. ASSUME NEW p \in Path, Write(p) PROVE KnownOK(u)' /\ CallKnown(u)'
  <2>1. UNCHANGED <<pc, path, steady, mirror, known>>
    BY <1>4 DEF Write, Stands, callVars
  <2>2. latest[Canon[p]] + 1 # NoFile
    BY KeyType DEF Typed, TypeOK, Version
  <2>3. \A q \in Path : cold[Canon[q]] # NoFile => cold'[Canon[q]] # NoFile
    BY <1>4, <2>2, KeyType DEF Write, Typed, TypeOK
  <2>4. known'[u] \subseteq Path
    BY <2>1 DEF Typed, TypeOK
  <2>5. QED
    BY <1>0, <2>1, <2>3, <2>4, KnownKept
<1>5. ASSUME NEW p \in Path, Unlink(p) PROVE KnownOK(u)' /\ CallKnown(u)'
  <2>1. UNCHANGED <<pc, path, steady, mirror>>
    BY <1>5 DEF Unlink, UnlinkFile, Stands, callVars, tierVars
  <2>2. known'[u] = {q \in known[u] : Canon[q] # p}
    BY <1>5 DEF Unlink, UnlinkFile
  <2>3. known[u] \subseteq Path
    BY DEF Typed, TypeOK
  <2>4. \A q \in known'[u] : cold'[Canon[q]] = cold[Canon[q]]
    BY <1>5, <2>2, <2>3, KeyType DEF Unlink, UnlinkFile, Typed, TypeOK
  <2>5. QED
    BY <1>0, <2>1, <2>2, <2>4, KnownKept
<1>6. ASSUME NEW t \in Thread, NEW p \in Path, NEW what \in {"open", "stat"},
             Call(t, what, p)
      PROVE  KnownOK(u)' /\ CallKnown(u)'
  <2>1. UNCHANGED <<mirror, cold, known>>
    BY <1>6 DEF Call, tierVars, coldVars
  <2>2. CASE u # t
    <3>1. pc'[u] = pc[u] /\ path'[u] = path[u] /\ steady'[u] = steady[u]
      BY <1>6, <2>2 DEF Typed, TypeOK, Call
    <3>2. QED
      BY <1>0, <2>1, <3>1, KnownKept
  <2>3. CASE u = t
    <3>1. KnownOK(u)'
      BY <1>0, <2>1 DEF KnownOK, Known, Visible, Key
    <3>2. path'[u] = p /\ steady'[u] = (Redirected(p) /\ Visible(p))
      BY <1>6, <2>3 DEF Typed, TypeOK, Call
    <3>3. CASE p \in Known(u) /\ cold[Canon[p]] = NoFile
      <4>1. Visible(p) /\ Redirected(p)
        BY <1>0, <3>3 DEF KnownOK, Known, Redirected
      <4>2. QED
        BY <3>1, <3>2, <4>1 DEF CallKnown
    <3>4. CASE ~(p \in Known(u) /\ cold[Canon[p]] = NoFile)
      BY <2>1, <3>1, <3>2, <3>4 DEF CallKnown, Known
    <3>5. QED
      BY <3>3, <3>4
  <2>4. QED
    BY <2>2, <2>3
<1>7. ASSUME NEW t \in Thread, InCall(t) PROVE KnownOK(u)' /\ CallKnown(u)'
  <2>1. UNCHANGED <<mirror, cold>>
    BY <1>7 DEF InCall, CheckHot, CheckOverflow, HotFails, Spin, ReadCold,
                tierVars, coldVars
  <2>2. ASSUME NEW v, Return(t, v), pc[t] # "idle",
               v = NoFile \/ cold[Canon[path[t]]] # NoFile \/ Visible(path[t])
        PROVE  KnownOK(u)' /\ CallKnown(u)'
    <3>1. CASE u = t
      <4>1. known'[u] = IF v = NoFile THEN known[u] ELSE known[u] \cup {path[u]}
        BY <2>2, <3>1 DEF Typed, TypeOK, Return
      <4>2. \A q \in Known(u)' : cold[Canon[q]] # NoFile \/ Visible(q)
        BY <1>0, <2>2, <3>1, <4>1 DEF KnownOK, Known
      <4>3. KnownOK(u)'
        BY <2>1, <4>2 DEF KnownOK, Visible, Key
      <4>4. pc'[u] = "idle"
        BY <2>2, <3>1 DEF Typed, TypeOK, Return
      <4>5. QED
        BY <4>3, <4>4 DEF CallKnown
    <3>2. CASE u # t
      <4>1. /\ pc'[u] = pc[u] /\ path'[u] = path[u]
            /\ steady'[u] = steady[u] /\ known'[u] = known[u]
        BY <2>2, <3>2 DEF Typed, TypeOK, Return
      <4>2. QED
        BY <1>0, <2>1, <4>1, KnownKept
    <3>3. QED
      BY <3>1, <3>2
  <2>3. ASSUME NEW from, NEW to, from # "idle", Goto(t, from, to),
               UNCHANGED <<path, steady, known>>
        PROVE  KnownOK(u)' /\ CallKnown(u)'
    <3>1. KnownOK(u)'
      BY <1>0, <2>1, <2>3 DEF KnownOK, Known, Visible, Key
    <3>2. pc'[u] # "idle" => pc[u] # "idle"
      BY <2>3 DEF Typed, TypeOK, Goto
    <3>3. CallKnown(u)'
      BY <1>0, <2>1, <2>3, <3>2 DEF CallKnown, Known
    <3>4. QED
      BY <3>1, <3>3
  <2>4. CASE CheckHot(t)
    BY <2>2, <2>3, <2>4 DEF CheckHot, Visible, callVars, Goto
  <2>5. CASE CheckOverflow(t)
    BY <2>2, <2>3, <2>5 DEF CheckOverflow, Visible, callVars, Goto
  <2>6. CASE HotFails(t)
    <3>1. \E from \in {"hot", "overflow"}, to \in {"overflow", "cold"} : Goto(t, from, to)
      BY <2>6 DEF HotFails
    <3>2. QED
      BY <2>3, <2>6, <3>1 DEF HotFails
  <2>7. CASE Spin(t)
    BY <2>3, <2>7 DEF Spin, Goto
  <2>8. CASE ReadCold(t)
    BY <2>2, <2>8 DEF ReadCold
  <2>9. QED
    BY <1>7, <2>4, <2>5, <2>6, <2>7, <2>8 DEF InCall
<1>8. QED
  <2>1. ASSUME NEW p \in Path, TierRequest(p) \/ TierSettle(p)
        PROVE  UNCHANGED <<pc, path, steady, mirror, cold, known>>
    BY <2>1 DEF TierRequest, Tier!Request, TierSettle, Tier!Settle, coldVars, callVars
  <2>2. CASE TierRestart
    BY <2>2, <1>1 DEF TierRestart, Tier!Restart, coldVars, callVars
  <2>3. CASE UNCHANGED vars
    BY <2>3, <1>1 DEF vars
  <2>4. CASE Next
    BY <2>1, <2>2, <2>4, <1>1, <1>2, <1>3, <1>4, <1>5, <1>6, <1>7 DEF Next
  <2>5. QED
    BY <2>3, <2>4

\* With two tiers, what a thread has found under a cold root it finds again
\* until the file is unlinked, unless the hot tier fails during the call.
THEOREM FoundAgain == Spec => FoundStaysFound
<1>1. Init => ServedInv /\ KnownInv
  BY DEF Init, ServedInv, KnownInv, KnownOK, CallKnown, Known
<1>2. ServedInv /\ KnownInv /\ [\A t \in Thread : FailStep(t)]_vars
        => [\A t \in Thread :
              HasOverflow /\ Returns(t) /\ path[t] \in known[t] \cap Managed
                => got'[t] # NoFile \/ faulted[t]]_vars
  BY DEF FailStep, ServedInv, InSight, KnownInv, CallKnown, Known, Returns
<1>3. QED
  BY <1>1, <1>2, TypedInit, TypedStep, ServedStep, KnownStep, FailStepHolds, PTL
     DEF Spec, FoundStaysFound

(***************************************************************************)
(* Versions.  The cold tier always has the last version.  Where nothing    *)
(* was exposed when it was written, a mirror has it too, and an open       *)
(* request cannot copy an older one; an archive without its plain file is  *)
(* the last version until a tool writes the plain file.  Mirrors are named *)
(* by real paths, so the key a mirror is found under is the path whose     *)
(* version it holds.                                                       *)
(***************************************************************************)
ColdIsLatest == \A c \in Path : cold[c] # NoFile => cold[c] = latest[c]
MirrorIsReal == \A r \in Root : \A c \in mirror[r] : Canon[c] = c
MirrorFresh == \A r \in Root : \A c \in mirror[r] : exposed[c] \/ copied[r][c] = latest[c]
OpenFresh == \A p \in Tier!Open :
    exposed[Canon[p]] \/ copyable[p] \subseteq {latest[Canon[p]]}
ArchiveFresh == \A c \in Archived : cold[c] = NoFile => exposed[c] \/ latest[c] = 0
FreshInv == ColdIsLatest /\ MirrorIsReal /\ MirrorFresh /\ OpenFresh /\ ArchiveFresh

\* The step of a thread ends with the last version unless the file is exposed.
FreshStep(t) ==
    Returns(t) /\ got'[t] # NoFile /\ ~exposed[Canon[path[t]]]
      => got'[t] = latest[Canon[path[t]]]

\* At the start every mirror holds the only version there is.
LEMMA FreshInit == Init => FreshInv
<1> SUFFICES ASSUME Init PROVE FreshInv
  OBVIOUS
<1> USE ShimAssumption
<1>1. ColdIsLatest
  BY DEF Init, ColdIsLatest
<1>2. mirror \in [Root -> SUBSET Path] /\ mirror["overflow_root"] = {}
      /\ mirror["hot_root"] \subseteq {Canon[p] : p \in Managed}
  BY DEF Init, Tier!Init, Tier!Root, Root
<1>3. MirrorIsReal
  BY <1>2 DEF MirrorIsReal, Root
<1>4. MirrorFresh
  BY <1>2 DEF Init, MirrorFresh
<1>5. OpenFresh
  BY DEF Init, Tier!Init, OpenFresh, Tier!Open
<1>6. ArchiveFresh
  BY DEF Init, ArchiveFresh
<1>7. QED
  BY <1>1, <1>3, <1>4, <1>5, <1>6 DEF FreshInv

\* Steps that write nothing and make no mirror and no request keep it.
LEMMA FreshKept ==
    ASSUME FreshInv, UNCHANGED <<copied, cold, latest, exposed>>,
           \A r \in Root : mirror'[r] \subseteq mirror[r],
           \A p \in Tier!Open' : p \in Tier!Open /\ copyable'[p] = copyable[p]
    PROVE  FreshInv'
BY DEF FreshInv, ColdIsLatest, MirrorIsReal, MirrorFresh, OpenFresh, ArchiveFresh

\* When a version comes to stand for c, an open request of c may read it too;
\* the others read what they did.
LEMMA StandsOpen ==
    ASSUME Typed, NEW c \in Path, NEW v, Stands(c, v)
    PROVE  /\ UNCHANGED <<mirror, copied>> /\ Tier!Open' = Tier!Open
           /\ \A q \in Tier!Open : Canon[q] # c => copyable'[q] = copyable[q]
<1>1. Tier!Open \subseteq Path
  BY ShimAssumption DEF Typed, TypeOK
<1>2. QED
  BY <1>1 DEF Stands, Awaiting, Tier!Open

\* Every step keeps it: one case per action.
LEMMA FreshKeeps == Typed /\ FreshInv /\ [Next]_vars => FreshInv'
<1> SUFFICES ASSUME Typed, FreshInv, [Next]_vars PROVE FreshInv'
  OBVIOUS
<1> USE ShimAssumption
<1>1. ASSUME NEW p \in Path, TierRequest(p) PROVE FreshInv'
  <2>1. UNCHANGED <<mirror, copied, cold, latest, exposed>>
    BY <1>1 DEF TierRequest, Tier!Request, coldVars
  <2>2. Tier!Open' \subseteq Tier!Open \cup {p}
    BY <1>1 DEF TierRequest, Tier!Request, Tier!Open
  <2>3. Tier!Open \subseteq Path
    BY DEF Typed, TypeOK
  <2>4. copyable'[p] = Resolvable(Canon[p]) /\ \A q \in Path \ {p} : copyable'[q] = copyable[q]
    BY <1>1 DEF TierRequest, Typed, TypeOK
  <2>5. exposed[Canon[p]] \/ Resolvable(Canon[p]) \subseteq {latest[Canon[p]]}
    BY KeyType DEF FreshInv, ColdIsLatest, ArchiveFresh, Resolvable
  <2>6. OpenFresh'
    <3> SUFFICES ASSUME NEW q \in Tier!Open'
                 PROVE  exposed[Canon[q]] \/ copyable'[q] \subseteq {latest[Canon[q]]}
      BY <2>1 DEF OpenFresh
    <3>1. CASE q = p
      BY <2>4, <2>5, <3>1
    <3>2. CASE q # p
      BY <2>2, <2>3, <2>4, <3>2 DEF FreshInv, OpenFresh
    <3>3. QED
      BY <3>1, <3>2
  <2>7. QED
    BY <2>1, <2>6 DEF FreshInv, ColdIsLatest, MirrorIsReal, MirrorFresh, ArchiveFresh
<1>2. ASSUME NEW p \in Path, NEW r \in Root, TierPublish(p, r) PROVE FreshInv'
  <2> DEFINE c == Canon[p]
  <2>1. UNCHANGED <<copyable, cold, latest, exposed>> /\ Tier!Open' = Tier!Open
    BY <1>2 DEF TierPublish, Tier!Publish, Tier!Open, coldVars
  <2>2. p \in Tier!Open /\ c \in Path /\ Canon[c] = c
    BY <1>2, KeyType DEF TierPublish, Tier!Publish
  <2>3. mirror' = [mirror EXCEPT ![r] = @ \cup {c}]
    BY <1>2 DEF TierPublish, Tier!Publish
  <2>4. PICK v \in copyable[p] : copied' = [copied EXCEPT ![r][c] = v]
    BY <1>2 DEF TierPublish
  <2>5. exposed[c] \/ v = latest[c]
    <3>1. exposed[c] \/ copyable[p] \subseteq {latest[c]}
      BY <2>2 DEF FreshInv, OpenFresh
    <3>2. QED
      BY <2>4, <3>1
  <2>6. \A s \in Root, x \in Path :
           /\ x \in mirror'[s] <=> x \in mirror[s] \/ (s = r /\ x = c)
           /\ copied'[s][x] = IF s = r /\ x = c THEN v ELSE copied[s][x]
    <3>1. mirror \in [Root -> SUBSET Path] /\ copied \in [Root -> [Path -> Version]]
      BY DEF Typed, TypeOK
    <3> HIDE DEF c
    <3>2. QED
      BY <2>2, <2>3, <2>4, <3>1
  <2>7. \A s \in Root : mirror'[s] \subseteq Path /\ mirror[s] \subseteq Path
    BY <2>2, <2>3 DEF Typed, TypeOK
  <2> HIDE DEF c
  <2>8. MirrorIsReal'
    BY <2>2, <2>6, <2>7 DEF FreshInv, MirrorIsReal
  <2>9. MirrorFresh'
    BY <2>1, <2>5, <2>6, <2>7 DEF FreshInv, MirrorFresh
  <2>10. ColdIsLatest' /\ OpenFresh' /\ ArchiveFresh'
    BY <2>1 DEF FreshInv, ColdIsLatest, OpenFresh, ArchiveFresh
  <2>11. QED
    BY <2>8, <2>9, <2>10 DEF FreshInv
<1>3. ASSUME NEW p \in Path, Write(p) PROVE FreshInv'
  <2> DEFINE c == Canon[p]
  <2>1. /\ UNCHANGED <<mirror, copied>> /\ Tier!Open' = Tier!Open
        /\ \A q \in Tier!Open : Canon[q] # c => copyable'[q] = copyable[q]
        /\ c \in Path
    BY <1>3, KeyType, StandsOpen DEF Write
  <2>2. /\ latest'[c] = latest[c] + 1 /\ cold'[c] = latest[c] + 1
        /\ \A x \in Path \ {c} : /\ latest'[x] = latest[x] /\ cold'[x] = cold[x]
                                 /\ exposed'[x] = exposed[x]
        /\ exposed'[c] = (Awaiting(c) # {} \/ \E r \in Root : c \in mirror[r])
        /\ cold'[c] # NoFile
    <3>1. latest[c] + 1 \in Nat
      BY <2>1 DEF Typed, TypeOK, Version
    <3>2. QED
      BY <1>3, <2>1, <3>1 DEF Write, Typed, TypeOK
  <2>3. Tier!Open \subseteq Path /\ \A r \in Root : mirror[r] \subseteq Path
    BY DEF Typed, TypeOK
  <2> HIDE DEF c
  <2>4. ColdIsLatest'
    BY <2>2 DEF FreshInv, ColdIsLatest
  <2>5. MirrorIsReal'
    BY <2>1 DEF FreshInv, MirrorIsReal
  <2>6. MirrorFresh'
    <3> SUFFICES ASSUME NEW r \in Root, NEW x \in mirror[r]
                 PROVE  exposed'[x] \/ copied[r][x] = latest'[x]
      BY <2>1 DEF MirrorFresh
    <3>1. CASE x = c
      BY <2>2, <3>1
    <3>2. CASE x # c
      BY <2>2, <2>3, <3>2 DEF FreshInv, MirrorFresh
    <3>3. QED
      BY <3>1, <3>2
  <2>7. OpenFresh'
    <3> SUFFICES ASSUME NEW q \in Tier!Open
                 PROVE  exposed'[Canon[q]] \/ copyable'[q] \subseteq {latest'[Canon[q]]}
      BY <2>1 DEF OpenFresh
    <3>1. CASE Canon[q] = c
      BY <2>2, <3>1 DEF Awaiting
    <3>2. CASE Canon[q] # c
      BY <2>1, <2>2, <2>3, <3>2, KeyType DEF FreshInv, OpenFresh
    <3>3. QED
      BY <3>1, <3>2
  <2>8. ArchiveFresh'
    BY <2>2 DEF FreshInv, ArchiveFresh
  <2>9. QED
    BY <2>4, <2>5, <2>6, <2>7, <2>8 DEF FreshInv
<1>4. ASSUME NEW p \in Path, Unlink(p) PROVE FreshInv'
  <2>1. UNCHANGED <<mirror, copied, latest>> /\ Tier!Open' = Tier!Open
    BY <1>4, StandsOpen DEF Unlink, UnlinkFile, tierVars, Tier!Open
  <2>2. /\ \A x \in Path : cold'[x] \in {cold[x], NoFile}
        /\ \A x \in Path \ {p} : cold'[x] = cold[x]
        /\ \A x \in Path : exposed'[x] = (exposed[x] \/ (x = p /\ p \in Archived))
    <3>1. /\ \A x \in Path : cold'[x] \in {cold[x], NoFile}
          /\ \A x \in Path \ {p} : cold'[x] = cold[x]
      BY <1>4 DEF Unlink, UnlinkFile, Typed, TypeOK
    <3>2. CASE p \notin Archived /\ UNCHANGED <<tierVars, exposed>>
      BY <3>1, <3>2 DEF Typed, TypeOK
    <3>3. CASE p \in Archived /\ exposed' = [exposed EXCEPT ![p] = TRUE]
      BY <3>1, <3>3 DEF Typed, TypeOK
    <3>4. QED
      BY <1>4, <3>2, <3>3 DEF Unlink
  <2>3. Tier!Open \subseteq Path /\ \A r \in Root : mirror[r] \subseteq Path
    BY DEF Typed, TypeOK
  <2>4. ColdIsLatest' /\ MirrorIsReal' /\ MirrorFresh'
    BY <2>1, <2>2, <2>3 DEF FreshInv, ColdIsLatest, MirrorIsReal, MirrorFresh
  <2>5. ArchiveFresh'
    BY <2>1, <2>2 DEF FreshInv, ArchiveFresh
  <2>6. OpenFresh'
    <3> SUFFICES ASSUME NEW q \in Tier!Open
                 PROVE  exposed'[Canon[q]] \/ copyable'[q] \subseteq {latest[Canon[q]]}
      BY <2>1 DEF OpenFresh
    <3>1. Canon[q] \in Path /\ (exposed[Canon[q]] => exposed'[Canon[q]])
      BY <2>2, <2>3, KeyType
    <3>2. CASE Canon[q] = p /\ p \in Archived
      BY <2>2, <3>1, <3>2
    <3>3. CASE ~(Canon[q] = p /\ p \in Archived)
      <4>1. copyable'[q] = copyable[q]
        BY <1>4, <3>3, StandsOpen DEF Unlink, tierVars
      <4>2. QED
        BY <3>1, <4>1 DEF FreshInv, OpenFresh
    <3>4. QED
      BY <3>2, <3>3
  <2>7. QED
    BY <2>4, <2>5, <2>6 DEF FreshInv
<1>5. ASSUME NEW p \in Path, TierDrop(p) PROVE FreshInv'
  <2>1. \A r \in Root : mirror'[r] \subseteq mirror[r]
    BY <1>5 DEF TierDrop, Tier!Drop, Typed, TypeOK
  <2>2. UNCHANGED <<copied, copyable, cold, latest, exposed>> /\ Tier!Open' = Tier!Open
    BY <1>5 DEF TierDrop, Tier!Drop, Tier!Open, coldVars
  <2>3. QED
    BY <2>1, <2>2, FreshKept
<1>6. ASSUME NEW p \in Path, TierSettle(p) PROVE FreshInv'
  <2>1. /\ UNCHANGED <<mirror, copied, cold, latest, exposed>>
        /\ Tier!Open' \subseteq Tier!Open \ {p}
    BY <1>6 DEF TierSettle, Tier!Settle, Tier!Open, coldVars
  <2>2. \A q \in Path \ {p} : copyable'[q] = copyable[q]
    BY <1>6 DEF TierSettle, Typed, TypeOK
  <2>3. Tier!Open \subseteq Path
    BY DEF Typed, TypeOK
  <2>4. QED
    BY <2>1, <2>2, <2>3, FreshKept
<1>7. CASE TierRestart
  <2>1. UNCHANGED <<mirror, copied, cold, latest, exposed>> /\ Tier!Open' = {}
    BY <1>7 DEF TierRestart, Tier!Restart, Tier!Open, coldVars
  <2>2. QED
    BY <2>1, FreshKept
<1>8. ASSUME UNCHANGED tierVars, UNCHANGED coldVars PROVE FreshInv'
  <2>1. UNCHANGED <<mirror, copied, copyable, cold, latest, exposed>>
        /\ Tier!Open' = Tier!Open
    BY <1>8 DEF tierVars, coldVars, Tier!Open
  <2>2. QED
    BY <2>1, FreshKept
<1>9. ASSUME NEW t \in Thread, InCall(t) PROVE UNCHANGED tierVars /\ UNCHANGED coldVars
  BY <1>9 DEF InCall, CheckHot, CheckOverflow, HotFails, Spin, ReadCold,
     tierVars, coldVars
<1>10. ASSUME NEW t \in Thread, NEW p \in Path, NEW what \in {"open", "stat"},
              Call(t, what, p)
       PROVE  UNCHANGED tierVars /\ UNCHANGED coldVars
  BY <1>10 DEF Call, tierVars, coldVars
<1>11. UNCHANGED vars => UNCHANGED tierVars /\ UNCHANGED coldVars
  BY DEF vars, tierVars, coldVars
<1>12. QED
  BY <1>1, <1>2, <1>3, <1>4, <1>5, <1>6, <1>7, <1>8, <1>9, <1>10, <1>11 DEF Next

\* A call ends with what a mirror or the cold tier holds at that moment.
LEMMA FreshStepHolds == Typed /\ FreshInv /\ [Next]_vars => [\A t \in Thread : FreshStep(t)]_vars
<1> SUFFICES ASSUME Typed, FreshInv, Next, NEW u \in Thread PROVE FreshStep(u)
  BY DEF FreshStep, Returns, vars
<1> USE ShimAssumption
<1>1. CASE UNCHANGED pc
  BY <1>1 DEF FreshStep, Returns
<1>2. ASSUME NEW t \in Thread, NEW p \in Path, NEW what \in {"open", "stat"},
             Call(t, what, p)
      PROVE  FreshStep(u)
  BY <1>2 DEF Typed, TypeOK, FreshStep, Returns, Call
<1>3. ASSUME NEW t \in Thread, NEW r \in Root, pc[t] # "idle",
             Key(path[t]) \in mirror[r], Return(t, copied[r][Key(path[t])])
      PROVE  FreshStep(u)
  <2>1. path[t] \in Path
    BY <1>3 DEF Typed, CallOK
  <2>2. Key(path[t]) = Canon[path[t]]
    BY <1>3, <2>1 DEF Key, FreshInv, MirrorIsReal
  <2>3. exposed[Canon[path[t]]] \/ copied[r][Canon[path[t]]] = latest[Canon[path[t]]]
    BY <1>3, <2>2 DEF FreshInv, MirrorFresh
  <2>4. QED
    BY <1>3, <2>2, <2>3, ReturnOnlyOwn DEF FreshStep, Returns
<1>4. ASSUME NEW t \in Thread, InCall(t) PROVE FreshStep(u)
  <2>1. ASSUME NEW from, NEW to \in {"hot", "overflow", "spin", "cold"}, Goto(t, from, to)
        PROVE  FreshStep(u)
    BY <2>1 DEF Typed, TypeOK, Goto, FreshStep, Returns
  <2>2. CASE CheckHot(t)
    BY <1>3, <2>1, <2>2 DEF CheckHot, AfterMiss, Root
  <2>3. CASE CheckOverflow(t)
    BY <1>3, <2>1, <2>3 DEF CheckOverflow, AfterMiss, Root
  <2>4. CASE HotFails(t)
    BY <2>1, <2>4 DEF HotFails
  <2>5. CASE Spin(t)
    BY <2>1, <2>5 DEF Spin
  <2>6. CASE ReadCold(t)
    <3>1. Return(t, cold[Canon[path[t]]]) /\ path[t] \in Path /\ Canon[path[t]] \in Path
      BY <2>6, KeyType DEF ReadCold, Typed, CallOK
    <3>2. QED
      BY <3>1, ReturnOnlyOwn DEF FreshStep, Returns, FreshInv, ColdIsLatest
  <2>7. QED
    BY <1>4, <2>2, <2>3, <2>4, <2>5, <2>6 DEF InCall
<1>5. QED
  BY <1>1, <1>2, <1>4
     DEF Next, TierRequest, TierSettle, TierDrop, TierPublish, TierRestart,
         Write, Unlink, UnlinkFile

\* However copies and sweeps interleave with the writers of the cold tier, a
\* call finds an old version only of a file that had a mirror, or was being
\* staged, when its last version was written, or of one whose plain file was
\* removed from beside its archive since.
THEOREM StaleOnlyWhereExposed == Spec => StaleOnlyIfExposed
<1>1. [\A t \in Thread : FreshStep(t)]_vars
        => [\A t \in Thread :
              Returns(t) /\ got'[t] # NoFile /\ ~exposed[Canon[path[t]]]
                => got'[t] = latest[Canon[path[t]]]]_vars
  BY DEF FreshStep
<1>2. QED
  BY <1>1, TypedInit, TypedStep, FreshInit, FreshKeeps, FreshStepHolds, PTL
     DEF Spec, StaleOnlyIfExposed
=============================================================================
