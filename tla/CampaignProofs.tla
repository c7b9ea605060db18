--------------------------- MODULE CampaignProofs ---------------------------
(***************************************************************************)
(* Proofs about the campaigns of Campaign, for any cells, order of cells,  *)
(* scripts, number of turns and number of starts: what a finished cell's   *)
(* summary says is on disk, and nothing disturbs it.                       *)
(***************************************************************************)
EXTENDS Campaign, TLAPS

Busy == {"turn", "stream", "stalled", "shell", "hung", "write", "writing"}

Proc == [phase : {"none", "turn", "stream", "stalled", "shell", "hung", "write",
                  "writing", "exited", "failed"},
         cell : Cell, by : Nat, turn : 0..MaxTurns, kind : {"done", "crash"}]

\* A session opens a turn only while one is left.
TurnLeft == \A s \in Slot : procs[s].phase = "turn" => procs[s].turn < MaxTurns

Typed == TypeOK /\ TurnLeft

\* Two sessions in one directory is what shared records.
Apart ==
    \A c \in Cell : Occupied("child", c) /\ Occupied("orphan", c) => shared[c]

\* A directory in which a session works has no summary of a finished one.
Unfinished ==
    \A s \in Slot : procs[s].phase \in Busy /\ ~shared[procs[s].cell]
        => summary[procs[s].cell].kind # "done"

\* The turns of a session are in its directory, if no removal has begun there.
Written ==
    \A s \in Slot :
        procs[s].phase # "none" /\ ~shared[procs[s].cell] /\ ~partial[procs[s].cell]
        => \A k \in 1..procs[s].turn : turns[procs[s].cell][k] = procs[s].by

\* With "once" nothing else is, and nothing else was scored.
Clean ==
    driver = "once" =>
        /\ \A s \in Slot : procs[s].phase # "none" /\ ~shared[procs[s].cell]
             => \A k \in Turn : {turns[procs[s].cell][k], metrics[procs[s].cell][k]}
                                   \subseteq {0, procs[s].by}
        /\ \A c \in Cell : summary[c].kind = "done" /\ ~shared[c] => OneAttempt(c)

\* The shell script has no timeout that would leave a session behind, and
\* removes no directory.
OssAlone ==
    driver = "oss" => /\ procs["orphan"].phase = "none"
                      /\ \A c \in Cell : ~shared[c] /\ ~partial[c]

Inv == Typed /\ Apart /\ Unfinished /\ Written /\ SummaryDescribesTurns /\ Clean /\ OssAlone

-----------------------------------------------------------------------------
(***************************************************************************)
(* Every step is one of four kinds: a session works, the driver begins     *)
(* one, it removes an entry of a directory, or processes only end and      *)
(* change hands.                                                           *)
(***************************************************************************)
SessionActs(s) == SessionStep(s) \/ StreamStalls(s) \/ GrandchildExits(s) \/ SessionFails(s)

\* What a working session does to its directory: it opens a turn, or works on
\* its summary, or does neither.
Opens(s) ==
    /\ procs[s].phase = "turn" /\ procs[s].turn + 1 \in Turn
    /\ procs'[s].turn = procs[s].turn + 1
    /\ turns' = [turns EXCEPT ![procs[s].cell][procs[s].turn + 1] = procs[s].by]
    /\ summary' = summary

Summarises(s) ==
    /\ procs'[s].turn = procs[s].turn
    /\ turns' = turns
    /\ \A c \in Cell \ {procs[s].cell} : summary'[c] = summary[c]
    /\ \/ summary'[procs[s].cell].kind \in {"torn", "crash"}
       \/ /\ procs'[s].phase = "exited"
          /\ summary'[procs[s].cell].by = procs[s].by
          /\ summary'[procs[s].cell].n = procs[s].turn

OnlyProceeds(s) ==
    /\ procs'[s].turn = procs[s].turn
    /\ UNCHANGED dirVars

Works(s) ==
    /\ procs[s].phase \in Busy /\ procs'[s].phase # "none"
    /\ procs'[s].cell = procs[s].cell /\ procs'[s].by = procs[s].by
    /\ \A t \in Slot \ {s} : procs'[t] = procs[t]
    /\ UNCHANGED <<driverVars, scoreVars>>
    /\ Opens(s) \/ Summarises(s) \/ OnlyProceeds(s)

\* A session begins in a directory that has no summary, and with "once" in an
\* empty one.
Begins ==
    /\ Begin
    /\ summary[Here].kind = "done" => driver = "once"
    /\ summary' = [summary EXCEPT ![Here] = NoSummary]
    /\ \A c \in Cell \ {Here} : turns'[c] = turns[c] /\ metrics'[c] = metrics[c]
    /\ IF driver = "once"
       THEN turns'[Here] = NoTurns /\ metrics'[Here] = NoTurns
       ELSE UNCHANGED <<turns, metrics>>

\* A removal takes something from the directory at hand, and marks it.
Removes ==
    /\ driver = "once"
    /\ UNCHANGED <<driver, shared, procs>>
    /\ partial' = [partial EXCEPT ![Here] = TRUE]
    /\ \A c \in Cell \ {Here} :
         turns'[c] = turns[c] /\ summary'[c] = summary[c] /\ metrics'[c] = metrics[c]
    /\ summary'[Here] \in {summary[Here], NoSummary}
    /\ \A k \in Turn : /\ turns'[Here][k] \in {0, turns[Here][k]}
                       /\ metrics'[Here][k] \in {0, metrics[Here][k]}

\* At most one process is left, or nothing happened to them.
HandsOver ==
    \/ procs' = procs
    \/ \A s \in Slot : procs'[s].phase = "none"
    \/ /\ procs'["child"].phase = "none"
       /\ \/ procs'["orphan"] = procs["orphan"]
          \/ driver = "once" /\ procs'["orphan"] = procs["child"]
    \/ procs'["orphan"].phase = "none" /\ procs'["child"] = procs["child"]

Quiet ==
    /\ HandsOver
    /\ UNCHANGED <<driver, shared, partial, dirVars>>
    /\ \A c \in Cell : metrics'[c] \in {metrics[c], turns[c]}

-----------------------------------------------------------------------------
(***************************************************************************)
(* Types, and the kind of every step.                                      *)
(***************************************************************************)
\* The driver's place is a cell.
LEMMA HereIsCell == Typed => Here \in Cell
  BY CampaignAssumption DEF Typed, TypeOK, Here

\* The empty values have the types of their variables.
LEMMA EmptyTyped ==
    /\ Idle = [phase |-> "none", cell |-> Plan[1], by |-> 0, turn |-> 0, kind |-> "done"]
    /\ Plan[1] \in Cell /\ 0 \in 0..MaxTurns
    /\ NoTurns \in [Turn -> Nat] /\ \A k \in Turn : NoTurns[k] = 0
    /\ NoSummary = [kind |-> "none", by |-> 0, n |-> 0]
<1>1. 1 \in 1..Len(Plan) /\ Plan[1] \in Cell /\ 0 \in 0..MaxTurns
  BY CampaignAssumption
<1>2. QED
  BY <1>1 DEF Idle, NoTurns, NoSummary

LEMMA TypedInit == Init => Typed
<1> SUFFICES ASSUME Init PROVE Typed
  OBVIOUS
<1>1. 1 \in 1..Len(Plan) /\ 1 \in 1..MaxRuns
  BY CampaignAssumption
<1>2. QED
  BY <1>1, EmptyTyped DEF Init, Typed, TypeOK, TurnLeft, Ended

\* A session's change of phase disturbs nothing else of the processes.
LEMMA GotoProceeds ==
    ASSUME Typed, NEW s \in Slot, NEW phase \in Busy \cup {"hung", "exited", "failed"},
           phase = "turn" => procs[s].turn < MaxTurns,
           Goto(s, phase)
    PROVE  /\ procs' \in [Slot -> Proc] /\ TurnLeft'
           /\ procs'[s].phase = phase
           /\ procs'[s].cell = procs[s].cell /\ procs'[s].by = procs[s].by
           /\ procs'[s].turn = procs[s].turn
           /\ \A t \in Slot \ {s} : procs'[t] = procs[t]
<1>1. procs \in [Slot -> Proc] /\ TurnLeft
  BY DEF Typed, TypeOK, Proc
<1> DEFINE q == [procs[s] EXCEPT !.phase = phase]
<1>2. procs[s] \in Proc
  BY <1>1
<1>3. /\ q \in Proc /\ q.phase = phase /\ q.cell = procs[s].cell
      /\ q.by = procs[s].by /\ q.turn = procs[s].turn
  BY <1>2 DEF Proc, Busy
<1>4. procs' = [procs EXCEPT ![s] = q]
  BY <1>1 DEF Goto
<1> HIDE DEF q
<1>5. procs'[s] = q /\ \A t \in Slot \ {s} : procs'[t] = procs[t]
  BY <1>1, <1>4
<1>6. procs' \in [Slot -> Proc]
  BY <1>1, <1>3, <1>4
<1>7. TurnLeft'
  BY <1>1, <1>3, <1>5 DEF TurnLeft
<1>8. QED
  BY <1>3, <1>5, <1>6, <1>7

\* After a command comes the next turn, or the summary.
LEMMA NextTurnProceeds ==
    ASSUME Typed, NEW s \in Slot, NextTurn(s)
    PROVE  \E phase \in Busy :
               (phase = "turn" => procs[s].turn < MaxTurns) /\ Goto(s, phase)
<1>1. procs[s].turn \in 0..MaxTurns /\ MaxTurns \in Nat
  BY CampaignAssumption DEF Typed, TypeOK
<1>2. CASE procs[s].turn = MaxTurns
  BY <1>2 DEF NextTurn, Busy
<1>3. CASE procs[s].turn # MaxTurns
  BY <1>1, <1>3 DEF NextTurn, Busy
<1>4. QED
  BY <1>2, <1>3

\* The types of what a session does not touch.
Rest ==
    /\ driver \in {"oss", "once"} /\ skip \in BOOLEAN
    /\ run \in 1..MaxRuns /\ at \in 1..Len(Plan) /\ attempt \in Nat
    /\ pc \in Ended \cup {"check", "clear", "clearTurns", "running", "replay"}
    /\ shared \in [Cell -> BOOLEAN] /\ partial \in [Cell -> BOOLEAN]
    /\ metrics \in [Cell -> [Turn -> Nat]] /\ detection \in [Cell -> [Turn -> Nat]]
    /\ scoring \subseteq Cell

Dirs ==
    /\ turns \in [Cell -> [Turn -> Nat]]
    /\ summary \in [Cell -> [kind : {"none", "torn", "crash", "done"}, by : Nat,
                             n : 0..MaxTurns]]

LEMMA TypedParts == Typed <=> Rest /\ Dirs /\ procs \in [Slot -> Proc] /\ TurnLeft
  BY DEF Typed, TypeOK, Rest, Dirs, Proc

LEMMA TypedPartsNext ==
    Rest' /\ Dirs' /\ procs' \in [Slot -> Proc] /\ TurnLeft' => Typed'
  BY DEF Typed, TypeOK, Rest, Dirs, Proc

\* A step that moves nothing but the phase of a session.
LEMMA ProceedsTyped ==
    ASSUME Typed, NEW s \in Slot, procs[s].phase \in Busy,
           NEW phase \in Busy \cup {"hung", "exited", "failed"},
           phase = "turn" => procs[s].turn < MaxTurns,
           Goto(s, phase), UNCHANGED <<driverVars, dirVars, scoreVars>>
    PROVE  Typed' /\ Works(s)
<1>1. Rest' /\ Dirs'
  BY TypedParts DEF Rest, Dirs, driverVars, dirVars, scoreVars
<1>2. phase # "none"
  BY DEF Busy
<1>3. Works(s)
  BY <1>2, GotoProceeds DEF Works, OnlyProceeds
<1>4. QED
  BY <1>1, <1>3, GotoProceeds, TypedPartsNext

\* A session's step keeps the types and is one of the kinds above.
LEMMA SessionWorks ==
    ASSUME Typed, NEW s \in Slot, SessionActs(s)
    PROVE  Typed' /\ Works(s)
<1> DEFINE p == procs[s]
<1>0. p \in Proc /\ Rest /\ Dirs /\ TurnLeft /\ procs \in [Slot -> Proc]
  BY TypedParts
<1>1. CASE OpenTurn(s)
  <2> DEFINE q == [p EXCEPT !.phase = "stream", !.turn = @ + 1]
  <2>1. p.turn + 1 \in Turn /\ p.cell \in Cell /\ p.by \in Nat /\ p.turn \in Nat
    BY <1>0, <1>1, CampaignAssumption DEF OpenTurn, TurnLeft, Turn, Proc
  <2>2. /\ q \in Proc /\ q.phase = "stream" /\ q.cell = p.cell /\ q.by = p.by
        /\ q.turn = p.turn + 1
    <3> DEFINE q0 == [p EXCEPT !.phase = "stream"]
    <3>1. /\ q0 \in Proc /\ q0.phase = "stream" /\ q0.cell = p.cell /\ q0.by = p.by
          /\ q0.turn = p.turn
      BY <1>0 DEF Proc
    <3>2. q = [q0 EXCEPT !.turn = p.turn + 1]
      BY <3>1
    <3> HIDE DEF q0
    <3>3. p.turn + 1 \in 0..MaxTurns
      BY <2>1, CampaignAssumption DEF Turn
    <3>4. QED
      BY <3>1, <3>2, <3>3 DEF Proc
  <2>3. procs' = [procs EXCEPT ![s] = q]
    BY <1>0, <1>1 DEF OpenTurn
  <2> HIDE DEF q
  <2>4. procs' \in [Slot -> Proc] /\ procs'[s] = q /\ \A t \in Slot \ {s} : procs'[t] = procs[t]
    BY <1>0, <2>2, <2>3
  <2>5. Rest' /\ TurnLeft'
    BY <1>0, <1>1, <2>2, <2>4 DEF OpenTurn, Rest, TurnLeft, driverVars, scoreVars
  <2>6. Dirs'
    BY <1>0, <1>1, <2>1 DEF OpenTurn, Dirs
  <2>7. Works(s)
    BY <1>1, <2>1, <2>2, <2>4 DEF OpenTurn, Works, Opens, Busy
  <2>8. QED
    BY <2>4, <2>5, <2>6, <2>7, TypedPartsNext
<1>2. CASE StreamEnds(s)
  <2>1. PICK phase \in {"shell", "write"} : Goto(s, phase)
    BY <1>2 DEF StreamEnds
  <2>2. phase \in Busy /\ phase # "turn" /\ p.phase \in Busy
    BY <1>2 DEF StreamEnds, Busy
  <2>3. QED
    BY <1>2, <2>1, <2>2, ProceedsTyped DEF StreamEnds
<1>3. CASE ShellEnds(s)
  <2>1. p.phase \in Busy
    BY <1>3 DEF ShellEnds, Busy
  <2>2. CASE NextTurn(s)
    BY <1>3, <2>1, <2>2, NextTurnProceeds, ProceedsTyped DEF ShellEnds
  <2>3. CASE Goto(s, "hung")
    BY <1>3, <2>1, <2>3, ProceedsTyped DEF ShellEnds
  <2>4. QED
    BY <1>3, <2>2, <2>3 DEF ShellEnds
<1>4. CASE OpenSummary(s)
  <2>1. p.phase \in Busy /\ p.cell \in Cell /\ Goto(s, "writing") /\ "writing" \in Busy
    BY <1>0, <1>4 DEF OpenSummary, Busy, Proc
  <2> DEFINE torn == [NoSummary EXCEPT !.kind = "torn"]
  <2>2. torn \in [kind : {"torn"}, by : Nat, n : 0..MaxTurns]
    BY EmptyTyped
  <2>3. summary' = [summary EXCEPT ![p.cell] = torn]
    BY <1>4 DEF OpenSummary
  <2> HIDE DEF torn
  <2>4. Dirs' /\ summary'[p.cell].kind = "torn"
           /\ \A c \in Cell \ {p.cell} : summary'[c] = summary[c]
    BY <1>0, <1>4, <2>1, <2>2, <2>3 DEF OpenSummary, Dirs
  <2>5. Rest'
    BY <1>0, <1>4 DEF OpenSummary, Rest, driverVars, scoreVars
  <2>6. Works(s)
    BY <1>4, <2>1, <2>4, GotoProceeds DEF OpenSummary, Works, Summarises, driverVars, scoreVars
  <2>7. QED
    BY <2>1, <2>4, <2>5, <2>6, GotoProceeds, TypedPartsNext
<1>5. CASE CloseSummary(s)
  <2> DEFINE sum == [kind |-> p.kind, by |-> p.by, n |-> IF p.kind = "done" THEN p.turn ELSE 0]
  <2>1. p.phase \in Busy /\ p.cell \in Cell /\ Goto(s, "exited")
    BY <1>0, <1>5 DEF CloseSummary, Busy, Proc
  <2>2. /\ sum \in [kind : {"done", "crash"}, by : Nat, n : 0..MaxTurns]
        /\ sum.by = p.by
        /\ sum.kind = "crash" \/ sum.n = p.turn
    BY <1>0, EmptyTyped DEF Proc
  <2>3. summary' = [summary EXCEPT ![p.cell] = sum]
    BY <1>5 DEF CloseSummary
  <2> HIDE DEF sum
  <2>4. Dirs' /\ summary'[p.cell] = sum
           /\ \A c \in Cell \ {p.cell} : summary'[c] = summary[c]
    BY <1>0, <1>5, <2>1, <2>2, <2>3 DEF CloseSummary, Dirs
  <2>5. Rest'
    BY <1>0, <1>5 DEF CloseSummary, Rest, driverVars, scoreVars
  <2>6. Works(s)
    BY <1>5, <2>1, <2>2, <2>4, GotoProceeds DEF CloseSummary, Works, Summarises, driverVars, scoreVars
  <2>7. QED
    BY <2>1, <2>4, <2>5, <2>6, GotoProceeds, TypedPartsNext
<1>6. CASE StreamStalls(s)
  <2>1. p.phase \in Busy /\ "stalled" \in Busy
    BY <1>6 DEF StreamStalls, Busy
  <2>2. QED
    BY <1>6, <2>1, ProceedsTyped DEF StreamStalls
<1>7. CASE GrandchildExits(s)
  BY <1>7, NextTurnProceeds, ProceedsTyped DEF GrandchildExits, Busy
<1>8. CASE SessionFails(s) \/ ReadTimesOut(s)
  <2>1. p.phase \in Busy /\ UNCHANGED <<driverVars, dirVars, scoreVars>>
    BY <1>8 DEF SessionFails, ReadTimesOut, Busy
  <2>2. CASE Goto(s, "failed")
    BY <2>1, <2>2, ProceedsTyped
  <2>3. CASE procs' = [procs EXCEPT ![s].phase = "write", ![s].kind = "crash"]
    <3> DEFINE q == [p EXCEPT !.phase = "write", !.kind = "crash"]
    <3>1. /\ q \in Proc /\ q.phase = "write" /\ q.cell = p.cell /\ q.by = p.by
          /\ q.turn = p.turn
      BY <1>0 DEF Proc
    <3>2. procs' = [procs EXCEPT ![s] = q]
      BY <1>0, <2>3
    <3> HIDE DEF q
    <3>3. procs' \in [Slot -> Proc] /\ procs'[s] = q /\ \A t \in Slot \ {s} : procs'[t] = procs[t]
      BY <1>0, <3>1, <3>2
    <3>4. Rest' /\ Dirs' /\ TurnLeft'
      BY <1>0, <2>1, <3>1, <3>3 DEF Rest, Dirs, TurnLeft, driverVars, dirVars, scoreVars
    <3>5. Works(s)
      BY <2>1, <3>1, <3>3 DEF Works, OnlyProceeds
    <3>6. QED
      BY <3>3, <3>4, <3>5, TypedPartsNext
  <2>4. QED
    BY <1>8, <2>2, <2>3 DEF SessionFails, ReadTimesOut, Raises
<1>9. QED
  BY <1>1, <1>2, <1>3, <1>4, <1>5, <1>6, <1>7, <1>8 DEF SessionActs, SessionStep

\* A begin keeps the types.
LEMMA BeginTyped ==
    ASSUME Typed, OssRuns \/ OnceRuns
    PROVE  Typed' /\ Begins
<1> DEFINE q == [phase |-> "turn", cell |-> Here, by |-> attempt + 1, turn |-> 0, kind |-> "done"]
<1>0. Rest /\ Dirs /\ procs \in [Slot -> Proc] /\ TurnLeft /\ Here \in Cell
  BY TypedParts, HereIsCell
<1>1. /\ Begin /\ UNCHANGED <<turns, metrics, detection, scoring>>
      /\ summary' = [summary EXCEPT ![Here] = NoSummary]
  <2>1. CASE OssRuns
    BY <2>1 DEF OssRuns, scoreVars
  <2>2. CASE OnceRuns
    BY <1>0, <2>2 DEF OnceRuns, dirVars, scoreVars, Dirs
  <2>3. QED
    BY <2>1, <2>2
<1>2. q \in Proc /\ q.turn < MaxTurns
  BY <1>0, EmptyTyped, CampaignAssumption DEF Proc, Rest
<1>3. procs' = [procs EXCEPT !["child"] = q]
  BY <1>1 DEF Begin
<1> HIDE DEF q
<1>4. procs' \in [Slot -> Proc] /\ TurnLeft'
  BY <1>0, <1>2, <1>3 DEF TurnLeft, Slot
<1>5. Occupied("orphan", Here) \in BOOLEAN
  BY DEF Occupied
<1>6. shared' \in [Cell -> BOOLEAN] /\ partial' \in [Cell -> BOOLEAN]
  BY <1>0, <1>1, <1>5 DEF Begin, Rest
<1>7. /\ driver' \in {"oss", "once"} /\ skip' \in BOOLEAN
      /\ run' \in 1..MaxRuns /\ at' \in 1..Len(Plan) /\ attempt' \in Nat
      /\ pc' = "running" /\ scoring' \subseteq Cell
  BY <1>0, <1>1 DEF Begin, Rest
<1>8. summary' \in [Cell -> [kind : {"none", "torn", "crash", "done"}, by : Nat, n : 0..MaxTurns]]
  BY <1>0, <1>1, EmptyTyped DEF Dirs
<1>9. Rest' /\ Dirs'
  BY <1>0, <1>1, <1>6, <1>7, <1>8 DEF Rest, Dirs
<1>10. Begins
  <2>1. CASE OssRuns
    <3>1. driver = "oss" /\ summary[Here].kind # "done"
      BY <2>1 DEF OssRuns
    <3>2. QED
      BY <1>1, <3>1 DEF Begins
  <2>2. CASE OnceRuns
    <3>1. /\ summary[Here].kind = "none"
          /\ turns[Here] = NoTurns /\ metrics[Here] = NoTurns /\ detection[Here] = NoTurns
      BY <2>2, EmptyTyped DEF OnceRuns
    <3>2. QED
      BY <1>1, <3>1 DEF Begins
  <2>3. QED
    BY <2>1, <2>2
<1>11. QED
  BY <1>4, <1>9, <1>10, TypedPartsNext

\* A removal keeps the types.
LEMMA RemovesTyped ==
    ASSUME Typed, OnceRemoves
    PROVE  Typed' /\ Removes
<1>0. Rest /\ Dirs /\ procs \in [Slot -> Proc] /\ TurnLeft /\ Here \in Cell
  BY TypedParts, HereIsCell
<1>1. /\ driver = "once" /\ UNCHANGED <<driver, skip, run, at, attempt, shared, procs, scoring>>
      /\ partial' = [partial EXCEPT ![Here] = TRUE]
      /\ pc' \in {"clear", "clearTurns"}
      /\ RemoveSummary \/ RemoveMetrics \/ RemoveDetection \/ RemoveTurn
  BY DEF OnceRemoves
<1>2. CASE RemoveSummary
  <2>1. /\ UNCHANGED <<turns, metrics, detection>>
        /\ summary' = [summary EXCEPT ![Here] = NoSummary]
    BY <1>2 DEF RemoveSummary
  <2>2. Rest' /\ Dirs'
    BY <1>0, <1>1, <2>1, EmptyTyped DEF Rest, Dirs
  <2>3. Removes
    BY <1>0, <1>1, <2>1 DEF Removes, Dirs
  <2>4. QED
    BY <1>0, <1>1, <2>2, <2>3, TypedPartsNext DEF TurnLeft
<1>3. CASE RemoveMetrics
  <2>1. /\ UNCHANGED <<turns, summary, detection>>
        /\ metrics' = [metrics EXCEPT ![Here] = NoTurns]
    BY <1>3 DEF RemoveMetrics, dirVars
  <2>2. Rest' /\ Dirs'
    BY <1>0, <1>1, <2>1, EmptyTyped DEF Rest, Dirs
  <2>3. Removes
    BY <1>0, <1>1, <2>1, EmptyTyped DEF Removes, Rest
  <2>4. QED
    BY <1>0, <1>1, <2>2, <2>3, TypedPartsNext DEF TurnLeft
<1>4. CASE RemoveDetection
  <2>1. /\ UNCHANGED <<turns, summary, metrics>>
        /\ detection' = [detection EXCEPT ![Here] = NoTurns]
    BY <1>4 DEF RemoveDetection, dirVars
  <2>2. Rest' /\ Dirs'
    BY <1>0, <1>1, <2>1, EmptyTyped DEF Rest, Dirs
  <2>3. Removes
    BY <1>0, <1>1, <2>1 DEF Removes
  <2>4. QED
    BY <1>0, <1>1, <2>2, <2>3, TypedPartsNext DEF TurnLeft
<1>5. CASE RemoveTurn
  <2>1. PICK k \in Turn : turns' = [turns EXCEPT ![Here][k] = 0]
    BY <1>5 DEF RemoveTurn
  <2>2. UNCHANGED <<summary, metrics, detection>>
    BY <1>5 DEF RemoveTurn
  <2>3. Rest' /\ Dirs'
    BY <1>0, <1>1, <2>1, <2>2 DEF Rest, Dirs
  <2>4. Removes
    BY <1>0, <1>1, <2>1, <2>2 DEF Removes, Dirs
  <2>5. QED
    BY <1>0, <1>1, <2>3, <2>4, TypedPartsNext DEF TurnLeft
<1>6. QED
  BY <1>1, <1>2, <1>3, <1>4, <1>5

\* Ending and handing over processes keeps their types.
LEMMA HandsOverTyped ==
    ASSUME Typed,
           \/ UNCHANGED procs
           \/ Reap
           \/ procs' = [procs EXCEPT !["orphan"] = Idle]
           \/ procs' = [s \in Slot |-> Idle]
           \/ driver = "once" /\ procs' = [child |-> Idle, orphan |-> Child]
    PROVE  procs' \in [Slot -> Proc] /\ TurnLeft' /\ HandsOver
<1>0. procs \in [Slot -> Proc] /\ TurnLeft /\ Slot = {"child", "orphan"}
  BY TypedParts DEF Slot
<1>1. Idle \in Proc /\ Idle.phase = "none"
  BY EmptyTyped DEF Proc
<1>2. CASE UNCHANGED procs
  BY <1>0, <1>2 DEF TurnLeft, HandsOver
<1>3. CASE Reap
  BY <1>0, <1>1, <1>3 DEF TurnLeft, HandsOver, Reap
<1>4. CASE procs' = [procs EXCEPT !["orphan"] = Idle]
  BY <1>0, <1>1, <1>4 DEF TurnLeft, HandsOver
<1>5. CASE procs' = [s \in Slot |-> Idle]
  BY <1>0, <1>1, <1>5 DEF TurnLeft, HandsOver
<1>6. CASE driver = "once" /\ procs' = [child |-> Idle, orphan |-> Child]
  <2>1. /\ procs' = [s \in Slot |-> IF s = "child" THEN Idle ELSE procs["child"]]
    BY <1>0, <1>6 DEF Child
  <2>2. QED
    BY <1>0, <1>1, <1>6, <2>1 DEF TurnLeft, HandsOver
<1>7. QED
  BY <1>2, <1>3, <1>4, <1>5, <1>6

\* So does every other step.
LEMMA QuietTyped ==
    ASSUME Typed, [Next]_vars, \A s \in Slot : ~SessionActs(s), ~OssRuns, ~OnceRuns,
           ~OnceRemoves
    PROVE  Typed' /\ Quiet
<1> DEFINE Moves == at' \in 1..Len(Plan) /\ pc' \in Ended \cup {"check", "clear", "replay"}
           Still == UNCHANGED <<driver, skip, run, attempt, shared, partial, dirVars, scoreVars>>
<1>0. Rest /\ Dirs
  BY TypedParts
<1>1. Advance => Moves
  BY <1>0, CampaignAssumption DEF Advance, Rest, Ended
<1>2. Still /\ Moves => Rest' /\ Dirs' /\ UNCHANGED <<driver, shared, partial, dirVars, metrics>>
  BY <1>0 DEF Rest, Dirs, dirVars, scoreVars, Ended
<1>3. ASSUME Still, Moves,
             procs' \in [Slot -> Proc] /\ TurnLeft' /\ HandsOver
      PROVE  Typed' /\ Quiet
  BY <1>2, <1>3, TypedPartsNext DEF Quiet
<1>4. CASE OssSkips \/ OnceReuses \/ OnceReplays
  BY <1>0, <1>1, <1>3, <1>4, HandsOverTyped DEF OssSkips, OnceReuses, OnceReplays, Rest
<1>5. CASE OssReaps
  BY <1>0, <1>1, <1>3, <1>5, HandsOverTyped DEF OssReaps, Rest, Ended
<1>6. CASE OnceRaises
  BY <1>0, <1>3, <1>6, HandsOverTyped DEF OnceRaises, Rest, Ended
<1>7. CASE OnceReaps
  BY <1>0, <1>1, <1>3, <1>7, HandsOverTyped DEF OnceReaps, Rest, Ended
<1>8. CASE OnceTimesOut
  BY <1>1, <1>3, <1>8, HandsOverTyped DEF OnceTimesOut
<1>9. CASE Kill
  BY <1>0, <1>3, <1>9, HandsOverTyped DEF Kill, Rest, Ended
<1>10. CASE OrphanExits
  <2>1. Rest' /\ Dirs'
    BY <1>0, <1>10 DEF OrphanExits, Rest, Dirs, driverVars, dirVars, scoreVars
  <2>2. QED
    BY <1>10, <2>1, HandsOverTyped, TypedPartsNext DEF OrphanExits, Quiet, driverVars, scoreVars
<1>11. CASE UNCHANGED vars
  <2>1. Rest' /\ Dirs'
    BY <1>0, <1>11 DEF vars, Rest, Dirs, driverVars, dirVars, scoreVars
  <2>2. QED
    BY <1>11, <2>1, HandsOverTyped, TypedPartsNext DEF vars, Quiet, driverVars, scoreVars
<1>12. CASE Restart
  <2>1. Rest' /\ Dirs'
    BY <1>0, <1>12, CampaignAssumption DEF Restart, Rest, Dirs, dirVars
  <2>2. QED
    BY <1>12, <2>1, HandsOverTyped, TypedPartsNext DEF Restart, Quiet
<1>13. ASSUME NEW c \in Cell, ScoreMetrics(c) PROVE Typed' /\ Quiet
  <2>1. Rest' /\ Dirs' /\ \A d \in Cell : metrics'[d] \in {metrics[d], turns[d]}
    BY <1>0, <1>13 DEF ScoreMetrics, Rest, Dirs, dirVars, driverVars
  <2>2. QED
    BY <1>13, <2>1, HandsOverTyped, TypedPartsNext DEF ScoreMetrics, Quiet, driverVars
<1>14. ASSUME NEW c \in Cell, ScoreDetection(c) PROVE Typed' /\ Quiet
  <2>1. Rest' /\ Dirs'
    BY <1>0, <1>14 DEF ScoreDetection, Rest, Dirs, dirVars, driverVars
  <2>2. QED
    BY <1>14, <2>1, HandsOverTyped, TypedPartsNext DEF ScoreDetection, Quiet, driverVars
<1>15. CASE OnceClears \/ OnceClearFails
  BY <1>0, <1>3, <1>15, HandsOverTyped DEF OnceClears, OnceClearFails, Rest, Ended
<1>16. QED
  BY <1>4, <1>5, <1>6, <1>7, <1>8, <1>9, <1>10, <1>11, <1>12, <1>13, <1>14, <1>15
     DEF Next, Driver, SessionActs

\* The four kinds are all there are.
LEMMA StepKinds ==
    ASSUME Typed, [Next]_vars
    PROVE  Typed' /\ ((\E s \in Slot : Works(s)) \/ Begins \/ Removes \/ Quiet)
  BY SessionWorks, BeginTyped, RemovesTyped, QuietTyped
-----------------------------------------------------------------------------
(***************************************************************************)
(* The invariant.                                                          *)
(***************************************************************************)
LEMMA InvInit == Init => Inv
<1> SUFFICES ASSUME Init PROVE Inv
  OBVIOUS
<1>1. /\ Typed
      /\ \A s \in Slot : procs[s].phase = "none"
      /\ \A c \in Cell : summary[c].kind = "none" /\ ~shared[c] /\ ~partial[c]
  BY TypedInit, EmptyTyped DEF Init
<1>2. QED
  BY <1>1 DEF Inv, Apart, Occupied, Slot, Unfinished, Busy, Written, SummaryDescribesTurns,
              Clean, OssAlone

\* A working session keeps the invariant: while its directory is its own, it
\* is the only one to touch it, and its summary is not yet there.
LEMMA WorksInv ==
    ASSUME Inv, Typed', NEW s \in Slot, Works(s)
    PROVE  Inv'
<1> DEFINE p == procs[s]  p1 == procs'[s]  d == procs[s].cell
<1>0. /\ Slot = {"child", "orphan"}
      /\ \A t \in Slot : procs[t].cell \in Cell /\ procs[t].turn \in Nat
      /\ Inv /\ Typed
  BY CampaignAssumption, TypedParts DEF Inv, Proc, Slot
<1>1. /\ p.phase \in Busy /\ p.phase # "none" /\ p1.phase # "none"
      /\ p1.cell = d /\ p1.by = p.by /\ d \in Cell
      /\ \A t \in Slot \ {s} : procs'[t] = procs[t]
      /\ shared' = shared /\ partial' = partial /\ metrics' = metrics /\ driver' = driver
      /\ Opens(s) \/ Summarises(s) \/ OnlyProceeds(s)
  BY <1>0 DEF Works, Busy, driverVars, scoreVars
\* Another process in the same directory is known.
<1>2. ASSUME ~shared[d], NEW t \in Slot \ {s}, procs[t].phase # "none"
      PROVE  procs[t].cell # d
  BY <1>0, <1>1, <1>2 DEF Inv, Apart, Occupied
\* The turns and summaries of other directories stay.
<1>3. \A c \in Cell \ {d} : turns'[c] = turns[c] /\ summary'[c] = summary[c]
  BY <1>0, <1>1 DEF Opens, Summarises, OnlyProceeds, dirVars, Typed, TypeOK
<1>4. Apart'
  BY <1>0, <1>1 DEF Inv, Apart, Occupied
<1>5. ~shared[d] => summary[d].kind # "done"
  BY <1>0, <1>1 DEF Inv, Unfinished
<1>6. OssAlone'
  BY <1>0, <1>1 DEF Inv, OssAlone
\* While the directory is its own, the session leaves the summary unfinished
\* until it exits.
<1>7. ASSUME ~shared[d] PROVE
        \/ summary'[d].kind # "done"
        \/ p1.phase = "exited" /\ summary'[d].by = p.by /\ summary'[d].n = p1.turn
  BY <1>1, <1>5, <1>7 DEF Opens, Summarises, OnlyProceeds, dirVars
<1>8. Unfinished'
  <2> SUFFICES ASSUME NEW t \in Slot, procs'[t].phase \in Busy, ~shared'[procs'[t].cell]
               PROVE  summary'[procs'[t].cell].kind # "done"
    BY DEF Unfinished
  <2>1. CASE t = s
    BY <1>1, <1>7, <2>1 DEF Busy
  <2>2. CASE t # s
    <3>1. procs[t].phase # "none" /\ procs'[t] = procs[t] /\ ~shared[procs[t].cell]
      BY <1>1, <2>2 DEF Busy
    <3>2. procs[t].cell # d
      BY <1>2, <2>2, <3>1
    <3>3. QED
      BY <1>0, <1>3, <3>1, <3>2 DEF Inv, Unfinished
  <2>3. QED
    BY <2>1, <2>2
\* Its turns: the old ones, and one more if it opens one.
<1>9. ASSUME ~shared[d], ~partial[d] PROVE \A k \in 1..p1.turn : turns'[d][k] = p.by
  <2>1. \A k \in 1..p.turn : turns[d][k] = p.by
    BY <1>0, <1>1, <1>9 DEF Inv, Written
  <2>2. CASE Opens(s)
    <3>1. turns'[d] = [turns[d] EXCEPT ![p.turn + 1] = p.by] /\ p1.turn = p.turn + 1
      BY <1>0, <1>1, <2>2 DEF Opens, Typed, TypeOK
    <3>2. turns[d] \in [Turn -> Nat] /\ p.turn + 1 \in Turn
      BY <1>0, <1>1, <2>2 DEF Opens, Typed, TypeOK
    <3>3. \A k \in 1..(p.turn + 1) : k \in 1..p.turn \/ k = p.turn + 1
      BY <1>0
    <3>4. \A k \in 1..(p.turn + 1) : k \in Turn
      BY <1>0, <3>2, CampaignAssumption DEF Turn
    <3>5. QED
      BY <2>1, <3>1, <3>2, <3>3, <3>4
  <2>3. CASE Summarises(s) \/ OnlyProceeds(s)
    BY <1>1, <2>1, <2>3 DEF Summarises, OnlyProceeds, dirVars
  <2>4. QED
    BY <1>1, <2>2, <2>3
<1>10. Written'
  <2> SUFFICES ASSUME NEW t \in Slot, procs'[t].phase # "none", ~shared'[procs'[t].cell],
                      ~partial'[procs'[t].cell]
               PROVE  \A k \in 1..procs'[t].turn : turns'[procs'[t].cell][k] = procs'[t].by
    BY DEF Written
  <2>1. CASE t = s
    BY <1>1, <1>9, <2>1
  <2>2. CASE t # s
    <3>1. /\ procs[t].phase # "none" /\ procs'[t] = procs[t]
          /\ ~shared[procs[t].cell] /\ ~partial[procs[t].cell]
      BY <1>1, <2>2
    <3>2. procs[t].cell # d
      BY <1>2, <2>2, <3>1
    <3>3. QED
      BY <1>0, <1>3, <3>1, <3>2 DEF Inv, Written
  <2>3. QED
    BY <2>1, <2>2
<1>11. SummaryDescribesTurns'
  <2> SUFFICES ASSUME NEW c \in Cell, summary'[c].kind = "done", ~shared'[c], ~partial'[c]
               PROVE  \A k \in 1..summary'[c].n : turns'[c][k] = summary'[c].by
    BY DEF SummaryDescribesTurns
  <2>1. CASE c = d
    BY <1>1, <1>7, <1>9, <2>1
  <2>2. CASE c # d
    BY <1>0, <1>1, <1>3, <2>2 DEF Inv, SummaryDescribesTurns
  <2>3. QED
    BY <2>1, <2>2
<1>12. Clean'
  <2> SUFFICES ASSUME driver' = "once" PROVE Clean'
    BY DEF Clean
  <2>1. ASSUME ~shared[d]
        PROVE  \A k \in Turn : {turns'[d][k], metrics'[d][k]} \subseteq {0, p.by}
    <3>1. \A k \in Turn : {turns[d][k], metrics[d][k]} \subseteq {0, p.by}
      BY <1>0, <1>1, <2>1 DEF Inv, Clean
    <3>2. CASE Opens(s)
      <4>1. turns'[d] = [turns[d] EXCEPT ![p.turn + 1] = p.by] /\ turns[d] \in [Turn -> Nat]
        BY <1>0, <1>1, <3>2 DEF Opens, Typed, TypeOK
      <4>2. QED
        BY <1>1, <3>1, <4>1
    <3>3. CASE Summarises(s) \/ OnlyProceeds(s)
      BY <1>1, <3>1, <3>3 DEF Summarises, OnlyProceeds, dirVars
    <3>4. QED
      BY <1>1, <3>2, <3>3
  <2>2. ASSUME NEW t \in Slot, procs'[t].phase # "none", ~shared'[procs'[t].cell]
        PROVE  \A k \in Turn : {turns'[procs'[t].cell][k], metrics'[procs'[t].cell][k]}
                                  \subseteq {0, procs'[t].by}
    <3>1. CASE t = s
      BY <1>1, <2>1, <2>2, <3>1
    <3>2. CASE t # s
      <4>1. procs[t].phase # "none" /\ procs'[t] = procs[t] /\ ~shared[procs[t].cell]
        BY <1>1, <2>2, <3>2
      <4>2. procs[t].cell # d
        BY <1>2, <3>2, <4>1
      <4>3. QED
        BY <1>0, <1>1, <1>3, <4>1, <4>2 DEF Inv, Clean
    <3>3. QED
      BY <3>1, <3>2
  <2>3. ASSUME NEW c \in Cell, summary'[c].kind = "done", ~shared'[c]
        PROVE  OneAttempt(c)'
    <3>1. CASE c = d
      <4>1. ~shared[d] /\ summary'[d].by = p.by
        BY <1>1, <1>7, <2>3, <3>1
      <4>2. QED
        BY <2>1, <3>1, <4>1 DEF OneAttempt
    <3>2. CASE c # d
      BY <1>0, <1>1, <1>3, <2>3, <3>2 DEF Inv, Clean, OneAttempt
    <3>3. QED
      BY <3>1, <3>2
  <2>4. QED
    BY <2>2, <2>3 DEF Clean
<1>13. QED
  BY <1>4, <1>6, <1>8, <1>10, <1>11, <1>12 DEF Inv

\* So does the beginning of a session, whose directory has no summary.
LEMMA BeginsInv ==
    ASSUME Inv, Typed', Begins
    PROVE  Inv'
<1>0. /\ Slot = {"child", "orphan"} /\ Here \in Cell /\ Typed /\ Inv
      /\ \A t \in Slot : procs[t].cell \in Cell
  BY HereIsCell DEF Inv, Typed, TypeOK, Slot
<1>1. /\ procs'["child"] = [phase |-> "turn", cell |-> Here, by |-> attempt + 1, turn |-> 0, kind |-> "done"]
      /\ procs'["orphan"] = procs["orphan"]
      /\ shared'[Here] = Occupied("orphan", Here)
      /\ \A c \in Cell \ {Here} : shared'[c] = shared[c] /\ partial'[c] = partial[c]
      /\ ~partial'[Here]
      /\ driver' = driver
  BY <1>0 DEF Begins, Begin, Typed, TypeOK
<1>2. /\ summary'[Here] = NoSummary
      /\ \A c \in Cell \ {Here} : /\ summary'[c] = summary[c] /\ turns'[c] = turns[c]
                                  /\ metrics'[c] = metrics[c]
  BY <1>0 DEF Begins, Typed, TypeOK
<1>3. summary'[Here].kind = "none"
  BY <1>2, EmptyTyped
\* The orphan in another directory than this one is undisturbed.
<1>4. ASSUME procs["orphan"].phase # "none", ~shared'[procs["orphan"].cell]
      PROVE  procs["orphan"].cell # Here
  BY <1>1, <1>4 DEF Occupied
<1>5. Apart'
  <2>1. procs["orphan"].phase # "none" /\ procs["orphan"].cell = Here => shared'[Here]
    BY <1>1 DEF Occupied
  <2>2. QED
    BY <1>1, <2>1 DEF Apart, Occupied
<1>6. Unfinished'
  BY <1>0, <1>1, <1>2, <1>3, <1>4 DEF Inv, Unfinished, Busy
<1>7. Written'
  BY <1>0, <1>1, <1>2, <1>4 DEF Inv, Written
<1>8. SummaryDescribesTurns'
  BY <1>0, <1>1, <1>2, <1>3 DEF Inv, SummaryDescribesTurns
<1>9. Clean'
  <2> SUFFICES ASSUME driver = "once" PROVE Clean'
    BY <1>1 DEF Clean
  <2>1. turns'[Here] = NoTurns /\ metrics'[Here] = NoTurns
    BY DEF Begins
  <2>2. \A k \in Turn : {turns'[Here][k], metrics'[Here][k]} \subseteq {0}
    BY <2>1, EmptyTyped
  <2>3. ASSUME NEW t \in Slot, procs'[t].phase # "none", ~shared'[procs'[t].cell]
        PROVE  \A k \in Turn : {turns'[procs'[t].cell][k], metrics'[procs'[t].cell][k]}
                                  \subseteq {0, procs'[t].by}
    <3>1. CASE t = "child"
      BY <1>1, <2>2, <3>1
    <3>2. CASE t = "orphan"
      BY <1>0, <1>1, <1>2, <1>4, <2>3, <3>2 DEF Inv, Clean
    <3>3. QED
      BY <1>0, <3>1, <3>2
  <2>4. ASSUME NEW c \in Cell, summary'[c].kind = "done", ~shared'[c]
        PROVE  OneAttempt(c)'
    BY <1>0, <1>1, <1>2, <1>3, <2>4 DEF Inv, Clean, OneAttempt
  <2>5. QED
    BY <2>3, <2>4 DEF Clean
<1>10. OssAlone'
  BY <1>0, <1>1 DEF Inv, OssAlone, Occupied
<1>11. QED
  BY <1>5, <1>6, <1>7, <1>8, <1>9, <1>10 DEF Inv

\* So does a removal: what it takes away was not promised, and what it leaves
\* is as it was.
LEMMA RemovesInv ==
    ASSUME Inv, Typed', Removes
    PROVE  Inv'
<1>0. /\ Typed /\ Inv /\ Here \in Cell /\ \A t \in Slot : procs[t].cell \in Cell
      /\ partial \in [Cell -> BOOLEAN]
  BY HereIsCell DEF Inv, Typed, TypeOK
<1>1. /\ driver = "once" /\ driver' = driver /\ shared' = shared /\ procs' = procs
      /\ partial'[Here] /\ \A c \in Cell \ {Here} : partial'[c] = partial[c]
      /\ \A c \in Cell \ {Here} :
           turns'[c] = turns[c] /\ summary'[c] = summary[c] /\ metrics'[c] = metrics[c]
      /\ summary'[Here] = summary[Here] \/ summary'[Here].kind = "none"
  BY <1>0, EmptyTyped DEF Removes
<1>2. ASSUME NEW c \in Cell, NEW k \in Turn
      PROVE  {turns'[c][k], metrics'[c][k]} \subseteq {0, turns[c][k], metrics[c][k]}
  BY <1>1, <1>2 DEF Removes
<1>3. ASSUME NEW c \in Cell, summary'[c].kind = "done"
      PROVE  summary'[c] = summary[c]
  BY <1>1, <1>3
<1>4. Apart'
  BY <1>1 DEF Inv, Apart, Occupied
<1>5. Unfinished'
  BY <1>0, <1>1, <1>3 DEF Inv, Unfinished
<1>6. Written'
  BY <1>0, <1>1 DEF Inv, Written
<1>7. SummaryDescribesTurns'
  BY <1>0, <1>1 DEF Inv, SummaryDescribesTurns
<1>8. Clean'
  <2>1. ASSUME NEW s \in Slot, procs'[s].phase # "none", ~shared'[procs'[s].cell]
        PROVE  \A k \in Turn : {turns'[procs'[s].cell][k], metrics'[procs'[s].cell][k]}
                                  \subseteq {0, procs'[s].by}
    <3>1. \A k \in Turn : {turns[procs[s].cell][k], metrics[procs[s].cell][k]}
                               \subseteq {0, procs[s].by}
      BY <1>0, <1>1, <2>1 DEF Inv, Clean
    <3>2. QED
      BY <1>0, <1>1, <1>2, <3>1
  <2>2. ASSUME NEW c \in Cell, summary'[c].kind = "done", ~shared'[c]
        PROVE  OneAttempt(c)'
    <3>1. \A k \in Turn : {turns[c][k], metrics[c][k]} \subseteq {0, summary[c].by}
      BY <1>0, <1>1, <1>3, <2>2 DEF Inv, Clean, OneAttempt
    <3>2. QED
      BY <1>2, <1>3, <2>2, <3>1 DEF OneAttempt
  <2>3. QED
    BY <2>1, <2>2 DEF Clean
<1>9. OssAlone'
  BY <1>1 DEF OssAlone
<1>10. QED
  BY <1>4, <1>5, <1>6, <1>7, <1>8, <1>9 DEF Inv

\* And every other step: a process that is left is one that was there.
LEMMA QuietInv ==
    ASSUME Inv, Typed', Quiet
    PROVE  Inv'
<1>0. /\ Slot = {"child", "orphan"} /\ Typed /\ Inv
      /\ \A t \in Slot : procs[t].cell \in Cell
  BY DEF Inv, Typed, TypeOK, Slot
<1>1. /\ driver' = driver /\ shared' = shared /\ partial' = partial
      /\ turns' = turns /\ summary' = summary
      /\ \A c \in Cell : metrics'[c] \in {metrics[c], turns[c]}
  BY DEF Quiet, dirVars
<1>2. \A s \in Slot : procs'[s].phase # "none" => \E t \in Slot : procs'[s] = procs[t]
  BY <1>0 DEF Quiet, HandsOver
<1>3. Apart'
  BY <1>0, <1>1 DEF Inv, Apart, Occupied, Quiet, HandsOver
<1>4. Unfinished'
  BY <1>1, <1>2 DEF Inv, Unfinished, Busy
<1>5. Written'
  BY <1>1, <1>2 DEF Inv, Written
<1>6. SummaryDescribesTurns'
  BY <1>0, <1>1 DEF Inv, SummaryDescribesTurns
<1>7. Clean'
  <2> SUFFICES ASSUME driver = "once" PROVE Clean'
    BY <1>1 DEF Clean
  <2>1. ASSUME NEW c \in Cell, NEW k \in Turn
        PROVE  {turns'[c][k], metrics'[c][k]} \subseteq {turns[c][k], metrics[c][k]}
    BY <1>1, <2>1
  <2>2. ASSUME NEW s \in Slot, procs'[s].phase # "none", ~shared'[procs'[s].cell]
        PROVE  \A k \in Turn : {turns'[procs'[s].cell][k], metrics'[procs'[s].cell][k]}
                                  \subseteq {0, procs'[s].by}
    <3>1. PICK t \in Slot : procs'[s] = procs[t]
      BY <1>2, <2>2
    <3>2. \A k \in Turn : {turns[procs[t].cell][k], metrics[procs[t].cell][k]}
                               \subseteq {0, procs[t].by}
      BY <1>0, <1>1, <2>2, <3>1 DEF Inv, Clean
    <3>3. QED
      BY <1>0, <2>1, <3>1, <3>2
  <2>3. ASSUME NEW c \in Cell, summary'[c].kind = "done", ~shared'[c]
        PROVE  OneAttempt(c)'
    BY <1>0, <1>1, <2>1, <2>3 DEF Inv, Clean, OneAttempt
  <2>4. QED
    BY <2>2, <2>3 DEF Clean
<1>8. OssAlone'
  BY <1>0, <1>1 DEF Inv, OssAlone, Quiet, HandsOver
<1>9. QED
  BY <1>3, <1>4, <1>5, <1>6, <1>7, <1>8 DEF Inv

THEOREM Invariance == Spec => []Inv
<1>1. Inv /\ [Next]_vars => Inv'
  BY StepKinds, WorksInv, BeginsInv, RemovesInv, QuietInv DEF Inv
<1>2. QED
  BY InvInit, <1>1, PTL DEF Spec
-----------------------------------------------------------------------------
(***************************************************************************)
(* The properties.                                                         *)
(***************************************************************************)
\* The variables keep their types, for any cells, scripts and bounds.
THEOREM TypeCorrect == Spec => []TypeOK
<1>1. Inv => TypeOK
  BY DEF Inv, Typed
<1>2. QED
  BY <1>1, Invariance, PTL

\* However a campaign is killed, timed out and started again: the turns that a
\* finished session's summary lists are on disk as that session wrote them,
\* unless two sessions were in its directory or a removal of it was cut short.
THEOREM SummariesHold == Spec => []SummaryDescribesTurns
<1>1. Inv => SummaryDescribesTurns
  BY DEF Inv
<1>2. QED
  BY <1>1, Invariance, PTL

\* A finished directory of llm_once_replay_twice holds nothing of an earlier
\* attempt, neither turns nor scores, wherever a removal of it was cut short.
THEOREM CellsAreClean == Spec => []OnceCellsAreClean
<1>1. Inv => OnceCellsAreClean
  BY DEF Inv, Clean, OnceCellsAreClean
<1>2. QED
  BY <1>1, Invariance, PTL

\* The two score files of a cell are about the same turns, or the second is
\* missing, wherever rescore_run and the campaign were killed, except while
\* or after the cell's removal.
THEOREM ScoresPair == Spec => []ScoresAgree
<1>1. Init => ScoresAgree
  BY DEF Init, ScoresAgree
<1>2. ASSUME ScoresAgree, Inv, [Next]_vars PROVE ScoresAgree'
  <2>0. /\ metrics \in [Cell -> [Turn -> Nat]] /\ detection \in [Cell -> [Turn -> Nat]]
        /\ partial \in [Cell -> BOOLEAN] /\ Here \in Cell
    BY <1>2, HereIsCell DEF Inv, Typed, TypeOK
  <2>1. CASE UNCHANGED <<partial, metrics, detection>>
    BY <1>2, <2>1 DEF ScoresAgree
  <2>2. CASE OssRuns
    <3>1. \A c \in Cell : ~partial[c]
      BY <1>2, <2>2 DEF Inv, OssAlone, OssRuns
    <3>2. UNCHANGED <<metrics, detection>>
      BY <2>2 DEF OssRuns, scoreVars
    <3>3. QED
      BY <1>2, <3>1, <3>2 DEF ScoresAgree
  <2>3. CASE OnceRuns
    <3>1. /\ partial' = [partial EXCEPT ![Here] = FALSE] /\ UNCHANGED <<metrics, detection>>
          /\ detection[Here] = NoTurns
      BY <2>3 DEF OnceRuns, Begin, scoreVars
    <3>2. QED
      BY <1>2, <2>0, <3>1 DEF ScoresAgree
  <2>4. CASE OnceRemoves
    <3>1. /\ partial' = [partial EXCEPT ![Here] = TRUE]
          /\ \A c \in Cell \ {Here} : metrics'[c] = metrics[c] /\ detection'[c] = detection[c]
      BY <2>0, <2>4
         DEF OnceRemoves, RemoveSummary, RemoveMetrics, RemoveDetection, RemoveTurn
    <3>2. QED
      BY <1>2, <2>0, <3>1 DEF ScoresAgree
  <2>5. ASSUME NEW c \in Cell, ScoreMetrics(c) PROVE ScoresAgree'
    BY <1>2, <2>0, <2>5 DEF ScoreMetrics, ScoresAgree, driverVars
  <2>6. ASSUME NEW c \in Cell, ScoreDetection(c) PROVE ScoresAgree'
    BY <1>2, <2>0, <2>6 DEF ScoreDetection, ScoresAgree, driverVars
  <2>7. ASSUME NEW s \in Slot, SessionActs(s) PROVE UNCHANGED <<partial, metrics, detection>>
    BY <1>2, <2>7, SessionWorks DEF Inv, Works, scoreVars, driverVars
  <2>8. QED
    BY <1>2, <2>1, <2>2, <2>3, <2>4, <2>5, <2>6, <2>7
       DEF Next, Driver, SessionActs, OrphanExits, OssSkips, OssReaps, OnceReuses, OnceClears,
           OnceClearFails, OnceRaises, OnceReaps, OnceReplays, OnceTimesOut, Kill, Restart,
           vars, driverVars, scoreVars
<1>4. QED
  BY <1>1, <1>2, Invariance, PTL DEF Spec

\* However often the OSS campaign is killed and started again, a finished cell
\* stays as it is: no later attempt writes a turn or a summary of it.
THEOREM FinishedStays == Spec => DoneStaysDone
<1> DEFINE Stays == driver = "oss" => \A c \in Cell : summary[c].kind = "done" =>
                      summary'[c] = summary[c] /\ turns'[c] = turns[c]
<1>1. ASSUME Inv, [Next]_vars PROVE Stays
  <2> SUFFICES ASSUME driver = "oss", NEW c \in Cell, summary[c].kind = "done"
               PROVE  summary'[c] = summary[c] /\ turns'[c] = turns[c]
    OBVIOUS
  <2>0. Typed /\ ~shared[c] /\ \A t \in Slot : procs[t].cell \in Cell
    BY <1>1 DEF Inv, Typed, TypeOK, OssAlone
  <2>1. ASSUME NEW s \in Slot, Works(s) PROVE summary'[c] = summary[c] /\ turns'[c] = turns[c]
    <3>1. procs[s].phase \in Busy
      BY <2>1 DEF Works
    <3>2. procs[s].cell # c
      BY <1>1, <2>0, <3>1 DEF Inv, Unfinished
    <3>3. QED
      BY <2>0, <2>1, <3>2 DEF Works, Opens, Summarises, OnlyProceeds, dirVars, Typed, TypeOK
  <2>2. CASE Begins
    BY <2>0, <2>2, HereIsCell DEF Begins, Typed, TypeOK
  <2>3. CASE Quiet
    BY <2>3 DEF Quiet, dirVars
  <2>4. CASE Removes
    BY <2>4 DEF Removes
  <2>5. QED
    BY <1>1, <2>0, <2>1, <2>2, <2>3, <2>4, StepKinds
<1>2. Inv /\ [Next]_vars => [Stays]_vars
  BY <1>1
<1>3. QED
  BY <1>2, Invariance, PTL DEF Spec, DoneStaysDone
=============================================================================
