------------------------ MODULE RecordingCycleProofs ------------------------
(***************************************************************************)
(* What a recording's cycle guarantees for every library of settings and   *)
(* every bound: types first, then the invariant about the worker and its   *)
(* artifacts, and last what no step may do to edits, marks and maps.       *)
(***************************************************************************)
EXTENDS RecordingCycle, TLAPS

\* The stages and their order.

LEMMA OrderIsOneToOne ==
  /\ DOMAIN Order = 1..9
  /\ \A m, n \in 1..9 : Order[m] = Order[n] => m = n
BY DEF Order

LEMMA NextSteps ==
  /\ NextStep("transcribe") = "align" /\ NextStep("align") = "diarize"
  /\ NextStep("diarize") = "vocabulary" /\ NextStep("vocabulary") = "correct"
  /\ NextStep("correct") = "summarize" /\ NextStep("summarize") = "mind_map"
  /\ NextStep("mind_map") = "outline" /\ NextStep("outline") = "index"
<1>1. ASSUME NEW n \in 1..8 PROVE NextStep(Order[n]) = Order[n + 1]
  <2>1. n \in DOMAIN Order BY OrderIsOneToOne
  <2>2. \A i \in DOMAIN Order : Order[i] = Order[n] => i = n BY OrderIsOneToOne
  <2>3. (CHOOSE i \in DOMAIN Order : Order[i] = Order[n]) = n BY <2>1, <2>2
  <2> QED BY <2>3 DEF NextStep
<1>2. /\ Order[1] = "transcribe" /\ Order[2] = "align" /\ Order[3] = "diarize"
      /\ Order[4] = "vocabulary" /\ Order[5] = "correct" /\ Order[6] = "summarize"
      /\ Order[7] = "mind_map" /\ Order[8] = "outline" /\ Order[9] = "index"
  BY DEF Order
<1>3. NextStep(Order[1]) = Order[2] BY <1>1
<1>4. NextStep(Order[2]) = Order[3] BY <1>1
<1>5. NextStep(Order[3]) = Order[4] BY <1>1
<1>6. NextStep(Order[4]) = Order[5] BY <1>1
<1>7. NextStep(Order[5]) = Order[6] BY <1>1
<1>8. NextStep(Order[6]) = Order[7] BY <1>1
<1>9. NextStep(Order[7]) = Order[8] BY <1>1
<1>10. NextStep(Order[8]) = Order[9] BY <1>1
<1> QED BY <1>2, <1>3, <1>4, <1>5, <1>6, <1>7, <1>8, <1>9, <1>10

LEMMA StepsAre == Steps = {"transcribe", "align", "diarize", "vocabulary", "correct",
                           "summarize", "mind_map", "outline", "index"}
BY OrderIsOneToOne DEF Steps, Order

LEMMA StagesAre == Stages = {"transcribe", "align", "diarize", "correct",
                             "summarize", "mind_map", "outline", "index"}
BY DEF Stages, Speech, Derived

LEMMA SameSets ==
  ASSUME setting' = setting
  PROVE  /\ Raws' = Raws /\ Texts' = Texts /\ NoteChoices' = NoteChoices
         /\ Workers' = Workers /\ Counters' = Counters /\ Lineages' = Lineages
         /\ Contents' = Contents /\ MaxNotes' = MaxNotes
BY DEF Raws, Texts, NoteChoices, Workers, Counters, Lineages, Contents, MaxNotes,
       MaxVersions, Candidates, RequestBound, FaultBound, CrashBound

LEMMA Bounds ==
  ASSUME setting \in Settings
  PROVE  /\ Candidates \in Nat \ {0} /\ MaxVersions \in Nat /\ MaxNotes \in Nat
         /\ RequestBound \in Nat /\ FaultBound \in Nat /\ CrashBound \in Nat
         /\ Enabled \subseteq Stages /\ "transcribe" \in Enabled /\ Requests \subseteq RequestKinds
         /\ Contents \subseteq {"speech", "noise", "silence"} /\ Contents # {}
         /\ AsrSpeakers \in BOOLEAN /\ EvictsAudio \in BOOLEAN /\ ThreadsStart \in BOOLEAN
BY SettingsAssumption DEF Configuration, Candidates, MaxVersions, MaxNotes, RequestBound, FaultBound,
   CrashBound, Enabled, Contents, AsrSpeakers, EvictsAudio, ThreadsStart, Requests

-----------------------------------------------------------------------------
(***************************************************************************)
(* Types.                                                                  *)
(***************************************************************************)

\* A stage that is about to begin has a provider left to try.
TriesLeft == work.at \in {"requested", "start", "stage"} => work.try < Candidates

TypeInv == TypeOK /\ TriesLeft

\* The records that steps write have their types.
LEMMA NoLineageTyped == ASSUME setting \in Settings PROVE NoLineage \in Lineages
BY Bounds DEF NoLineage, Lineages

LEMMA LineageTyped == ASSUME TypeOK PROVE Lineage \in Lineages
BY Bounds DEF TypeOK, Raws, Texts, Lineage, Lineages

LEMMA NoWorkTyped ==
  ASSUME setting \in Settings
  PROVE  NoWork \in Workers /\ NoWork.at = "idle" /\ NoWork.try = 0
BY Bounds, NoLineageTyped, StepsAre DEF NoWork, Workers, Places, Cycles, FileStatus

LEMMA WorkingTyped ==
  ASSUME setting \in Settings, NEW c \in Cycles, NEW f \in BOOLEAN, NEW a \in Places
  PROVE  /\ Working(c, f, a) \in Workers /\ Working(c, f, a).at = a /\ Working(c, f, a).cycle = c
         /\ Working(c, f, a).force = f /\ Working(c, f, a).try = 0 /\ Working(c, f, a).errors = {}
<1> HIDE DEF Workers
<1>1. NoWork \in Workers BY NoWorkTyped
<1>2. NoWork.try = 0 /\ NoWork.errors = {} BY DEF NoWork
<1>3. [NoWork EXCEPT !.at = a, !.cycle = c, !.force = f] \in Workers BY <1>1 DEF Workers
<1> QED BY <1>1, <1>2, <1>3 DEF Working, Workers

LEMMA WorkMoves ==
  ASSUME NEW w \in Workers, NEW a \in Places
  PROVE  [w EXCEPT !.at = a] \in Workers
BY DEF Workers

LEMMA LeavingTyped ==
  ASSUME TypeOK, NEW s \in Steps, NEW errors \in SUBSET Steps
  PROVE  /\ Leaving(s, errors) \in Workers /\ Leaving(s, errors).try = 0
         /\ Leaving(s, errors).at \in {"closing", "stage"}
<1>1. Lineage \in Lineages BY LineageTyped
<1>2. s # "index" => NextStep(s) \in Steps BY NextSteps, StepsAre
<1>3. work \in Workers /\ setting \in Settings BY DEF TypeOK
<1>4. 0 \in 0..Candidates BY <1>3, Bounds
<1> DEFINE at == IF Narrow \/ s = "index" \/ (s = "correct" /\ errors # {}) THEN "closing" ELSE "stage"
           stage == IF Narrow \/ s = "index" THEN s ELSE NextStep(s)
           lineage == IF s = "correct" THEN Lineage ELSE work.lineage
           all == work.errors \cup errors
<1>5. at \in {"closing", "stage"} /\ at \in Places BY DEF Places
<1>6. stage \in Steps BY <1>2
<1>7. lineage \in Lineages BY <1>1, <1>3 DEF Workers
<1>8. Leaving(s, errors) =
        [work EXCEPT !.at = at, !.stage = stage, !.lineage = lineage, !.try = 0, !.moved = FALSE,
                     !.errors = all]
  BY DEF Leaving
<1>9. all \in SUBSET Steps BY <1>3 DEF Workers
<1> HIDE DEF at, stage, lineage, all
<1> QED BY <1>3, <1>4, <1>5, <1>6, <1>7, <1>8, <1>9 DEF Workers

\* The ways a step writes the rows of the stages.
LEMMA RowCloses ==
  ASSUME NEW runs \in [Stages -> Rows], NEW s \in Stages, NEW new \in StageStatus, NEW flags \in Details
  PROVE  [runs EXCEPT ![s] = [status |-> new, detail |-> flags]] \in [Stages -> Rows]
BY DEF Rows

LEMMA RowStatus ==
  ASSUME NEW runs \in [Stages -> Rows], NEW s \in Stages, NEW new \in StageStatus
  PROVE  [runs EXCEPT ![s].status = new] \in [Stages -> Rows]
BY DEF Rows

LEMMA StaleTyped ==
  ASSUME NEW runs \in [Stages -> Rows], NEW S
  PROVE  Stale(runs, S) \in [Stages -> Rows]
BY DEF Stale, Rows, Details, StageStatus

LEMMA FlaggedTyped ==
  ASSUME NEW runs \in [Stages -> Rows], NEW S, NEW flags \in Details
  PROVE  Flagged(runs, S, flags) \in [Stages -> Rows]
BY DEF Flagged, Rows, Details

\* The bounded counters.
LEMMA Counted ==
  ASSUME TypeOK
  PROVE  /\ spent.versions < MaxVersions => [spent EXCEPT !.versions = @ + 1] \in Counters
         /\ spent.requests < RequestBound => [spent EXCEPT !.requests = @ + 1] \in Counters
         /\ spent.faults < FaultBound => [spent EXCEPT !.faults = @ + 1] \in Counters
         /\ spent.crashes < CrashBound => [spent EXCEPT !.crashes = @ + 1] \in Counters
         /\ spent.versions < MaxVersions => NewVersion \in 1..MaxVersions
<1>1. ASSUME NEW b \in Nat, NEW n \in 0..b, n < b PROVE n + 1 \in 0..b BY <1>1
<1> DEFINE v == spent.versions + 1  r == spent.requests + 1
           f == spent.faults + 1    c == spent.crashes + 1
<1>2. spent \in Counters /\ setting \in Settings BY DEF TypeOK
<1>3. /\ spent.versions < MaxVersions => v \in 0..MaxVersions
      /\ spent.requests < RequestBound => r \in 0..RequestBound
      /\ spent.faults < FaultBound => f \in 0..FaultBound
      /\ spent.crashes < CrashBound => c \in 0..CrashBound
  BY <1>2, Bounds DEF Counters
<1>4. /\ [spent EXCEPT !.versions = @ + 1] = [spent EXCEPT !.versions = v]
      /\ [spent EXCEPT !.requests = @ + 1] = [spent EXCEPT !.requests = r]
      /\ [spent EXCEPT !.faults = @ + 1] = [spent EXCEPT !.faults = f]
      /\ [spent EXCEPT !.crashes = @ + 1] = [spent EXCEPT !.crashes = c]
  OBVIOUS
<1>5. spent.versions < MaxVersions => NewVersion \in 1..MaxVersions
  BY <1>2, Bounds DEF Counters, NewVersion
<1> HIDE DEF v, r, f, c
<1>6. spent.versions < MaxVersions => [spent EXCEPT !.versions = v] \in Counters
  BY <1>2, <1>3 DEF Counters
<1>7. spent.requests < RequestBound => [spent EXCEPT !.requests = r] \in Counters
  BY <1>2, <1>3 DEF Counters
<1>8. spent.faults < FaultBound => [spent EXCEPT !.faults = f] \in Counters BY <1>2, <1>3 DEF Counters
<1>9. spent.crashes < CrashBound => [spent EXCEPT !.crashes = c] \in Counters BY <1>2, <1>3 DEF Counters
<1> QED BY <1>4, <1>5, <1>6, <1>7, <1>8, <1>9

\* A step that keeps what each variable may be.
LEMMA Retyped ==
  ASSUME setting \in Settings, setting' = setting,
         status' \in FileStatus, audio' \in BOOLEAN, evicting' \in BOOLEAN,
         raw' \in Raws, canon' \in Texts, drafts' \in Seq(Lineages), Len(drafts') <= MaxNotes,
         note' \in NoteChoices, built' \in [{"mind_map", "outline", "index"} -> Lineages],
         run' \in [Stages -> Rows], waiting' \subseteq {"file", "map", "outline"},
         asked' \subseteq [kind : RequestKinds, status : FileStatus],
         work' \in Workers, spent' \in Counters
  PROVE  TypeOK'
BY SameSets DEF TypeOK

LEMMA TypeFacts ==
  ASSUME TypeOK
  PROVE  /\ setting \in Settings
         /\ work.at \in Places /\ work.cycle \in Cycles /\ work.stage \in Steps
         /\ work.lineage \in Lineages /\ work.note \in 0..MaxNotes /\ work.before \in FileStatus
         /\ work.try \in 0..Candidates /\ work.errors \subseteq Steps
         /\ note.live \in 0..MaxNotes /\ note.mapped \in 0..MaxNotes
         /\ \A s \in Stages : run[s].status \in StageStatus /\ run[s].detail \in Details
         /\ spent.faults \in Nat
BY Bounds DEF TypeOK, Workers, NoteChoices, Rows, Counters

LEMMA MovesTo ==
  ASSUME TypeOK, NEW a \in Places, work' = [work EXCEPT !.at = a]
  PROVE  work' \in Workers /\ work'.at = a
BY WorkMoves DEF TypeOK, Workers

\* One lemma per group of actions: they keep the types.
LEMMA EnterTypes == ASSUME TypeInv, Enter PROVE TypeInv'
<1> USE DEF TypeInv
<1>1. TypeOK /\ TriesLeft OBVIOUS
<1>2. Lineage \in Lineages BY LineageTyped
<1>3. Candidates' = Candidates BY DEF Candidates, Enter, EnterFull, EnterDerived, EnterMap, RefuseMap,
                                      EnterOutline, RefuseOutline, EnterReindex
<1>4. CASE EnterFull
  <2>1. work' \in Workers BY <1>4, TypeFacts, StepsAre DEF EnterFull, Workers, Places, TypeOK
  <2>2. work'.try < Candidates BY <1>4, TypeFacts DEF EnterFull, Starting, TriesLeft, TypeOK, Workers
  <2>3. TypeOK' BY <1>4, <2>1, Retyped DEF EnterFull, TypeOK, FileStatus, textVars, artVars, sideVars
  <2> QED BY <1>3, <2>2, <2>3 DEF TriesLeft
<1>5. CASE EnterDerived
  <2>1. work' \in Workers BY <1>2, <1>5, TypeFacts, StepsAre DEF EnterDerived, Workers, Places, TypeOK
  <2>2. work'.try < Candidates BY <1>5, TypeFacts DEF EnterDerived, Starting, TriesLeft, TypeOK, Workers
  <2>3. TypeOK' BY <1>5, <2>1, Retyped DEF EnterDerived, TypeOK, textVars, artVars, sideVars
  <2> QED BY <1>3, <2>2, <2>3 DEF TriesLeft
<1>6. CASE EnterMap
  <2>1. work' \in Workers BY <1>2, <1>6, TypeFacts, StepsAre DEF EnterMap, Workers, Places, TypeOK
  <2>2. work'.try < Candidates BY <1>6, TypeFacts DEF EnterMap, Starting, TriesLeft, TypeOK, Workers
  <2>3. TypeOK' BY <1>6, <2>1, Retyped DEF EnterMap, TypeOK, textVars, artVars, sideVars
  <2> QED BY <1>3, <2>2, <2>3 DEF TriesLeft
<1>7. CASE RefuseMap
  <2>1. work' \in Workers /\ work'.at = "finished"
    BY <1>7, MovesTo, "finished" \in Places DEF RefuseMap, Places
  <2>2. run' = run \/ run' = [run EXCEPT !["mind_map"].status = "failed"]
    BY <1>7 DEF RefuseMap
  <2>3. "mind_map" \in Stages /\ "failed" \in StageStatus BY StagesAre DEF StageStatus
  <2>4. run' \in [Stages -> Rows] BY <2>2, <2>3, RowStatus DEF TypeOK
  <2>5. TypeOK'
    BY <1>7, <2>1, <2>4, Retyped DEF RefuseMap, TypeOK, FileStatus, textVars, artVars, sideVars
  <2> QED BY <2>1, <2>5 DEF TriesLeft
<1>8. CASE EnterOutline
  <2>1. work' \in Workers BY <1>2, <1>8, TypeFacts, StepsAre DEF EnterOutline, Workers, Places, TypeOK
  <2>2. work'.try < Candidates BY <1>8, TypeFacts DEF EnterOutline, Starting, TriesLeft, TypeOK, Workers
  <2> DEFINE d == run["outline"].detail \cup {"only"}
  <2>3. run' = [run EXCEPT !["outline"] = [status |-> "pending", detail |-> d]] BY <1>8 DEF EnterOutline
  <2>5. d \in Details /\ "outline" \in Stages /\ "pending" \in StageStatus
    BY TypeFacts, StagesAre DEF Details, StageStatus
  <2> HIDE DEF d
  <2>6. run' \in [Stages -> Rows] BY <2>3, <2>5, RowCloses DEF TypeOK
  <2>4. TypeOK' BY <1>8, <2>1, <2>6, Retyped DEF EnterOutline, TypeOK, textVars, artVars, sideVars
  <2> QED BY <1>3, <2>2, <2>4 DEF TriesLeft
<1>9. CASE RefuseOutline
  <2>1. work' \in Workers /\ work'.at = "finished"
    BY <1>9, MovesTo, "finished" \in Places DEF RefuseOutline, Places
  <2> DEFINE d == run["outline"].detail \cup {"only"}
  <2>2. run' = [run EXCEPT !["outline"] = [status |-> "failed", detail |-> d]] BY <1>9 DEF RefuseOutline
  <2>3. d \in Details /\ "outline" \in Stages /\ "failed" \in StageStatus
    BY TypeFacts, StagesAre DEF Details, StageStatus
  <2> HIDE DEF d
  <2>4. run' \in [Stages -> Rows] BY <2>2, <2>3, RowCloses DEF TypeOK
  <2>5. TypeOK' BY <1>9, <2>1, <2>4, Retyped DEF RefuseOutline, TypeOK, textVars, artVars, sideVars
  <2> QED BY <2>1, <2>5 DEF TriesLeft
<1>10. CASE EnterReindex
  <2> DEFINE n == work.try + 1
  <2>1. n \in 0..Candidates
    BY <1>10, TypeFacts, Bounds DEF EnterReindex, Starting, TriesLeft
  <2>2. work' = [work EXCEPT !.at = "running", !.stage = "index", !.lineage = Lineage,
                             !.moved = FALSE, !.try = n]
    BY <1>10 DEF EnterReindex
  <2> HIDE DEF n
  <2>3. work' \in Workers /\ work'.at = "running"
    BY <1>2, <2>1, <2>2, StepsAre DEF Workers, Places, TypeOK
  <2>4. run' \in [Stages -> Rows]
    BY <1>10 DEF EnterReindex, TypeOK, Stages, Derived, StageStatus, Rows, Details
  <2>5. TypeOK' BY <1>10, <2>3, <2>4, Retyped DEF EnterReindex, TypeOK, textVars, artVars, sideVars
  <2> QED BY <2>3, <2>5 DEF TriesLeft
<1> QED BY <1>4, <1>5, <1>6, <1>7, <1>8, <1>9, <1>10 DEF Enter

\* What a step of a stage leaves alone.
LEMMA StageTypes ==
  ASSUME TypeInv, run' \in [Stages -> Rows], work' \in Workers, TriesLeft', spent' \in Counters,
         UNCHANGED <<setting, status, audio, textVars, artVars, waiting, sideVars>>
  PROVE  TypeInv'
BY Retyped DEF TypeInv, TypeOK, textVars, artVars, sideVars

LEMMA LeavingTypes ==
  ASSUME TypeInv, setting' = setting, NEW s \in Steps, NEW errors \in SUBSET Steps, work' = Leaving(s, errors)
  PROVE  work' \in Workers /\ TriesLeft'
<1>1. Candidates' = Candidates /\ 0 < Candidates BY Bounds DEF Candidates, TypeInv, TypeOK
<1> QED BY <1>1, LeavingTyped DEF TriesLeft, TypeInv

LEMMA ClosedTypes ==
  ASSUME TypeInv, NEW s \in Stages, NEW new \in StageStatus, Close(s, new)
  PROVE  run' \in [Stages -> Rows]
<1>1. {} \in Details BY DEF Details
<1> QED BY <1>1, RowCloses DEF Close, TypeInv, TypeOK

LEMMA FaultTypes == ASSUME TypeOK, NEW s \in Stages, Fault(s) PROVE spent' \in Counters
BY Counted DEF Fault, TypeOK

LEMMA FailedTypes ==
  ASSUME TypeOK, NEW s \in Stages PROVE Failed(s) \in [Stages -> Rows]
<1>1. "failed" \in StageStatus BY DEF StageStatus
<1>2. CASE s = "index" /\ work.moved BY <1>2 DEF Failed, TypeOK
<1>3. CASE ~(s = "index" /\ work.moved) BY <1>1, <1>3, RowStatus DEF Failed, TypeOK
<1> QED BY <1>2, <1>3

LEMMA StepTypes == ASSUME TypeInv, NEW s \in Stages, Stage(s) PROVE TypeInv'
<1>1. s \in Steps /\ {} \in SUBSET Steps /\ {s} \in SUBSET Steps BY StepsAre, StagesAre
<1>2. TypeOK BY DEF TypeInv
<1>3. /\ "skipped" \in StageStatus /\ "completed" \in StageStatus /\ "degraded" \in StageStatus
      /\ "running" \in StageStatus
  BY DEF StageStatus
<1>4. CASE SkipStage(s)
  <2>1. work' \in Workers /\ TriesLeft' BY <1>1, <1>4, LeavingTypes DEF SkipStage
  <2>2. run' \in [Stages -> Rows] BY <1>3, <1>4, ClosedTypes DEF SkipStage
  <2> QED BY <1>2, <1>4, <2>1, <2>2, StageTypes DEF SkipStage, TypeOK
<1>5. CASE ReuseStage(s)
  <2>1. work' \in Workers /\ TriesLeft' BY <1>1, <1>5, LeavingTypes DEF ReuseStage
  <2>2. run' \in [Stages -> Rows] BY <1>3, <1>5, ClosedTypes DEF ReuseStage
  <2> QED BY <1>2, <1>5, <2>1, <2>2, StageTypes DEF ReuseStage, TypeOK
<1>6. CASE BeginStage(s)
  <2> DEFINE n == work.try + 1
             m == IF s = "mind_map" /\ ~Narrow THEN note.live ELSE work.note
             d == IF Has(s, "stale") THEN run[s].detail
                  ELSE IF s = "outline" THEN run[s].detail \cap {"only"} ELSE {}
  <2>1. work.at = "stage" BY <1>6 DEF BeginStage, At
  <2>2. n \in 0..Candidates BY <1>2, <2>1, TypeFacts, Bounds DEF TriesLeft, TypeInv
  <2>3. m \in 0..MaxNotes BY <1>2, TypeFacts
  <2>4. d \in Details BY <1>2, TypeFacts DEF Details
  <2>5. run' = [run EXCEPT ![s] = [status |-> "running", detail |-> d]] BY <1>6 DEF BeginStage
  <2>6. work' = [work EXCEPT !.at = "running", !.moved = FALSE, !.try = n, !.note = m]
    BY <1>6 DEF BeginStage
  <2> HIDE DEF n, m, d
  <2>7. work' \in Workers /\ work'.at = "running" BY <1>2, <2>2, <2>3, <2>6 DEF Workers, Places, TypeOK
  <2>8. run' \in [Stages -> Rows] BY <1>2, <1>3, <2>4, <2>5, RowCloses DEF TypeOK
  <2> QED BY <1>2, <1>6, <2>7, <2>8, StageTypes DEF BeginStage, TypeOK, TriesLeft
<1>7. CASE FinishStage(s)
  <2>1. work' \in Workers /\ TriesLeft' BY <1>1, <1>7, LeavingTypes DEF FinishStage
  <2>2. run' \in [Stages -> Rows] BY <1>3, <1>7, ClosedTypes DEF FinishStage
  <2> QED BY <1>2, <1>7, <2>1, <2>2, StageTypes DEF FinishStage, TypeOK
<1>8. CASE TryNext(s)
  <2>1. work' \in Workers /\ work'.at = "stage" /\ work'.try = work.try /\ work.try < Candidates
    BY <1>2, <1>8 DEF TryNext, Workers, Places, TypeOK
  <2>2. Candidates' = Candidates BY <1>8 DEF TryNext, Candidates
  <2>3. run' \in [Stages -> Rows] BY <1>2, <1>8, FailedTypes DEF TryNext
  <2>4. spent' \in Counters BY <1>2, <1>8, FaultTypes DEF TryNext
  <2>5. TriesLeft' BY <2>1, <2>2 DEF TriesLeft
  <2> QED BY <1>8, <2>1, <2>3, <2>4, <2>5, StageTypes DEF TryNext
<1>9. CASE FailStage(s)
  <2>1. work' \in Workers /\ TriesLeft'
    <3>1. work' = Leaving(s, {}) \/ work' = Leaving(s, {s}) BY <1>9 DEF FailStage
    <3> QED BY <1>1, <1>9, <3>1, LeavingTypes DEF FailStage
  <2>2. run' \in [Stages -> Rows]
    <3>1. CASE run' = Failed(s) BY <1>2, <3>1, FailedTypes
    <3>2. CASE run' = [run EXCEPT ![s].status = "degraded"] BY <1>2, <1>3, <3>2, RowStatus DEF TypeOK
    <3>3. CASE Close(s, "degraded") BY <1>3, <3>3, ClosedTypes
    <3> QED BY <1>9, <3>1, <3>2, <3>3 DEF FailStage
  <2>3. spent' \in Counters BY <1>2, <1>9, FaultTypes DEF FailStage
  <2> QED BY <1>9, <2>1, <2>2, <2>3, StageTypes DEF FailStage
<1>10. CASE FailCycle(s)
  <2>1. work' \in Workers /\ work'.at = "finished"
    BY <1>2, <1>10, MovesTo, "finished" \in Places DEF FailCycle, Places
  <2>2. run' \in [Stages -> Rows] BY <1>2, <1>10, FailedTypes DEF FailCycle
  <2>3. spent' \in Counters BY <1>2, <1>10, FaultTypes DEF FailCycle
  <2>4. TypeOK' BY <1>2, <1>10, <2>1, <2>2, <2>3, Retyped
    DEF FailCycle, TypeOK, FileStatus, textVars, artVars, sideVars
  <2> QED BY <2>1, <2>4 DEF TriesLeft, TypeInv
<1> QED BY <1>4, <1>5, <1>6, <1>7, <1>8, <1>9, <1>10 DEF Stage

LEMMA VersionTypes ==
  ASSUME TypeOK, CountVersion
  PROVE  spent' \in Counters /\ NewVersion \in 0..MaxVersions /\ NewVersion # 0
BY Counted, Bounds DEF CountVersion, TypeOK

LEMMA ChunksGo ==
  ASSUME TypeOK, built' = [built EXCEPT !["index"] = NoLineage]
  PROVE  built' \in [{"mind_map", "outline", "index"} -> Lineages]
BY NoLineageTyped DEF TypeOK

LEMMA DerivedGoStaleTypes ==
  ASSUME TypeOK, DerivedGoStale
  PROVE  run' \in [Stages -> Rows] /\ built' \in [{"mind_map", "outline", "index"} -> Lineages]
BY ChunksGo, StaleTyped DEF DerivedGoStale, TypeOK

LEMMA StoredTypes == ASSUME TypeOK, Stored PROVE work' \in Workers /\ work'.at = "persisted"
BY MovesTo, "persisted" \in Places DEF Stored, Places

LEMMA PolishInputTyped ==
  ASSUME TypeOK PROVE raw.content \in {"speech", "noise", "silence"}
                      /\ PolishInput \in {"speech", "noise", "silence"}
BY Bounds DEF TypeOK, Raws, Texts, PolishInput

LEMMA PersistTypes == ASSUME TypeInv, Persist PROVE TypeInv'
<1>1. TypeOK BY DEF TypeInv
<1>2. CASE PersistTranscript
  <2>1. work' \in Workers /\ work'.at = "persisted"
    BY <1>1, <1>2 DEF PersistTranscript, TypeOK, Workers, Places
  <2>2. spent' \in Counters /\ NewVersion \in 0..MaxVersions
    BY <1>1, <1>2, VersionTypes DEF PersistTranscript
  <2>3. PICK c \in Contents :
          /\ raw' = [id |-> NewVersion, speakers |-> AsrSpeakers, content |-> c]
          /\ canon' = IF canon.kind = "raw"
                      THEN [text |-> NewVersion, kind |-> "raw", base |-> NewVersion, content |-> c]
                      ELSE [canon EXCEPT !.base = 0]
    BY <1>2 DEF PersistTranscript
  <2> HIDE DEF NewVersion
  <2>4. c \in {"speech", "noise", "silence"} /\ AsrSpeakers \in BOOLEAN /\ 0 \in 0..MaxVersions
    BY <1>1, Bounds DEF TypeOK
  <2>5. raw' \in Raws BY <2>2, <2>3, <2>4 DEF Raws
  <2>6. canon' \in Texts BY <1>1, <2>2, <2>3, <2>4 DEF Texts, TypeOK
  <2>7. TypeOK'
    BY <1>1, <1>2, <2>1, <2>2, <2>5, <2>6, Retyped DEF PersistTranscript, TypeOK, artVars, sideVars
  <2> QED BY <2>1, <2>7 DEF TriesLeft, TypeInv
<1>3. CASE PersistAligned
  <2>1. work' \in Workers /\ work'.at = "persisted"
    BY <1>1, <1>3, StoredTypes DEF PersistAligned, OnlyStored
  <2>2. TypeOK' BY <1>1, <1>3, <2>1, Retyped
    DEF PersistAligned, OnlyStored, TypeOK, textVars, artVars, sideVars
  <2> QED BY <2>1, <2>2 DEF TriesLeft, TypeInv
<1>4. CASE PersistDiarized
  <2>1. work' \in Workers /\ work'.at = "persisted"
    BY <1>1, <1>4, StoredTypes DEF PersistDiarized, OnlyStored
  <2>2. spent' \in Counters /\ NewVersion \in 0..MaxVersions
    BY <1>1, <1>4, VersionTypes DEF PersistDiarized
  <2>3. run' \in [Stages -> Rows] /\ built' \in [{"mind_map", "outline", "index"} -> Lineages]
    BY <1>1, <1>4, DerivedGoStaleTypes DEF PersistDiarized
  <2>4. raw' \in Raws BY <1>1, <1>4 DEF PersistDiarized, Raws, TypeOK
  <2>5. canon' \in Texts BY <1>1, <1>4, <2>2 DEF PersistDiarized, Texts, TypeOK
  <2>6. TypeOK' BY <1>1, <1>4, <2>1, <2>2, <2>3, <2>4, <2>5, Retyped
    DEF PersistDiarized, OnlyStored, TypeOK, sideVars
  <2> QED BY <2>1, <2>6 DEF TriesLeft, TypeInv
<1>5. CASE PersistPolished
  <2>1. work' \in Workers /\ work'.at = "persisted"
    BY <1>1, <1>5, StoredTypes DEF PersistPolished, OnlyStored
  <2>2. spent' \in Counters /\ NewVersion \in 0..MaxVersions
    BY <1>1, <1>5, VersionTypes DEF PersistPolished
  <2>3. run' \in [Stages -> Rows] /\ built' \in [{"mind_map", "outline", "index"} -> Lineages]
    BY <1>1, <1>5, DerivedGoStaleTypes DEF PersistPolished
  <2>4. canon' \in Texts
    BY <1>1, <1>5, <2>2, PolishInputTyped DEF PersistPolished, Texts, Raws, TypeOK
  <2>5. TypeOK' BY <1>1, <1>5, <2>1, <2>2, <2>3, <2>4, Retyped
    DEF PersistPolished, OnlyStored, TypeOK, sideVars
  <2> QED BY <2>1, <2>5 DEF TriesLeft, TypeInv
<1>6. CASE PersistNote
  <2>1. work' \in Workers /\ work'.at = "persisted"
    BY <1>1, <1>6, StoredTypes DEF PersistNote, OnlyStored
  <2>2. run' \in [Stages -> Rows] BY <1>1, <1>6, StaleTyped DEF PersistNote, TypeOK
  <2>3. work.lineage \in Lineages BY <1>1, TypeFacts
  <2>4. drafts' \in Seq(Lineages) /\ Len(drafts') = Len(drafts) + 1 /\ Len(drafts) \in Nat
    BY <1>1, <1>6, <2>3 DEF PersistNote, TypeOK
  <2> DEFINE n == Len(drafts) + 1
  <2>5. n \in 0..MaxNotes BY <1>1, <1>6, <2>4, Bounds DEF PersistNote, TypeOK
  <2>6. note' = [note EXCEPT !.live = n, !.chosen = FALSE] BY <1>6 DEF PersistNote
  <2>7. Len(drafts') <= MaxNotes BY <2>4, <2>5
  <2> HIDE DEF n
  <2>8. note' \in NoteChoices BY <1>1, <2>5, <2>6 DEF NoteChoices, TypeOK
  <2>9. TypeOK' BY <1>1, <1>6, <2>1, <2>2, <2>4, <2>7, <2>8, Retyped
    DEF PersistNote, OnlyStored, TypeOK, textVars, sideVars
  <2> QED BY <2>1, <2>9 DEF TriesLeft, TypeInv
<1>7. CASE PersistMap
  <2>1. work' \in Workers /\ work'.at = "persisted"
    BY <1>1, <1>7, StoredTypes DEF PersistMap, OnlyStored
  <2>2. built' \in [{"mind_map", "outline", "index"} -> Lineages] /\ note' \in NoteChoices
    BY <1>1, <1>7, TypeFacts DEF PersistMap, TypeOK, NoteChoices
  <2>3. TypeOK' BY <1>1, <1>7, <2>1, <2>2, Retyped
    DEF PersistMap, OnlyStored, TypeOK, textVars, sideVars
  <2> QED BY <2>1, <2>3 DEF TriesLeft, TypeInv
<1>8. ASSUME NEW s \in {"outline", "index"}, built' = [built EXCEPT ![s] = work.lineage], OnlyStored,
             UNCHANGED <<setting, textVars, drafts, note, run, spent>>
      PROVE  TypeInv'
  <2>1. work' \in Workers /\ work'.at = "persisted" BY <1>1, <1>8, StoredTypes DEF OnlyStored
  <2>2. built' \in [{"mind_map", "outline", "index"} -> Lineages]
    BY <1>1, <1>8, TypeFacts DEF TypeOK
  <2>3. TypeOK' BY <1>1, <1>8, <2>1, <2>2, Retyped DEF OnlyStored, TypeOK, textVars, sideVars
  <2> QED BY <2>1, <2>3 DEF TriesLeft, TypeInv
<1>9. CASE PersistOutline BY <1>8, <1>9 DEF PersistOutline
<1>10. CASE PersistIndex BY <1>8, <1>10 DEF PersistIndex
<1> QED BY <1>2, <1>3, <1>4, <1>5, <1>6, <1>7, <1>9, <1>10 DEF Persist

LEMMA SpecialTypes == ASSUME TypeInv, Special PROVE TypeInv'
<1>1. TypeOK BY DEF TypeInv
<1>2. CASE RetireSpeech
  <2>1. spent' \in Counters /\ NewVersion \in 0..MaxVersions
    BY <1>1, <1>2, VersionTypes DEF RetireSpeech
  <2>2. canon' \in Texts BY <1>1, <1>2, <2>1 DEF RetireSpeech, Texts, Raws, TypeOK
  <2>3. TypeOK' BY <1>1, <1>2, <2>1, <2>2, Retyped DEF RetireSpeech, TypeOK, artVars, sideVars
  <2> QED BY <1>2, <2>3 DEF TriesLeft, TypeInv, RetireSpeech, Candidates
<1>3. "vocabulary" \in Steps /\ "mind_map" \in Steps /\ "mind_map" \in Stages
      /\ {} \in SUBSET Steps /\ {"mind_map"} \in SUBSET Steps
  BY StepsAre, StagesAre
<1>4. CASE ApplyVocabulary
  <2>1. work' \in Workers /\ TriesLeft' BY <1>3, <1>4, LeavingTypes DEF ApplyVocabulary
  <2>2. spent' \in Counters /\ NewVersion \in 0..MaxVersions
    BY <1>1, <1>4, VersionTypes DEF ApplyVocabulary
  <2>3. run' \in [Stages -> Rows] /\ built' \in [{"mind_map", "outline", "index"} -> Lineages]
    BY <1>1, <1>4, DerivedGoStaleTypes DEF ApplyVocabulary
  <2>4. canon' \in Texts BY <1>1, <1>4, <2>2 DEF ApplyVocabulary, Texts, TypeOK
  <2>5. TypeOK' BY <1>1, <1>4, <2>1, <2>2, <2>3, <2>4, Retyped DEF ApplyVocabulary, TypeOK, sideVars
  <2> QED BY <2>1, <2>5 DEF TypeInv
<1>5. CASE SkipVocabulary
  <2>1. work' \in Workers /\ TriesLeft' BY <1>3, <1>5, LeavingTypes DEF SkipVocabulary
  <2> QED BY <1>1, <1>5, <2>1, StageTypes DEF SkipVocabulary, TypeOK
<1>6. CASE SkipDerived
  <2>1. work' \in Workers /\ work'.at = "closing"
    BY <1>1, <1>6, MovesTo, "closing" \in Places DEF SkipDerived, Places
  <2>2. run' \in [Stages -> Rows]
    <3>1. [status |-> "skipped", detail |-> {"stale"}] \in Rows BY DEF Rows, StageStatus, Details
    <3> QED BY <1>1, <1>6, <3>1 DEF SkipDerived, TypeOK
  <2>3. TypeOK' BY <1>1, <1>6, <2>1, <2>2, ChunksGo, Retyped DEF SkipDerived, TypeOK, textVars, sideVars
  <2> QED BY <2>1, <2>3 DEF TriesLeft, TypeInv
<1>7. CASE RejectNoise
  <2> DEFINE e == work.errors \cup (Derived \cap Enabled)
  <2>1. e \in SUBSET Steps BY <1>1, TypeFacts, StepsAre DEF Derived
  <2>2. work' = [work EXCEPT !.at = "closing", !.errors = e] BY <1>7 DEF RejectNoise
  <2> HIDE DEF e
  <2>3. work' \in Workers /\ work'.at = "closing" BY <1>1, <2>1, <2>2 DEF Workers, Places, TypeOK
  <2>4. run' \in [Stages -> Rows]
    <3>1. [status |-> "degraded", detail |-> {}] \in Rows BY DEF Rows, StageStatus, Details
    <3> QED BY <1>1, <1>7, <3>1 DEF RejectNoise, TypeOK
  <2>5. TypeOK' BY <1>1, <1>7, <2>3, <2>4, Retyped DEF RejectNoise, TypeOK, textVars, artVars, sideVars
  <2> QED BY <2>3, <2>5 DEF TriesLeft, TypeInv
<1>8. CASE HoldMap
  <2>1. work' \in Workers /\ TriesLeft' BY <1>3, <1>8, LeavingTypes DEF HoldMap
  <2>2. "degraded" \in StageStatus BY DEF StageStatus
  <2>3. run' \in [Stages -> Rows] BY <1>1, <1>3, <1>8, <2>2, RowStatus DEF HoldMap, TypeOK
  <2> QED BY <1>1, <1>8, <2>1, <2>3, StageTypes DEF HoldMap, TypeOK
<1>9. "index" \in Stages /\ "completed" \in StageStatus BY StagesAre DEF StageStatus
<1>10. CASE PublishReindex
  <2>1. work' \in Workers /\ work'.at = "finished"
    BY <1>1, <1>10, MovesTo, "finished" \in Places DEF PublishReindex, Places
  <2>2. run' \in [Stages -> Rows]
    <3>1. run' = run \/ Close("index", "completed") BY <1>10 DEF PublishReindex
    <3>2. CASE run' = run BY <1>1, <3>2 DEF TypeOK
    <3>3. CASE Close("index", "completed") BY <1>9, <3>3, ClosedTypes
    <3> QED BY <3>1, <3>2, <3>3
  <2>3. built' \in [{"mind_map", "outline", "index"} -> Lineages]
    BY <1>1, <1>10, TypeFacts DEF PublishReindex, TypeOK
  <2>4. TypeOK' BY <1>1, <1>10, <2>1, <2>2, <2>3, Retyped DEF PublishReindex, TypeOK, textVars, sideVars
  <2> QED BY <2>1, <2>4 DEF TriesLeft, TypeInv
<1>11. CASE FailReindex
  <2>1. PICK a \in {"start", "finished"} : /\ work' = [work EXCEPT !.at = a]
                                           /\ a = "start" => work.try < Candidates
    BY <1>11 DEF FailReindex
  <2>2. work' \in Workers /\ work'.at = a /\ work'.try = work.try
    BY <1>1, <2>1 DEF Workers, Places, TypeOK
  <2>3. run' \in [Stages -> Rows]
    <3>1. run' = run \/ run' = Failed("index") BY <1>11 DEF FailReindex
    <3> QED BY <1>1, <1>9, <3>1, FailedTypes DEF TypeOK
  <2>4. spent' \in Counters BY <1>1, <1>9, <1>11, FaultTypes DEF FailReindex
  <2>5. TriesLeft' BY <1>11, <2>1, <2>2 DEF TriesLeft, FailReindex, Candidates
  <2> QED BY <1>11, <2>2, <2>3, <2>4, <2>5, StageTypes DEF FailReindex
<1> QED BY <1>2, <1>4, <1>5, <1>6, <1>7, <1>8, <1>10, <1>11 DEF Special

LEMMA EndTypes == ASSUME TypeInv, End PROVE TypeInv'
<1>1. TypeOK BY DEF TypeInv
<1>2. ASSUME Finished PROVE work' \in Workers /\ work'.at = "finished"
  BY <1>1, <1>2, MovesTo, "finished" \in Places DEF Finished, Places
<1>3. CASE FinishCycle
  <2>1. {"derived_only"} \in Details BY DEF Details
  <2>2. run' \in [Stages -> Rows] BY <1>1, <1>3, <2>1, FlaggedTyped DEF FinishCycle, TypeOK
  <2>3. TypeOK' BY <1>1, <1>2, <1>3, <2>2, Retyped
    DEF FinishCycle, TypeOK, FileStatus, textVars, artVars, sideVars
  <2> QED BY <1>2, <1>3, <2>3 DEF TriesLeft, TypeInv, FinishCycle
<1>4. CASE FinishMap
  <2>1. TypeOK' BY <1>1, <1>2, <1>4, Retyped
    DEF FinishMap, TypeOK, FileStatus, textVars, artVars, sideVars
  <2> QED BY <1>2, <1>4, <2>1 DEF TriesLeft, TypeInv, FinishMap
<1>5. CASE FinishOutline
  <2>1. {"only"} \in Details BY DEF Details
  <2>2. run' \in [Stages -> Rows] BY <1>1, <1>5, <2>1, FlaggedTyped DEF FinishOutline, TypeOK
  <2>3. TypeOK' BY <1>1, <1>2, <1>5, <2>2, Retyped
    DEF FinishOutline, TypeOK, FileStatus, textVars, artVars, sideVars
  <2> QED BY <1>2, <1>5, <2>3 DEF TriesLeft, TypeInv, FinishOutline
<1>6. CASE Release
  <2>1. work' \in Workers /\ work'.at = "idle" BY <1>1, <1>6, NoWorkTyped DEF Release, TypeOK
  <2>2. evicting' \in BOOLEAN BY <1>1, <1>6, Bounds DEF Release, TypeOK
  <2>3. TypeOK' BY <1>1, <1>6, <2>1, <2>2, Retyped DEF Release, TypeOK, textVars, artVars
  <2> QED BY <2>1, <2>3 DEF TriesLeft, TypeInv
<1> QED BY <1>3, <1>4, <1>5, <1>6 DEF End

\* The thread of a request starts or fails to.
LEMMA ThreadTypes ==
  ASSUME TypeInv, NEW s \in FileStatus, ThreadStarts \/ ThreadFails(s), work.at = "requested",
         setting' = setting
  PROVE  work' \in Workers /\ TriesLeft' /\ status' \in FileStatus
<1>1. TypeOK BY DEF TypeInv
<1>2. CASE ThreadStarts
  <2>1. work' \in Workers /\ work'.try = work.try
    BY <1>1, <1>2 DEF ThreadStarts, TypeOK, Workers, Places
  <2> QED BY <1>2, <2>1 DEF ThreadStarts, TypeInv, TriesLeft, Candidates, FileStatus
<1>3. CASE ThreadFails(s)
  BY <1>1, <1>3, NoWorkTyped DEF ThreadFails, TriesLeft, TypeOK
<1> QED BY <1>2, <1>3

LEMMA MarkTypes ==
  ASSUME TypeInv, MarkReprocess \/ MarkNotes \/ MarkMap \/ RejectMap PROVE TypeInv'
<1>1. TypeOK /\ work.before \in FileStatus /\ "partial" \in FileStatus
  BY TypeFacts DEF TypeInv, FileStatus
<1>2. CASE MarkReprocess
  <2>1. work' \in Workers /\ TriesLeft' /\ status' \in FileStatus
    BY <1>1, <1>2, ThreadTypes DEF MarkReprocess, Requesting
  <2>2. TypeOK' BY <1>1, <1>2, <2>1, Retyped DEF MarkReprocess, TypeOK, textVars, artVars, sideVars
  <2> QED BY <2>1, <2>2 DEF TypeInv
<1>3. CASE MarkNotes
  <2>1. work' \in Workers /\ TriesLeft' /\ status' \in FileStatus
    BY <1>1, <1>3, ThreadTypes DEF MarkNotes, Requesting
  <2> DEFINE r == Flagged(Stale(run, Derived), Derived, {"derived_only"})
  <2>2. {"derived_only"} \in Details BY DEF Details
  <2>3. r \in [Stages -> Rows] BY <1>1, <2>2, StaleTyped, FlaggedTyped DEF TypeOK
  <2>4. run' = [r EXCEPT !["mind_map"].detail = @ \ {"only"}] BY <1>3 DEF MarkNotes
  <2> HIDE DEF r
  <2>5. run' \in [Stages -> Rows] BY <2>3, <2>4 DEF Rows, Details
  <2>6. TypeOK' BY <1>1, <1>3, <2>1, <2>5, Retyped DEF MarkNotes, TypeOK, textVars, artVars, sideVars
  <2> QED BY <2>1, <2>6 DEF TypeInv
<1>4. CASE MarkMap
  <2>1. work' \in Workers /\ TriesLeft' /\ status' \in FileStatus
    BY <1>1, <1>4, ThreadTypes DEF MarkMap, Requesting
  <2> DEFINE d == (run["mind_map"].detail \cup {"stale", "only"}) \ {"derived_only"}
  <2>2. d \in Details /\ "mind_map" \in Stages /\ "pending" \in StageStatus
    BY <1>1, TypeFacts, StagesAre DEF Details, StageStatus
  <2>3. run' = [run EXCEPT !["mind_map"] = [status |-> "pending", detail |-> d]] BY <1>4 DEF MarkMap
  <2> HIDE DEF d
  <2>4. run' \in [Stages -> Rows] BY <1>1, <2>2, <2>3, RowCloses DEF TypeOK
  <2>5. TypeOK' BY <1>1, <1>4, <2>1, <2>4, Retyped DEF MarkMap, TypeOK, textVars, artVars, sideVars
  <2> QED BY <2>1, <2>5 DEF TypeInv
<1>5. CASE RejectMap
  <2>1. work' \in Workers /\ work'.at = "idle" BY <1>1, <1>5, NoWorkTyped DEF RejectMap, TypeOK
  <2>2. TypeOK' BY <1>1, <1>5, <2>1, Retyped
    DEF RejectMap, TypeOK, FileStatus, textVars, artVars, sideVars
  <2> QED BY <2>1, <2>2 DEF TriesLeft, TypeInv
<1> QED BY <1>2, <1>3, <1>4, <1>5

LEMMA DaemonTypes == ASSUME TypeInv, DaemonStep PROVE TypeInv'
<1>1. TypeOK /\ 0 < Candidates BY Bounds DEF TypeInv, TypeOK
<1>2. CASE Dispatch
  <2>1. PendingScope \in Cycles BY <1>2 DEF Dispatch, PendingScope, Scope, Cycles
  <2>4. "start" \in Places /\ FALSE \in BOOLEAN BY DEF Places
  <2>2. work' \in Workers /\ work'.try = 0
    BY <1>1, <1>2, <2>1, <2>4, NoWorkTyped DEF Dispatch, TypeOK, Working, Workers
  <2>3. TypeOK'
    BY <1>1, <1>2, <2>2, Retyped DEF Dispatch, TypeOK, FileStatus, textVars, artVars, sideVars
  <2> QED BY <1>1, <1>2, <2>2, <2>3 DEF TriesLeft, TypeInv, Dispatch, Candidates
<1>3. CASE DispatchReindex
  <2>1. "index" \in Cycles BY DEF Cycles
  <2>4. "start" \in Places /\ FALSE \in BOOLEAN BY DEF Places
  <2>2. work' \in Workers /\ work'.try = 0
    BY <1>1, <1>3, <2>1, <2>4, NoWorkTyped DEF DispatchReindex, TypeOK, Working, Workers
  <2>3. TypeOK' BY <1>1, <1>3, <2>2, Retyped DEF DispatchReindex, TypeOK, textVars, artVars, sideVars
  <2> QED BY <1>1, <1>3, <2>2, <2>3 DEF TriesLeft, TypeInv, DispatchReindex, Candidates
<1>4. CASE Evict
  <2>1. audio' \in BOOLEAN BY <1>1, <1>4 DEF Evict, TypeOK
  <2>2. TypeOK' BY <1>1, <1>4, <2>1, Retyped DEF Evict, TypeOK, textVars, artVars
  <2> QED BY <1>4, <2>2 DEF TriesLeft, TypeInv, Evict, Candidates
<1>5. CASE Crash
  <2>1. work' \in Workers /\ work'.at = "crashed"
    BY <1>1, <1>5, MovesTo, "crashed" \in Places DEF Crash, Places
  <2>2. spent' \in Counters BY <1>1, <1>5, Counted DEF Crash
  <2>3. TypeOK' BY <1>1, <1>5, <2>1, <2>2, Retyped DEF Crash, TypeOK, textVars, artVars, sideVars
  <2> QED BY <2>1, <2>3 DEF TriesLeft, TypeInv
<1>6. CASE Recover
  <2>1. work' \in Workers /\ work'.at = "idle" BY <1>1, <1>6, NoWorkTyped DEF Recover, TypeOK
  <2>2. run' \in [Stages -> Rows]
    <3>1. ASSUME NEW s \in Stages, NEW new \in StageStatus PROVE [run[s] EXCEPT !.status = new] \in Rows
      BY <1>1 DEF TypeOK, Rows
    <3>2. "pending" \in StageStatus /\ "failed" \in StageStatus BY DEF StageStatus
    <3>3. ASSUME NEW s \in Stages PROVE run'[s] \in Rows
      <4>1. run'[s] \in {run[s], [run[s] EXCEPT !.status = "pending"], [run[s] EXCEPT !.status = "failed"]}
        BY <1>6 DEF Recover
      <4>2. run[s] \in Rows BY <1>1 DEF TypeOK
      <4> QED BY <3>1, <3>2, <4>1, <4>2
    <3>4. run' = [s \in Stages |-> run'[s]] BY <1>6 DEF Recover
    <3> QED BY <3>3, <3>4
  <2>3. TypeOK' BY <1>1, <1>6, <2>1, <2>2, Retyped
    DEF Recover, TypeOK, FileStatus, textVars, artVars, sideVars
  <2> QED BY <2>1, <2>3 DEF TriesLeft, TypeInv
<1>7. CASE RetryDue
  <2>1. TypeOK' BY <1>1, <1>7, Retyped DEF RetryDue, TypeOK, textVars, artVars, sideVars
  <2> QED BY <1>7, <2>1 DEF TriesLeft, TypeInv, RetryDue, Candidates
<1> QED BY <1>2, <1>3, <1>4, <1>5, <1>6, <1>7 DEF DaemonStep

LEMMA RequestTypes == ASSUME TypeOK, NEW kind, Requested(kind), CountRequest PROVE spent' \in Counters
BY Counted DEF Requested, CountRequest

LEMMA AskTypes ==
  ASSUME TypeOK, NEW kind \in RequestKinds, Ask(kind)
  PROVE  asked' \subseteq [kind : RequestKinds, status : FileStatus]
BY DEF TypeOK, Ask

\* A step of a user that is not the holder of the claim.
LEMMA UserTypes ==
  ASSUME TypeInv, setting' = setting, audio' \in BOOLEAN, evicting' = evicting, status' \in FileStatus,
         raw' = raw, canon' \in Texts, drafts' = drafts, note' \in NoteChoices,
         built' \in [{"mind_map", "outline", "index"} -> Lineages],
         run' \in [Stages -> Rows], waiting' \subseteq {"file", "map", "outline"},
         asked' \subseteq [kind : RequestKinds, status : FileStatus],
         work' = work, spent' \in Counters
  PROVE  TypeInv'
BY Retyped DEF TypeInv, TypeOK, TriesLeft, Candidates

LEMMA QueueTypes ==
  ASSUME TypeOK, NEW a \in asked, NEW target \in FileStatus, Queue(a, target)
  PROVE  /\ status' \in FileStatus /\ waiting' \subseteq {"file", "map", "outline"}
         /\ asked' \subseteq [kind : RequestKinds, status : FileStatus]
BY DEF TypeOK, Queue

LEMMA UsersTypes == ASSUME TypeInv, Users PROVE TypeInv'
<1>1. TypeOK BY DEF TypeInv
<1>2. /\ audio \in BOOLEAN /\ status \in FileStatus /\ canon \in Texts /\ note \in NoteChoices
      /\ built \in [{"mind_map", "outline", "index"} -> Lineages] /\ run \in [Stages -> Rows]
      /\ waiting \subseteq {"file", "map", "outline"} /\ spent \in Counters
      /\ asked \subseteq [kind : RequestKinds, status : FileStatus]
  BY <1>1 DEF TypeOK
<1>3. CASE EditTranscript
  <2> DEFINE n == spent.requests + 1  v == spent.versions + 1
  <2>1. n \in 0..RequestBound /\ v \in 0..MaxVersions
    BY <1>1, <1>2, <1>3, Bounds DEF EditTranscript, Requested, Counters, TypeOK
  <2>2. spent' = [spent EXCEPT !.requests = n, !.versions = v] BY <1>3 DEF EditTranscript
  <2>3. canon' = [text |-> v, kind |-> "user", base |-> raw.id, content |-> "speech"]
    BY <1>3 DEF EditTranscript, NewVersion
  <2> HIDE DEF n, v
  <2>4. spent' \in Counters /\ canon' \in Texts
    BY <1>1, <1>2, <2>1, <2>2, <2>3 DEF Counters, Texts, Raws, TypeOK
  <2>5. {"only"} \in Details BY DEF Details
  <2>6. run' \in [Stages -> Rows] BY <1>2, <1>3, <2>5, StaleTyped, FlaggedTyped DEF EditTranscript
  <2>7. built' \in [{"mind_map", "outline", "index"} -> Lineages]
    BY <1>1, <1>3, ChunksGo DEF EditTranscript
  <2> QED BY <1>2, <1>3, <2>4, <2>6, <2>7, UserTypes DEF EditTranscript, sideVars
<1>4. CASE RenameSpeaker
  <2>1. spent' \in Counters BY <1>1, <1>4, RequestTypes DEF RenameSpeaker
  <2>2. {"only"} \in Details BY DEF Details
  <2>3. run' \in [Stages -> Rows] BY <1>2, <1>4, <2>2, StaleTyped, FlaggedTyped DEF RenameSpeaker
  <2>4. built' \in [{"mind_map", "outline", "index"} -> Lineages]
    BY <1>1, <1>4, ChunksGo DEF RenameSpeaker
  <2> QED BY <1>2, <1>4, <2>1, <2>3, <2>4, UserTypes DEF RenameSpeaker, sideVars, textVars
<1>5. CASE RestoreNote
  <2>1. spent' \in Counters BY <1>1, <1>5, RequestTypes DEF RestoreNote
  <2>2. PICK n \in 1..Len(drafts) : /\ note' = [note EXCEPT !.live = n, !.chosen = TRUE]
                                    /\ run' = IF Mapped /\ note.mapped # n THEN Stale(run, {"mind_map"}) ELSE run
    BY <1>5 DEF RestoreNote
  <2>3. n \in 0..MaxNotes BY <1>1, <2>2, Bounds DEF TypeOK
  <2>4. note' \in NoteChoices BY <1>2, <2>2, <2>3 DEF NoteChoices
  <2>5. run' \in [Stages -> Rows] BY <1>2, <2>2, StaleTyped
  <2> QED BY <1>2, <1>5, <2>1, <2>4, <2>5, UserTypes DEF RestoreNote, sideVars, textVars
<1>6. CASE RebuildOutline
  <2>1. spent' \in Counters BY <1>1, <1>6, RequestTypes DEF RebuildOutline
  <2>2. {"only", "stale"} \in Details /\ "outline" \in Stages /\ "pending" \in StageStatus
    BY StagesAre DEF Details, StageStatus
  <2>3. run' \in [Stages -> Rows] BY <1>2, <1>6, <2>2, RowCloses DEF RebuildOutline
  <2>4. "outline" \in Cycles /\ "start" \in Places /\ FALSE \in BOOLEAN BY DEF Cycles, Places
  <2>7. NoWork \in Workers /\ NoWork.try = 0 BY <1>1, NoWorkTyped DEF TypeOK
  <2>8. ASSUME work' = Working("outline", FALSE, "start") PROVE work' \in Workers /\ work'.try = 0
    BY <2>4, <2>7, <2>8 DEF Working, Workers
  <2>5. work' \in Workers /\ work'.try = 0 BY <1>6, <2>7, <2>8 DEF RebuildOutline, ThreadFails
  <2>6. TypeOK' BY <1>1, <1>6, <2>1, <2>3, <2>5, Retyped
    DEF RebuildOutline, TypeOK, textVars, artVars, sideVars
  <2> QED BY <1>1, <1>6, <2>5, <2>6, Bounds DEF TriesLeft, TypeInv, RebuildOutline, Candidates, TypeOK
<1>7. CASE AskRecording
  <2>1. PICK kind \in PerRecording : Requested(kind) /\ Ask(kind) /\ audio' = (audio \/ NeedsAudio(kind))
    BY <1>7 DEF AskRecording
  <2>2. kind \in RequestKinds BY <2>1 DEF PerRecording, RequestKinds
  <2>3. spent' \in Counters BY <1>1, <1>7, <2>1, RequestTypes DEF AskRecording
  <2>4. asked' \subseteq [kind : RequestKinds, status : FileStatus] BY <1>1, <2>1, <2>2, AskTypes
  <2>5. audio' \in BOOLEAN BY <2>1, Zenon DEF NeedsAudio
  <2> QED BY <1>2, <1>7, <2>3, <2>4, <2>5, UserTypes DEF AskRecording, textVars, artVars
<1>8. CASE ClaimRequest
  <2>1. PICK a \in asked :
          /\ asked' = asked \ {a}
          /\ \/ UNCHANGED <<status, work>>
             \/ /\ status' = "processing"
                /\ work' = [Working(CASE a.kind = "notes" -> "derived" [] a.kind = "map" -> "mind_map"
                                      [] OTHER -> "full", a.kind = "force", "requested")
                            EXCEPT !.before = a.status]
    BY <1>8 DEF ClaimRequest
  <2>2. asked' \subseteq [kind : RequestKinds, status : FileStatus] /\ a.status \in FileStatus
    BY <1>2, <2>1
  <2>3. CASE UNCHANGED <<status, work>>
    BY <1>2, <1>8, <2>2, <2>3, UserTypes DEF ClaimRequest, textVars, artVars
  <2>4. CASE ~UNCHANGED <<status, work>>
    <3> DEFINE c == CASE a.kind = "notes" -> "derived" [] a.kind = "map" -> "mind_map" [] OTHER -> "full"
               f == a.kind = "force"
    <3>1. c \in Cycles /\ "requested" \in Places BY DEF Cycles, Places
    <3>2. f \in BOOLEAN OBVIOUS
    <3>3. status' = "processing" /\ work' = [Working(c, f, "requested") EXCEPT !.before = a.status]
      BY <2>1, <2>4
    <3> HIDE DEF c, f
    <3>4. Working(c, f, "requested") \in Workers /\ Working(c, f, "requested").try = 0
      BY <1>1, <3>1, <3>2, WorkingTyped DEF TypeOK
    <3>5. work' \in Workers /\ work'.try = 0 BY <2>2, <3>3, <3>4 DEF Workers
    <3>6. TypeOK'
      BY <1>1, <1>8, <2>2, <3>3, <3>5, Retyped DEF ClaimRequest, TypeOK, FileStatus, textVars, artVars
    <3> QED BY <1>1, <1>8, <3>5, <3>6, Bounds DEF TriesLeft, TypeInv, ClaimRequest, Candidates, TypeOK
  <2> QED BY <2>3, <2>4
<1>9. CASE AskLibrary
  <2>1. PICK kind \in {"resume_all", "force_all", "derived_all"} : Requested(kind) /\ Ask(kind)
    BY <1>9 DEF AskLibrary
  <2>2. kind \in RequestKinds BY <2>1 DEF RequestKinds
  <2>3. spent' \in Counters BY <1>1, <1>9, <2>1, RequestTypes DEF AskLibrary
  <2>4. asked' \subseteq [kind : RequestKinds, status : FileStatus] BY <1>1, <2>1, <2>2, AskTypes
  <2> QED BY <1>2, <1>9, <2>3, <2>4, UserTypes DEF AskLibrary, textVars, artVars
<1>10. "partial" \in FileStatus /\ "downloaded" \in FileStatus BY DEF FileStatus
<1>11. CASE QueueResume
  <2>1. PICK a \in asked, target \in {"partial", "downloaded"} : Queue(a, target)
    BY <1>11 DEF QueueResume
  <2> QED BY <1>1, <1>2, <1>10, <1>11, <2>1, QueueTypes, UserTypes DEF QueueResume, textVars, artVars
<1>12. CASE QueueForce
  <2>1. PICK a \in asked : Queue(a, "downloaded") BY <1>12 DEF QueueForce
  <2>2. run' \in [Stages -> Rows]
    <3>1. ASSUME NEW s \in Stages PROVE run'[s] \in Rows
      BY <1>2, <1>12 DEF QueueForce, Rows, StageStatus
    <3>2. run' = [s \in Stages |-> run'[s]] BY <1>12 DEF QueueForce
    <3> QED BY <3>1, <3>2
  <2> QED
    BY <1>1, <1>2, <1>10, <1>12, <2>1, <2>2, QueueTypes, UserTypes DEF QueueForce, textVars, artVars
<1>13. CASE QueueDerived
  <2>1. PICK a \in asked : Queue(a, "partial") BY <1>13 DEF QueueDerived
  <2>2. {"derived_only"} \in Details BY DEF Details
  <2>3. run' \in [Stages -> Rows] BY <1>2, <1>13, <2>2, StaleTyped, FlaggedTyped DEF QueueDerived
  <2> DEFINE m == work.moved \/ (work.stage \in Derived /\ work.at \in {"running", "persisted"})
  <2>4. work' = [work EXCEPT !.moved = m] BY <1>13 DEF QueueDerived
  <2>5. m \in BOOLEAN BY <1>1, Zenon DEF TypeOK, Workers
  <2> HIDE DEF m
  <2>6. work' \in Workers /\ work'.at = work.at /\ work'.try = work.try
    BY <1>1, <2>4, <2>5 DEF Workers, TypeOK
  <2>7. TypeOK' BY <1>1, <1>2, <1>10, <1>13, <2>1, <2>3, <2>6, QueueTypes, Retyped
    DEF QueueDerived, TypeOK, textVars, artVars
  <2> QED BY <1>13, <2>6, <2>7 DEF TriesLeft, TypeInv, QueueDerived, Candidates
<1> QED BY <1>3, <1>4, <1>5, <1>6, <1>7, <1>8, <1>9, <1>11, <1>12, <1>13 DEF Users

LEMMA InitTypes == Init => TypeInv
<1> SUFFICES ASSUME Init PROVE TypeInv OBVIOUS
<1>1. setting \in Settings /\ 0 \in 0..MaxVersions /\ 0 \in 0..MaxNotes /\ MaxNotes \in Nat /\ 0 < Candidates
  BY Bounds DEF Init
<1>2. raw \in Raws
  <2>1. (CHOOSE c \in Contents : TRUE) \in Contents BY <1>1, Bounds
  <2> QED BY <1>1, <2>1 DEF Init, Raws
<1>3. canon \in Texts /\ note \in NoteChoices BY <1>1 DEF Init, Texts, NoteChoices
<1>4. spent \in Counters BY <1>1, Bounds DEF Init, Counters
<1>5. work \in Workers /\ work.at = "idle" BY <1>1, NoWorkTyped DEF Init
<1>6. run \in [Stages -> Rows]
  <2>1. [status |-> "none", detail |-> {}] \in Rows BY DEF Rows, StageStatus, Details
  <2> QED BY <2>1 DEF Init
<1>7. built \in [{"mind_map", "outline", "index"} -> Lineages] BY <1>1, NoLineageTyped DEF Init
<1>8. drafts \in Seq(Lineages) /\ Len(drafts) <= MaxNotes BY <1>1 DEF Init
<1> QED
  BY <1>1, <1>2, <1>3, <1>4, <1>5, <1>6, <1>7, <1>8 DEF Init, TypeInv, TypeOK, TriesLeft, FileStatus

LEMMA NextTypes == TypeInv /\ [Next]_vars => TypeInv'
<1> SUFFICES ASSUME TypeInv, [Next]_vars PROVE TypeInv' OBVIOUS
<1>1. CASE Work
  BY <1>1, EnterTypes, StepTypes, PersistTypes, SpecialTypes, EndTypes, MarkTypes DEF Work
<1>2. CASE DaemonStep BY <1>2, DaemonTypes
<1>3. CASE Users BY <1>3, UsersTypes
<1>4. CASE UNCHANGED vars
  BY <1>4, Retyped DEF vars, textVars, artVars, sideVars, TypeInv, TypeOK, TriesLeft, Candidates
<1> QED BY <1>1, <1>2, <1>3, <1>4 DEF Next

\* Every row and every worker has the fields and values its code can give it, whatever
\* the library and its bounds: versions, notes, attempts and faults stay within theirs.
\* (pipeline.py _begin_stage, providers/fallback.py candidate_snapshots)
THEOREM TypeCorrect == Spec => []TypeOK
<1>1. Init => TypeInv BY InitTypes
<1>2. TypeInv /\ [Next]_vars => TypeInv' BY NextTypes
<1>3. TypeInv => TypeOK BY DEF TypeInv
<1> QED BY <1>1, <1>2, <1>3, PTL DEF Spec

-----------------------------------------------------------------------------
(***************************************************************************)
(* What the holder of the claim relies on, and what the artifacts are: the *)
(* inductive invariant of a library whose users force nothing.             *)
(***************************************************************************)

\* No one asks for a forced reprocess.  One that dies after it stored its new text
\* leaves the note of the old one unmarked, and the cycle that follows reuses it.
NoForce == \A s \in Settings : "force" \notin s.requests

AtWork == work.at \in {"stage", "running", "persisted"}

\* Each cycle stays within the stages it runs.
WorkFits ==
  /\ AtWork \/ work.at = "closing" => (Narrow => work.stage = work.cycle)
  /\ work.at \in {"stage", "persisted", "closing"} => work.cycle # "index"
  /\ AtWork /\ work.cycle = "index" => work.stage = "index"
  /\ AtWork /\ work.cycle = "derived" => work.stage \in Derived \cup {"correct"}
  /\ work.force = FALSE

\* Polishing runs only where no person edited.
PolishIsAllowed == work.at = "running" /\ work.stage = "correct" => canon.kind # "user"

\* A derived stage works on the transcript there is and a map on the live note.
InputsAreRead ==
  /\ AtWork /\ work.stage \in Derived => work.lineage = Lineage
  /\ work.at = "running" /\ work.stage = "mind_map" => work.note = note.live
  /\ work.at = "stage" /\ work.cycle = "mind_map" => work.note = note.live

\* What a stage stored is the live artifact until its run is closed.
OutputIsStored ==
  work.at = "persisted" =>
    /\ work.stage \in {"mind_map", "outline", "index"} => built[work.stage] = work.lineage
    /\ work.stage = "mind_map" => note.mapped = note.live
    /\ work.stage = "summarize" => note.live # 0 /\ drafts[note.live] = work.lineage

\* ASR runs on a recording without text, once.
WorkHears ==
  /\ work.at = "running" /\ work.stage = "transcribe" => raw.id = 0
  /\ raw.id = 0 => /\ work.at \notin {"idle", "crashed"} => work.cycle = "full"
                   /\ AtWork \/ work.at = "closing" => work.stage = "transcribe" /\ work.at # "persisted"

\* Notes, maps and outlines are attempted where they are wanted, about speech.
WorkIsWanted ==
  /\ AtWork /\ work.stage = "summarize" /\ work.at # "stage"
       => "summarize" \in Enabled /\ canon.content = "speech"
  /\ AtWork /\ work.stage = "mind_map" /\ (work.at # "stage" \/ Narrow) => "mind_map" \in Enabled
  /\ AtWork /\ work.stage \in {"mind_map", "outline", "index"} /\ work.cycle \in {"full", "derived"}
       => canon.content = "speech"
  /\ AtWork /\ work.cycle = "mind_map" => note.live # 0

WorkInv == /\ WorkFits /\ PolishIsAllowed /\ InputsAreRead /\ OutputIsStored
           /\ WorkHears /\ WorkIsWanted

\* Before the first transcript nothing was made or asked for that needs one.
BlankIsBlank ==
  raw.id = 0 =>
    /\ canon.kind = "raw" /\ ~raw.speakers /\ note.live = 0 /\ drafts = <<>>
    /\ \A s \in {"mind_map", "outline", "index"} : built[s] = NoLineage
    /\ \A s \in Stages : run[s].detail \subseteq {"stale"}

\* Only an edit says something else than what was heard.
HeardIsKept ==
  raw.id # 0 => canon.content = IF canon.kind = "user" THEN "speech" ELSE raw.content

NotesAreOfSpeech ==
  /\ canon.content # "speech" /\ raw.id # 0 => note.live = 0 /\ ~Mapped
  /\ note.live # 0 => "summarize" \in Enabled
  /\ Mapped => "mind_map" \in Enabled

NoteIsCurrent ==
  ~Has("summarize", "stale") /\ note.live # 0 /\ ~note.chosen
    => drafts[note.live].text = canon.text

MapIsCurrent ==
  ~Has("mind_map", "stale") /\ Mapped
    => built["mind_map"].text = canon.text /\ note.mapped = note.live

\* The outline of a library that stopped making outlines is left as it is.
OutlineIsCurrent ==
  /\ ~Has("outline", "stale") /\ built["outline"] # NoLineage
  /\ run["outline"].status = "completed" \/ ("outline" \in Enabled /\ canon.content = "speech")
  => built["outline"].text = canon.text

ChunksAreCurrent == built["index"] # NoLineage => built["index"].text = canon.text

DataInv == /\ BlankIsBlank /\ HeardIsKept /\ NotesAreOfSpeech
           /\ NoteIsCurrent /\ MapIsCurrent /\ OutlineIsCurrent /\ ChunksAreCurrent

AskedFits ==
  \A a \in asked : /\ a.kind # "force"
                   /\ raw.id = 0 => a.kind \notin {"notes", "map", "derived_all"}

CycleInv == TypeInv /\ WorkInv /\ DataInv /\ AskedFits

-----------------------------------------------------------------------------
\* Steps that leave texts and artifacts alone and drop no mark.
KeepsMarks ==
  /\ \A s \in Stages : Has(s, "stale") => "stale" \in run'[s].detail
  /\ run'["outline"].status = "completed" => run["outline"].status = "completed"
  /\ raw.id = 0 => \A s \in Stages : run'[s].detail \subseteq {"stale"}

SameData == UNCHANGED <<setting, textVars, artVars>>

\* Who touches neither text nor artifact keeps what is said of them.
LEMMA DataKept == ASSUME DataInv, SameData, KeepsMarks PROVE DataInv'
<1>1. /\ raw' = raw /\ canon' = canon /\ drafts' = drafts /\ note' = note /\ built' = built
      /\ Enabled' = Enabled /\ Mapped' = Mapped
  BY DEF SameData, textVars, artVars, Enabled, Mapped
<1>2. "summarize" \in Stages /\ "mind_map" \in Stages /\ "outline" \in Stages BY StagesAre
<1>3. BlankIsBlank' BY <1>1 DEF DataInv, BlankIsBlank, KeepsMarks
<1>4. HeardIsKept' /\ NotesAreOfSpeech' /\ ChunksAreCurrent'
  BY <1>1 DEF DataInv, HeardIsKept, NotesAreOfSpeech, ChunksAreCurrent
<1>5. NoteIsCurrent' BY <1>1, <1>2 DEF DataInv, NoteIsCurrent, KeepsMarks, Has
<1>6. MapIsCurrent' BY <1>1, <1>2 DEF DataInv, MapIsCurrent, KeepsMarks, Has
<1>7. OutlineIsCurrent' BY <1>1, <1>2 DEF DataInv, OutlineIsCurrent, KeepsMarks, Has
<1> QED BY <1>3, <1>4, <1>5, <1>6, <1>7 DEF DataInv

LEMMA MarksKept == ASSUME run' = run, DataInv PROVE KeepsMarks
BY DEF KeepsMarks, Has, DataInv, BlankIsBlank

LEMMA AskedKept == ASSUME AskedFits, asked' \subseteq asked, raw'.id = 0 => raw.id = 0 PROVE AskedFits'
BY DEF AskedFits

LEMMA WorkKept ==
  ASSUME WorkInv, SameData, work' = work
  PROVE  WorkInv'
BY
  DEF WorkInv, SameData, textVars, artVars, WorkFits, AtWork, Narrow, PolishIsAllowed, InputsAreRead,
    Lineage,
       OutputIsStored, WorkHears, WorkIsWanted, Enabled

\* A worker that is not at a stage relies on nothing.
LEMMA WorkAway ==
  ASSUME work'.at \in {"idle", "requested", "start", "closing", "finished", "crashed"}, work'.force = FALSE,
         work'.at = "closing" => /\ Narrow' => work'.stage = work'.cycle
                                 /\ work'.cycle # "index" /\ raw'.id # 0,
         raw'.id = 0 => work'.at \in {"idle", "crashed"} \/ work'.cycle = "full"
  PROVE  WorkInv'
BY
  DEF WorkInv, WorkFits, AtWork, PolishIsAllowed, InputsAreRead, OutputIsStored, WorkHears, WorkIsWanted

LEMMA LeavingFields ==
  ASSUME TypeOK, NEW s \in Steps, NEW errors, work' = Leaving(s, errors)
  PROVE  /\ work'.at = IF Narrow \/ s = "index" \/ (s = "correct" /\ errors # {}) THEN "closing" ELSE "stage"
         /\ work'.stage = IF Narrow \/ s = "index" THEN s ELSE NextStep(s)
         /\ work'.lineage = IF s = "correct" THEN Lineage ELSE work.lineage
         /\ work'.cycle = work.cycle /\ work'.force = work.force /\ work'.note = work.note
BY DEF TypeOK, Workers, Leaving

\* A stage is left with what the next one relies on.
LEMMA LeavingKeeps ==
  ASSUME TypeOK, WorkInv, AtWork, work.cycle # "index", raw.id # 0, NEW errors, work' = Leaving(work.stage, errors),
         work.stage = "summarize" => canon.content = "speech",
         setting' = setting, raw' = raw, note' = note, canon'.content = canon.content,
         work.stage # "vocabulary" => canon' = canon
  PROVE  WorkInv'
<1> DEFINE s == work.stage
<1>1. s \in Steps BY TypeFacts
<1>2. /\ work'.at = IF Narrow \/ s = "index" \/ (s = "correct" /\ errors # {}) THEN "closing" ELSE "stage"
      /\ work'.stage = IF Narrow \/ s = "index" THEN s ELSE NextStep(s)
      /\ work'.lineage = IF s = "correct" THEN Lineage ELSE work.lineage
      /\ work'.cycle = work.cycle /\ work'.force = work.force /\ work'.note = work.note
  BY <1>1, LeavingFields
<1>3. Narrow' = Narrow BY <1>2 DEF Narrow
<1>4. WorkFits'
  BY <1>1, <1>2, <1>3, NextSteps, StepsAre DEF WorkInv, WorkFits, AtWork, Narrow, Derived
<1>5. s # "vocabulary" => Lineage' = Lineage BY DEF Lineage
<1>6. work'.at \in {"stage", "closing"} BY <1>2
<1>7. PolishIsAllowed' /\ OutputIsStored' BY <1>6 DEF PolishIsAllowed, OutputIsStored
<1>8. InputsAreRead'
  BY <1>1, <1>2, <1>5, NextSteps, StepsAre DEF WorkInv, InputsAreRead, WorkFits, AtWork, Narrow, Derived
<1>9. WorkHears' BY <1>6 DEF WorkHears
<1>10. WorkIsWanted'
  BY <1>1, <1>2, <1>3, NextSteps, StepsAre DEF WorkInv, WorkIsWanted, WorkFits, AtWork, Narrow
<1> QED BY <1>4, <1>7, <1>8, <1>9, <1>10 DEF WorkInv

-----------------------------------------------------------------------------
\* Entering a cycle.
LEMMA EnterKeeps == ASSUME CycleInv, TypeInv', Enter PROVE CycleInv'
<1>1. TypeOK /\ WorkInv /\ DataInv /\ AskedFits BY DEF CycleInv, TypeInv
<1>2. work.force = FALSE BY <1>1 DEF WorkInv, WorkFits
<1>3. SameData
  BY
    DEF Enter, EnterFull, EnterDerived, EnterMap, RefuseMap, EnterOutline, RefuseOutline, EnterReindex,
      SameData
<1>4. AskedFits'
  <2>1. asked' = asked
    BY
      DEF Enter, EnterFull, EnterDerived, EnterMap, RefuseMap, EnterOutline, RefuseOutline,
        EnterReindex, sideVars
  <2> QED BY <1>1, <1>3, <2>1, AskedKept DEF SameData, textVars
<1>5. raw.id = 0 => work.cycle = "full"
  BY <1>1
    DEF Enter, EnterFull, EnterDerived, EnterMap, RefuseMap, EnterOutline, RefuseOutline, EnterReindex,
              Starting, WorkInv, WorkHears
<1>6. raw' = raw /\ canon' = canon /\ note' = note /\ Enabled' = Enabled /\ Lineage' = Lineage /\ built' = built
      /\ drafts' = drafts
  BY <1>3 DEF SameData, textVars, artVars, Enabled, Lineage
<1>7. "outline" \in Stages /\ "index" \in Stages /\ "mind_map" \in Stages BY StagesAre
<1>8. ASSUME WorkInv', KeepsMarks PROVE CycleInv'
  BY <1>1, <1>3, <1>4, <1>8, DataKept DEF CycleInv
<1>9. CASE EnterFull
  <2>1. /\ work'.at = "stage" /\ work'.stage = "transcribe" /\ work'.cycle = "full" /\ work'.force = FALSE
    BY <1>1, <1>2, <1>9 DEF EnterFull, Starting, TypeOK, Workers
  <2>2. WorkInv'
    BY <2>1
      DEF WorkInv, WorkFits, AtWork, Narrow, PolishIsAllowed, InputsAreRead, OutputIsStored, WorkHears,
                WorkIsWanted, Derived
  <2> QED BY <1>1, <1>8, <1>9, <2>2, MarksKept DEF EnterFull
<1>10. CASE EnterDerived
  <2>1. /\ work'.at = "stage" /\ work'.stage \in {"correct", "summarize"} /\ work'.cycle = "derived"
        /\ work'.force = FALSE /\ work'.lineage = Lineage
    BY <1>1, <1>2, <1>10 DEF EnterDerived, Starting, TypeOK, Workers
  <2>2. raw.id # 0 BY <1>5, <1>10 DEF EnterDerived, Starting
  <2>3. WorkInv'
    BY <1>6, <2>1, <2>2
      DEF WorkInv, WorkFits, AtWork, Narrow, PolishIsAllowed, InputsAreRead, OutputIsStored,
                            WorkHears, WorkIsWanted, Derived
  <2> QED BY <1>1, <1>8, <1>10, <2>3, MarksKept DEF EnterDerived
<1>11. CASE EnterMap
  <2>1. /\ work'.at = "stage" /\ work'.stage = "mind_map" /\ work'.cycle = "mind_map"
        /\ work'.force = FALSE /\ work'.lineage = Lineage /\ work'.note = note.live
        /\ note.live # 0 /\ "mind_map" \in Enabled
    BY <1>1, <1>2, <1>11 DEF EnterMap, MapIsRebuildable, Starting, TypeOK, Workers
  <2>2. raw.id # 0 BY <1>5, <1>11 DEF EnterMap, Starting
  <2>3. WorkInv'
    BY <1>6, <2>1, <2>2
      DEF WorkInv, WorkFits, AtWork, Narrow, PolishIsAllowed, InputsAreRead, OutputIsStored,
                            WorkHears, WorkIsWanted, Derived
  <2> QED BY <1>1, <1>8, <1>11, <2>3, MarksKept DEF EnterMap
<1>12. CASE RefuseMap
  <2>1. work'.at = "finished" /\ work'.cycle = work.cycle /\ work'.force = FALSE
    BY <1>1, <1>2, <1>12 DEF RefuseMap, TypeOK, Workers
  <2>2. WorkInv' BY <1>5, <1>6, <2>1, WorkAway
  <2>3. KeepsMarks
    <3>1. run' = run \/ run' = [run EXCEPT !["mind_map"].status = "failed"] BY <1>12 DEF RefuseMap
    <3>2. \A s \in Stages : run'[s].detail = run[s].detail BY <1>1, <3>1 DEF TypeOK, Rows
    <3>3. run'["outline"] = run["outline"] BY <1>1, <1>7, <3>1 DEF TypeOK
    <3> QED BY <1>1, <3>2, <3>3 DEF KeepsMarks, Has, DataInv, BlankIsBlank
  <2> QED BY <1>8, <2>2, <2>3
<1>13. CASE EnterOutline
  <2>1. /\ work'.at = "stage" /\ work'.stage = "outline" /\ work'.cycle = "outline"
        /\ work'.force = FALSE /\ work'.lineage = Lineage
    BY <1>1, <1>2, <1>13 DEF EnterOutline, Starting, TypeOK, Workers
  <2>2. raw.id # 0 BY <1>5, <1>13 DEF EnterOutline, Starting
  <2>3. WorkInv'
    BY <1>6, <2>1, <2>2
      DEF WorkInv, WorkFits, AtWork, Narrow, PolishIsAllowed, InputsAreRead, OutputIsStored,
                            WorkHears, WorkIsWanted, Derived
  <2>4. KeepsMarks BY <1>1, <1>7, <1>13, <2>2 DEF EnterOutline, KeepsMarks, Has, TypeOK
  <2> QED BY <1>8, <2>3, <2>4
<1>14. CASE RefuseOutline
  <2>1. work'.at = "finished" /\ work'.cycle = work.cycle /\ work'.force = FALSE
    BY <1>1, <1>2, <1>14 DEF RefuseOutline, TypeOK, Workers
  <2>2. WorkInv' BY <1>5, <1>6, <2>1, WorkAway
  <2>3. raw.id # 0 BY <1>5, <1>14 DEF RefuseOutline, Starting
  <2>4. KeepsMarks BY <1>1, <1>7, <1>14, <2>3 DEF RefuseOutline, KeepsMarks, Has, TypeOK
  <2> QED BY <1>8, <2>2, <2>4
<1>15. CASE EnterReindex
  <2>1. /\ work'.at = "running" /\ work'.stage = "index" /\ work'.cycle = "index"
        /\ work'.force = FALSE /\ work'.lineage = Lineage
    BY <1>1, <1>2, <1>15 DEF EnterReindex, Starting, TypeOK, Workers
  <2>2. raw.id # 0 BY <1>5, <1>15 DEF EnterReindex, Starting
  <2>3. WorkInv'
    BY <1>6, <2>1, <2>2
      DEF WorkInv, WorkFits, AtWork, Narrow, PolishIsAllowed, InputsAreRead, OutputIsStored,
                            WorkHears, WorkIsWanted, Derived
  <2>4. KeepsMarks BY <1>1, <1>7, <1>15, <2>2 DEF EnterReindex, KeepsMarks, Has, TypeOK
  <2> QED BY <1>8, <2>3, <2>4
<1> QED BY <1>9, <1>10, <1>11, <1>12, <1>13, <1>14, <1>15 DEF Enter

-----------------------------------------------------------------------------
\* Failed runs keep their marks.
LEMMA FailedKeeps ==
  ASSUME TypeOK, DataInv, NEW s \in Stages,
         run' = Failed(s) \/ run' = [run EXCEPT ![s].status = "degraded"]
  PROVE  KeepsMarks
<1>1. \A r \in Stages : run'[r].detail = run[r].detail BY DEF Failed, TypeOK, Rows
<1>2. run'["outline"].status = "completed" => run["outline"].status = "completed"
  BY StagesAre DEF Failed, TypeOK, Rows
<1> QED BY <1>1, <1>2 DEF KeepsMarks, Has, DataInv, BlankIsBlank

\* A run is closed without its mark where the artifact is current or there is none.
LEMMA ClosedKeeps ==
  ASSUME TypeOK, DataInv, SameData, NEW s \in Stages, NEW new, Close(s, new),
         s = "summarize" => NoteIsCurrent',
         s = "mind_map" => MapIsCurrent',
         s = "outline" => OutlineIsCurrent'
  PROVE  DataInv'
<1>1. /\ raw' = raw /\ canon' = canon /\ drafts' = drafts /\ note' = note /\ built' = built
      /\ Enabled' = Enabled /\ Mapped' = Mapped
  BY DEF SameData, textVars, artVars, Enabled, Mapped
<1>2. \A r \in Stages : run'[r] = IF r = s THEN [status |-> new, detail |-> {}] ELSE run[r]
  BY DEF Close, TypeOK
<1>3. "summarize" \in Stages /\ "mind_map" \in Stages /\ "outline" \in Stages BY StagesAre
<1>4. BlankIsBlank' BY <1>1, <1>2 DEF DataInv, BlankIsBlank
<1>5. HeardIsKept' /\ NotesAreOfSpeech' /\ ChunksAreCurrent'
  BY <1>1 DEF DataInv, HeardIsKept, NotesAreOfSpeech, ChunksAreCurrent
<1>6. s # "summarize" => NoteIsCurrent' BY <1>1, <1>2, <1>3 DEF DataInv, NoteIsCurrent, Has
<1>7. s # "mind_map" => MapIsCurrent' BY <1>1, <1>2, <1>3 DEF DataInv, MapIsCurrent, Has
<1>8. s # "outline" => OutlineIsCurrent' BY <1>1, <1>2, <1>3 DEF DataInv, OutlineIsCurrent, Has
<1> QED BY <1>4, <1>5, <1>6, <1>7, <1>8 DEF DataInv

\* The steps of a stage.
LEMMA StepKeeps == ASSUME CycleInv, TypeInv', NEW s \in Stages, Stage(s) PROVE CycleInv'
<1>1. TypeOK /\ WorkInv /\ DataInv /\ AskedFits BY DEF CycleInv, TypeInv
<1>2. /\ AtWork /\ work.stage = s /\ work.cycle # "index"
  BY <1>1
    DEF Stage, SkipStage, ReuseStage, BeginStage, FinishStage, TryNext, FailStage, FailCycle, At,
      Attempted,
              AtWork, WorkInv, WorkFits
<1>3. SameData
  BY DEF Stage, SkipStage, ReuseStage, BeginStage, FinishStage, TryNext, FailStage, FailCycle, SameData
<1>4. AskedFits'
  <2>1. asked' = asked
    BY
      DEF Stage, SkipStage, ReuseStage, BeginStage, FinishStage, TryNext, FailStage, FailCycle, sideVars
  <2> QED BY <1>1, <1>3, <2>1, AskedKept DEF SameData, textVars
<1>5. raw' = raw /\ canon' = canon /\ note' = note /\ Enabled' = Enabled /\ Lineage' = Lineage /\ built' = built
      /\ drafts' = drafts /\ setting' = setting /\ Mapped' = Mapped
  BY <1>3 DEF SameData, textVars, artVars, Enabled, Lineage, Mapped
<1>6. ASSUME WorkInv', KeepsMarks PROVE CycleInv'
  BY <1>1, <1>3, <1>4, <1>6, DataKept DEF CycleInv
<1>7. ASSUME WorkInv', DataInv' PROVE CycleInv' BY <1>4, <1>7 DEF CycleInv
<1>8. "transcribe" \in Enabled BY <1>1, Bounds DEF TypeOK
<1>9. ASSUME NEW e, work' = Leaving(s, e), raw.id # 0, s = "summarize" => canon.content = "speech" PROVE WorkInv'
  BY <1>1, <1>2, <1>5, <1>9, LeavingKeeps
<1>10. raw.id = 0 => s = "transcribe" /\ work.at # "persisted" BY <1>1, <1>2 DEF WorkInv, WorkHears
<1>11. Narrow => s = work.cycle BY <1>1, <1>2 DEF WorkInv, WorkFits
<1>12. /\ run["outline"] \in Rows /\ run["summarize"] \in Rows /\ run["mind_map"] \in Rows
  BY <1>1, StagesAre DEF TypeOK
<1>13. CASE SkipStage(s)
  <2>1. s # "transcribe" BY <1>8, <1>13 DEF SkipStage, Skippable
  <2>2. raw.id # 0 BY <1>10, <2>1
  <2>3. s = "summarize" => canon.content = "speech" BY <1>13 DEF SkipStage, Held
  <2>4. WorkInv' BY <1>9, <1>13, <2>2, <2>3 DEF SkipStage
  <2>5. s \in {"summarize", "mind_map", "outline"} => s \notin Enabled BY <1>13 DEF SkipStage, Skippable
  <2>6. s = "summarize" => NoteIsCurrent'
    BY <1>1, <1>5, <2>5 DEF NoteIsCurrent, DataInv, NotesAreOfSpeech
  <2>7. s = "mind_map" => MapIsCurrent' BY <1>1, <1>5, <2>5 DEF MapIsCurrent, DataInv, NotesAreOfSpeech
  <2>8. s = "outline" => OutlineIsCurrent'
    <3>1. s = "outline" => run'["outline"].status = "skipped"
      BY <1>1, <1>13 DEF SkipStage, Close, TypeOK
    <3> QED BY <1>5, <2>5, <3>1 DEF OutlineIsCurrent
  <2>9. DataInv' BY <1>1, <1>3, <1>13, <2>6, <2>7, <2>8, ClosedKeeps DEF SkipStage
  <2> QED BY <1>7, <2>4, <2>9
<1>14. CASE ReuseStage(s)
  <2>1. raw.id # 0 BY <1>10, <1>14 DEF ReuseStage, Reusable
  <2>2. s = "summarize" => canon.content = "speech" BY <1>11, <1>14 DEF ReuseStage, Held, Narrow
  <2>3. WorkInv' BY <1>9, <1>14, <2>1, <2>2 DEF ReuseStage
  <2>4. ~Narrow \/ s = "diarize" BY <1>14 DEF ReuseStage, Reusable
  <2>5. s \in {"summarize", "mind_map", "outline"} => ~Has(s, "stale") BY <1>14 DEF ReuseStage, Reusable
  <2>6. s = "summarize" => NoteIsCurrent' BY <1>1, <1>5, <2>5 DEF NoteIsCurrent, DataInv
  <2>7. s = "mind_map" => MapIsCurrent' BY <1>1, <1>5, <2>5 DEF MapIsCurrent, DataInv
  <2>8. s = "outline" => OutlineIsCurrent'
    <3>1. s = "outline" => "outline" \in Enabled BY <1>14 DEF ReuseStage, Skippable
    <3>2. s = "outline" => work.cycle \in {"full", "derived"}
      BY <1>1, <1>2, <2>4, TypeFacts DEF Narrow, Cycles
    <3>3. s = "outline" => canon.content = "speech"
      BY <1>1, <1>2, <3>2 DEF WorkInv, WorkIsWanted
    <3> QED BY <1>1, <1>5, <2>5, <3>1, <3>3 DEF OutlineIsCurrent, DataInv
  <2>9. DataInv' BY <1>1, <1>3, <1>14, <2>6, <2>7, <2>8, ClosedKeeps DEF ReuseStage
  <2> QED BY <1>7, <2>3, <2>9
<1>15. CASE BeginStage(s)
  <2>1. /\ work'.at = "running" /\ work'.stage = s /\ work'.cycle = work.cycle /\ work'.force = FALSE
        /\ work'.lineage = work.lineage
        /\ work'.note = IF s = "mind_map" /\ ~Narrow THEN note.live ELSE work.note
    BY <1>1, <1>2, <1>15 DEF BeginStage, TypeOK, Workers, WorkInv, WorkFits
  <2>2. work.at = "stage" /\ (Narrow \/ ~Skippable(s)) /\ ~Held(s) /\ (s # "align" => ~Reusable(s))
    BY <1>15 DEF BeginStage, At
  <2>3. Narrow' = Narrow BY <2>1 DEF Narrow
  <2>4. s = "transcribe" => raw.id = 0 BY <1>1, <1>11, <2>2 DEF Reusable, WorkInv, WorkFits, Narrow
  <2>5. s = "correct" => canon.kind # "user" BY <1>11, <2>2 DEF Skippable, Narrow
  <2>6. s = "summarize" => "summarize" \in Enabled /\ canon.content = "speech"
    BY <1>11, <2>2 DEF Skippable, Held, Narrow
  <2>7. s = "mind_map" => "mind_map" \in Enabled
    BY <1>1, <1>2, <2>2 DEF Skippable, WorkInv, WorkIsWanted
  <2>8. WorkFits' /\ PolishIsAllowed' /\ OutputIsStored'
    BY <1>1, <1>2, <1>5, <2>1, <2>3, <2>5
    DEF WorkInv, WorkFits, AtWork, PolishIsAllowed, OutputIsStored
  <2>9. InputsAreRead'
    BY <1>1, <1>2, <1>5, <1>11, <2>1, <2>2 DEF WorkInv, AtWork, InputsAreRead, Narrow
  <2>10. WorkHears' /\ WorkIsWanted'
    BY <1>1, <1>2, <1>5, <2>1, <2>3, <2>4, <2>6, <2>7 DEF WorkInv, AtWork, WorkHears, WorkIsWanted
  <2>11. run' = [run EXCEPT ![s] = [status |-> "running", detail |->
              IF Has(s, "stale") THEN @.detail
              ELSE IF s = "outline" THEN @.detail \cap {"only"} ELSE {}]]
    BY <1>15 DEF BeginStage
  <2>12. KeepsMarks
    BY <1>1, <1>10, <2>11 DEF KeepsMarks, Has, TypeOK, DataInv, BlankIsBlank
  <2> QED BY <1>6, <2>8, <2>9, <2>10, <2>12 DEF WorkInv
<1>16. CASE FinishStage(s)
  <2>1. work.at = "persisted" /\ raw.id # 0 BY <1>10, <1>16 DEF FinishStage
  <2>2. s = "summarize" => canon.content = "speech" BY <1>1, <1>2, <2>1 DEF WorkInv, WorkIsWanted
  <2>3. WorkInv' BY <1>9, <1>16, <2>1, <2>2 DEF FinishStage
  <2>4. s \in Derived => work.lineage = Lineage BY <1>1, <1>2 DEF WorkInv, InputsAreRead
  <2>5. Lineage.text = canon.text BY DEF Lineage
  <2>6. s = "summarize" => NoteIsCurrent'
    BY <1>1, <1>2, <1>5, <2>1, <2>4, <2>5 DEF NoteIsCurrent, WorkInv, OutputIsStored, Derived
  <2>7. s = "mind_map" => MapIsCurrent'
    BY <1>1, <1>2, <1>5, <2>1, <2>4, <2>5 DEF MapIsCurrent, WorkInv, OutputIsStored, Derived
  <2>8. s = "outline" => OutlineIsCurrent'
    BY <1>1, <1>2, <1>5, <2>1, <2>4, <2>5 DEF OutlineIsCurrent, WorkInv, OutputIsStored, Derived
  <2>9. DataInv' BY <1>1, <1>3, <1>16, <2>6, <2>7, <2>8, ClosedKeeps DEF FinishStage
  <2> QED BY <1>7, <2>3, <2>9
<1>17. CASE TryNext(s)
  <2>1. work.at = "running" BY <1>17 DEF TryNext, Attempted
  <2>2. /\ work'.at = "stage" /\ work'.stage = s /\ work'.cycle = work.cycle /\ work'.force = work.force
        /\ work'.lineage = work.lineage /\ work'.note = work.note
    BY <1>1, <1>2, <1>17 DEF TryNext, TypeOK, Workers
  <2>3. Narrow' = Narrow BY <2>2 DEF Narrow
  <2>4. WorkInv'
    BY <1>1, <1>2, <1>5, <1>11, <2>1, <2>2, <2>3
      DEF WorkInv, WorkFits, AtWork, PolishIsAllowed, InputsAreRead,
       OutputIsStored, WorkHears, WorkIsWanted, Narrow
  <2>5. KeepsMarks BY <1>1, <1>17, FailedKeeps DEF TryNext
  <2> QED BY <1>6, <2>4, <2>5
<1>18. CASE FailStage(s)
  <2>1. raw.id # 0 /\ work.at # "stage" BY <1>10, <1>18 DEF FailStage, Attempted
  <2>2. s = "summarize" => canon.content = "speech" BY <1>1, <1>2, <2>1 DEF WorkInv, WorkIsWanted
  <2>3. WorkInv'
    <3>1. PICK e : work' = Leaving(s, e) BY <1>18 DEF FailStage
    <3> QED BY <1>9, <2>1, <2>2, <3>1
  <2>4. CASE Close(s, "degraded") /\ s = "align"
    <3>1. DataInv' BY <1>1, <1>3, <2>4, ClosedKeeps
    <3> QED BY <1>7, <2>3, <3>1
  <2>5. CASE run' = Failed(s) \/ run' = [run EXCEPT ![s].status = "degraded"]
    BY <1>1, <1>6, <2>3, <2>5, FailedKeeps
  <2> QED BY <1>18, <2>4, <2>5 DEF FailStage
<1>19. CASE FailCycle(s)
  <2>1. work'.at = "finished" /\ work'.cycle = work.cycle /\ work'.force = FALSE
    BY <1>1, <1>19 DEF FailCycle, TypeOK, Workers, WorkInv, WorkFits
  <2>2. raw'.id = 0 => work'.cycle = "full"
    BY <1>1, <1>2, <1>5, <2>1 DEF WorkInv, WorkHears, AtWork
  <2>3. WorkInv' BY <2>1, <2>2, WorkAway
  <2>4. KeepsMarks BY <1>1, <1>19, FailedKeeps DEF FailCycle
  <2> QED BY <1>6, <2>3, <2>4
<1> QED BY <1>13, <1>14, <1>15, <1>16, <1>17, <1>18, <1>19 DEF Stage

-----------------------------------------------------------------------------
\* Marking every derived stage and dropping the chunks leaves nothing to be current.
LEMMA AllStale ==
  ASSUME TypeOK, raw'.id # 0, run' = Stale(run, Derived),
         built' = [built EXCEPT !["index"] = NoLineage], HeardIsKept', NotesAreOfSpeech'
  PROVE  DataInv'
<1>1. \A s \in Derived : "stale" \in run'[s].detail
  BY DEF Stale, Stages
<1>2. NoteIsCurrent' /\ MapIsCurrent' /\ OutlineIsCurrent'
  BY <1>1 DEF NoteIsCurrent, MapIsCurrent, OutlineIsCurrent, Has, Derived
<1>3. built'["index"] = NoLineage BY DEF TypeOK
<1>4. ChunksAreCurrent' BY <1>3 DEF ChunksAreCurrent, NoLineage
<1> QED BY <1>2, <1>4 DEF DataInv, BlankIsBlank

\* The stages store their results.
LEMMA PersistKeeps == ASSUME CycleInv, TypeInv', Persist PROVE CycleInv'
<1>1. TypeOK /\ WorkInv /\ DataInv /\ AskedFits BY DEF CycleInv, TypeInv
<1>2. setting' = setting /\ asked' = asked /\ Enabled' = Enabled
  BY
    DEF Persist, PersistTranscript, PersistAligned, PersistDiarized, PersistPolished, PersistNote,
      PersistMap,
         PersistOutline, PersistIndex, OnlyStored, sideVars, Enabled
<1>3. /\ work.at = "running" /\ work.cycle # "index"
      /\ work'.at = "persisted" /\ work'.stage = work.stage /\ work'.cycle = work.cycle
      /\ work'.lineage = work.lineage /\ work'.note = work.note /\ work'.force = FALSE
  BY <1>1
    DEF Persist, PersistTranscript, PersistAligned, PersistDiarized, PersistPolished, PersistNote,
      PersistMap,
         PersistOutline, PersistIndex, OnlyStored, Stored, Running, TypeOK, Workers, WorkInv, WorkFits
<1>4. Narrow' = Narrow BY <1>3 DEF Narrow
<1>5. WorkFits' /\ PolishIsAllowed'
  BY <1>1, <1>3, <1>4 DEF WorkInv, WorkFits, AtWork, PolishIsAllowed
<1>6. /\ raw.id = 0 => work.stage = "transcribe" /\ work.cycle = "full"
      /\ work.stage = "transcribe" => raw.id = 0
  BY <1>1, <1>3 DEF WorkInv, WorkHears, AtWork
<1>7. work.stage \in Derived => work.lineage = Lineage BY <1>1, <1>3 DEF WorkInv, InputsAreRead, AtWork
<1>8. Lineage.text = canon.text BY DEF Lineage
<1>9. ASSUME raw'.id # 0 PROVE WorkHears' /\ AskedFits'
  BY <1>1, <1>2, <1>3, <1>9 DEF WorkHears, AskedFits
<1>10. ASSUME work.stage \notin Derived \/ (raw' = raw /\ canon' = canon) PROVE InputsAreRead'
  BY <1>1, <1>3, <1>7, <1>10 DEF InputsAreRead, AtWork, Lineage, WorkInv, WorkFits
<1>11. ASSUME canon'.content = canon.content \/ (work.stage = "transcribe" /\ ~Narrow),
              note'.live = note.live \/ note'.live # 0
       PROVE  WorkIsWanted'
  BY <1>1, <1>2, <1>3, <1>4, <1>11 DEF WorkIsWanted, AtWork, WorkInv, Narrow
<1>12. CASE PersistTranscript
  <2>1. work.stage = "transcribe" /\ raw.id = 0 /\ work.cycle = "full" /\ ~Narrow
    BY <1>1, <1>3, <1>6, <1>12 DEF PersistTranscript, Running, WorkInv, WorkHears, AtWork, Narrow
  <2>2. /\ canon.kind = "raw" /\ note.live = 0 /\ note' = note /\ built' = built /\ drafts' = drafts
        /\ built["mind_map"] = NoLineage /\ built["outline"] = NoLineage /\ built["index"] = NoLineage
    BY <1>1, <1>12, <2>1 DEF DataInv, BlankIsBlank, PersistTranscript, artVars
  <2>3. /\ raw'.id = NewVersion /\ canon'.kind = "raw" /\ canon'.content = raw'.content
    BY <1>12, <2>2 DEF PersistTranscript
  <2>4. NewVersion # 0 BY <1>1, <1>12, VersionTypes DEF PersistTranscript
  <2>5. DataInv'
    BY <2>2, <2>3, <2>4
      DEF DataInv, BlankIsBlank, HeardIsKept, NotesAreOfSpeech, NoteIsCurrent, MapIsCurrent,
                            OutlineIsCurrent, ChunksAreCurrent, Mapped
  <2>6. OutputIsStored' BY <1>3, <2>1 DEF OutputIsStored
  <2>7. raw'.id # 0 BY <2>3, <2>4
  <2>8. WorkHears' /\ AskedFits' BY <1>9, <2>7
  <2>9. InputsAreRead' BY <1>10, <2>1 DEF Derived
  <2>10. WorkIsWanted' BY <1>11, <2>1, <2>2
  <2> QED BY <1>5, <2>5, <2>6, <2>8, <2>9, <2>10 DEF CycleInv, WorkInv
<1>13. CASE PersistAligned
  <2>1. work.stage = "align" BY <1>13 DEF PersistAligned, Running
  <2>2. raw.id # 0 BY <1>6, <2>1
  <2>3. SameData /\ run' = run BY <1>13 DEF PersistAligned, SameData
  <2>4. raw' = raw /\ canon' = canon /\ note' = note BY <2>3 DEF SameData, textVars, artVars
  <2>5. DataInv' BY <1>1, <2>3, MarksKept, DataKept
  <2>6. OutputIsStored' BY <1>3, <2>1 DEF OutputIsStored
  <2>7. WorkHears' /\ AskedFits' BY <1>9, <2>2, <2>4
  <2>8. InputsAreRead' /\ WorkIsWanted' BY <1>10, <1>11, <2>4
  <2> QED BY <1>5, <2>5, <2>6, <2>7, <2>8 DEF CycleInv, WorkInv
<1>14. CASE PersistDiarized
  <2>1. work.stage = "diarize" BY <1>14 DEF PersistDiarized, Running
  <2>2. raw.id # 0 BY <1>6, <2>1
  <2>3. /\ raw'.id = raw.id /\ raw'.content = raw.content /\ canon'.kind = canon.kind
        /\ canon'.content = canon.content /\ note' = note
    BY <1>1, <1>14 DEF PersistDiarized, TypeOK, Raws, Texts
  <2>4. run' = Stale(run, Derived) /\ built' = [built EXCEPT !["index"] = NoLineage]
    BY <1>14 DEF PersistDiarized, DerivedGoStale
  <2>5. Mapped' = Mapped BY <1>1, <2>4 DEF Mapped, TypeOK, NoLineage
  <2>6. HeardIsKept' /\ NotesAreOfSpeech'
    BY <1>1, <1>2, <2>3, <2>5 DEF HeardIsKept, NotesAreOfSpeech, DataInv
  <2>7. DataInv' BY <1>1, <2>2, <2>3, <2>4, <2>6, AllStale DEF TypeOK
  <2>8. OutputIsStored' BY <1>3, <2>1 DEF OutputIsStored
  <2>9. WorkHears' /\ AskedFits' BY <1>9, <2>2, <2>3
  <2>10. InputsAreRead' BY <1>10, <2>1 DEF Derived
  <2>11. WorkIsWanted' BY <1>11, <2>3
  <2> QED BY <1>5, <2>7, <2>8, <2>9, <2>10, <2>11 DEF CycleInv, WorkInv
<1>15. CASE PersistPolished
  <2>1. work.stage = "correct" BY <1>15 DEF PersistPolished, Running
  <2>2. raw.id # 0 BY <1>6, <2>1
  <2>3. canon.kind # "user" BY <1>1, <1>3, <2>1 DEF WorkInv, PolishIsAllowed
  <2>4. /\ raw' = raw /\ canon'.kind = "machine" /\ canon'.content = PolishInput /\ note' = note
    BY <1>15 DEF PersistPolished
  <2>5. canon.content = raw.content BY <1>1, <2>2, <2>3 DEF DataInv, HeardIsKept
  <2>6. PolishInput = raw.content BY <2>5 DEF PolishInput
  <2>7. run' = Stale(run, Derived) /\ built' = [built EXCEPT !["index"] = NoLineage]
    BY <1>15 DEF PersistPolished, DerivedGoStale
  <2>8. Mapped' = Mapped BY <1>1, <2>7 DEF Mapped, TypeOK, NoLineage
  <2>9. HeardIsKept' /\ NotesAreOfSpeech'
    BY <1>1, <1>2, <2>4, <2>5, <2>6, <2>8 DEF HeardIsKept, NotesAreOfSpeech, DataInv
  <2>10. DataInv' BY <1>1, <2>2, <2>4, <2>7, <2>9, AllStale DEF TypeOK
  <2>11. OutputIsStored' BY <1>3, <2>1 DEF OutputIsStored
  <2>12. WorkHears' /\ AskedFits' BY <1>9, <2>2, <2>4
  <2>13. InputsAreRead' BY <1>10, <2>1 DEF Derived
  <2>14. WorkIsWanted' BY <1>11, <2>4, <2>5, <2>6
  <2> QED BY <1>5, <2>10, <2>11, <2>12, <2>13, <2>14 DEF CycleInv, WorkInv
<1>16. CASE PersistNote
  <2>1. work.stage = "summarize" /\ raw' = raw /\ canon' = canon /\ built' = built
    BY <1>16 DEF PersistNote, Running, textVars
  <2>2. raw.id # 0 /\ work.lineage = Lineage BY <1>6, <1>7, <2>1 DEF Derived
  <2>3. "summarize" \in Enabled /\ canon.content = "speech"
    BY <1>1, <1>3, <2>1 DEF WorkInv, WorkIsWanted, AtWork
  <2> DEFINE n == Len(drafts) + 1
  <2>4. /\ drafts' = Append(drafts, work.lineage) /\ note' = [note EXCEPT !.live = n, !.chosen = FALSE]
        /\ run' = IF Mapped THEN Stale(run, {"mind_map"}) ELSE run
    BY <1>16 DEF PersistNote
  <2>5. drafts'[n] = work.lineage /\ n # 0 BY <1>1, <2>4 DEF TypeOK
  <2> HIDE DEF n
  <2>6. note'.live = n BY <1>1, <2>4 DEF TypeOK, NoteChoices
  <2>7. Mapped' = Mapped BY <2>1 DEF Mapped
  <2>8. /\ Has("summarize", "stale")' = Has("summarize", "stale") /\ run'["outline"] = run["outline"]
        /\ Mapped => "stale" \in run'["mind_map"].detail
    BY <1>1, <2>4, StagesAre DEF Has, Stale, TypeOK
  <2>9. /\ BlankIsBlank' /\ HeardIsKept' /\ NotesAreOfSpeech' /\ NoteIsCurrent' /\ MapIsCurrent'
        /\ OutlineIsCurrent' /\ ChunksAreCurrent'
    <3>1. BlankIsBlank' /\ HeardIsKept' /\ ChunksAreCurrent'
      BY <1>1, <2>1, <2>2 DEF DataInv, BlankIsBlank, HeardIsKept, ChunksAreCurrent
    <3>2. NotesAreOfSpeech' BY <1>1, <1>2, <2>1, <2>3, <2>7 DEF DataInv, NotesAreOfSpeech
    <3>3. NoteIsCurrent' BY <1>8, <2>1, <2>2, <2>5, <2>6 DEF NoteIsCurrent
    <3>4. MapIsCurrent' BY <2>7, <2>8 DEF MapIsCurrent, Has
    <3>5. OutlineIsCurrent' BY <1>1, <1>2, <2>1, <2>8 DEF OutlineIsCurrent, Has, DataInv
    <3> QED BY <3>1, <3>2, <3>3, <3>4, <3>5
  <2>10. OutputIsStored' BY <1>3, <2>1, <2>5, <2>6 DEF OutputIsStored
  <2>11. WorkHears' /\ AskedFits' BY <1>9, <2>1, <2>2
  <2>12. InputsAreRead' BY <1>10, <2>1
  <2>13. WorkIsWanted' BY <1>11, <2>1, <2>5, <2>6
  <2> QED BY <1>5, <2>9, <2>10, <2>11, <2>12, <2>13 DEF CycleInv, WorkInv, DataInv
<1>17. CASE PersistMap
  <2>1. work.stage = "mind_map" /\ raw' = raw /\ canon' = canon /\ drafts' = drafts /\ run' = run
    BY <1>17 DEF PersistMap, Running, textVars
  <2>2. raw.id # 0 /\ work.lineage = Lineage BY <1>6, <1>7, <2>1 DEF Derived
  <2>3. work.note = note.live BY <1>1, <1>3, <2>1 DEF WorkInv, InputsAreRead
  <2>4. /\ note'.live = note.live /\ note'.mapped = note.live /\ note'.chosen = note.chosen
        /\ built'["mind_map"] = work.lineage /\ built'["outline"] = built["outline"]
        /\ built'["index"] = built["index"]
    BY <1>1, <1>17, <2>3 DEF PersistMap, TypeOK, NoteChoices
  <2>5. "mind_map" \in Enabled BY <1>1, <1>3, <2>1 DEF WorkInv, WorkIsWanted, AtWork
  <2>6. canon.content = "speech"
    <3>1. work.cycle \in {"full", "derived"} => canon.content = "speech"
      BY <1>1, <1>3, <2>1 DEF WorkInv, WorkIsWanted, AtWork
    <3>2. work.cycle = "mind_map" => note.live # 0 BY <1>1, <1>3 DEF WorkInv, WorkIsWanted, AtWork
    <3>3. note.live # 0 => canon.content = "speech" BY <1>1, <2>2 DEF DataInv, NotesAreOfSpeech
    <3>4. work.cycle # "outline" BY <1>1, <1>3, <2>1 DEF WorkInv, WorkFits, AtWork, Narrow
    <3> QED BY <1>1, <1>3, <3>1, <3>2, <3>3, <3>4, TypeFacts DEF Cycles
  <2>7. DataInv'
    <3>1. BlankIsBlank' /\ HeardIsKept' /\ ChunksAreCurrent'
      BY <1>1, <2>1, <2>2, <2>4 DEF DataInv, BlankIsBlank, HeardIsKept, ChunksAreCurrent
    <3>2. NotesAreOfSpeech' BY <1>1, <1>2, <2>1, <2>4, <2>5, <2>6 DEF DataInv, NotesAreOfSpeech
    <3>3. NoteIsCurrent' BY <1>1, <2>1, <2>4 DEF NoteIsCurrent, Has, DataInv
    <3>4. MapIsCurrent' BY <1>8, <2>1, <2>2, <2>4 DEF MapIsCurrent
    <3>5. OutlineIsCurrent' BY <1>1, <1>2, <2>1, <2>4 DEF OutlineIsCurrent, Has, DataInv
    <3> QED BY <3>1, <3>2, <3>3, <3>4, <3>5 DEF DataInv
  <2>8. OutputIsStored' BY <1>3, <2>1, <2>4 DEF OutputIsStored
  <2>9. WorkHears' /\ AskedFits' BY <1>9, <2>1, <2>2
  <2>10. InputsAreRead' BY <1>10, <2>1
  <2>11. WorkIsWanted' BY <1>11, <2>1, <2>4
  <2> QED BY <1>5, <2>7, <2>8, <2>9, <2>10, <2>11 DEF CycleInv, WorkInv
<1>18. ASSUME NEW s \in {"outline", "index"}, work.stage = s, built' = [built EXCEPT ![s] = work.lineage],
              UNCHANGED <<textVars, drafts, note, run>>
       PROVE  CycleInv'
  <2>1. raw' = raw /\ canon' = canon /\ drafts' = drafts /\ note' = note /\ run' = run
    BY <1>18 DEF textVars
  <2>2. raw.id # 0 /\ work.lineage = Lineage BY <1>6, <1>7, <1>18 DEF Derived
  <2>3. /\ built'["mind_map"] = built["mind_map"] /\ built'[s] = work.lineage
        /\ s # "outline" => built'["outline"] = built["outline"]
        /\ s # "index" => built'["index"] = built["index"]
    BY <1>1, <1>18 DEF TypeOK
  <2>4. DataInv'
    <3>1. BlankIsBlank' /\ HeardIsKept' BY <1>1, <2>1, <2>2 DEF DataInv, BlankIsBlank, HeardIsKept
    <3>2. NotesAreOfSpeech' BY <1>1, <1>2, <2>1, <2>3 DEF DataInv, NotesAreOfSpeech, Mapped
    <3>3. NoteIsCurrent' /\ MapIsCurrent'
      BY <1>1, <2>1, <2>3 DEF NoteIsCurrent, MapIsCurrent, Mapped, Has, DataInv
    <3>4. OutlineIsCurrent'
      BY <1>1, <1>2, <1>8, <1>18, <2>1, <2>2, <2>3 DEF OutlineIsCurrent, Has, DataInv
    <3>5. ChunksAreCurrent' BY <1>1, <1>8, <1>18, <2>1, <2>2, <2>3 DEF ChunksAreCurrent, DataInv
    <3> QED BY <3>1, <3>2, <3>3, <3>4, <3>5 DEF DataInv
  <2>5. OutputIsStored' BY <1>3, <1>18, <2>3 DEF OutputIsStored
  <2>6. WorkHears' /\ AskedFits' BY <1>9, <2>1, <2>2
  <2>7. InputsAreRead' BY <1>10, <2>1
  <2>8. WorkIsWanted' BY <1>11, <2>1
  <2> QED BY <1>5, <2>4, <2>5, <2>6, <2>7, <2>8 DEF CycleInv, WorkInv
<1>19. CASE PersistOutline BY <1>18, <1>19 DEF PersistOutline, Running
<1>20. CASE PersistIndex BY <1>18, <1>20 DEF PersistIndex, Running
<1> QED BY <1>12, <1>13, <1>14, <1>15, <1>16, <1>17, <1>19, <1>20 DEF Persist

\* The steps that belong to one stage only.
LEMMA SpecialKeeps == ASSUME CycleInv, TypeInv', Special PROVE CycleInv'
<1>1. TypeOK /\ WorkInv /\ DataInv /\ AskedFits BY DEF CycleInv, TypeInv
<1>2. setting' = setting /\ asked' = asked /\ Enabled' = Enabled
  BY
    DEF Special, RetireSpeech, ApplyVocabulary, SkipVocabulary, SkipDerived, RejectNoise, HoldMap,
      PublishReindex,
         FailReindex, sideVars, Enabled
<1>3. work.force = FALSE BY <1>1 DEF WorkInv, WorkFits
<1>4. ASSUME NEW s \in Steps, At(s), s # "transcribe" PROVE raw.id # 0 /\ AtWork /\ work.stage = s /\ work.cycle # "index"
  BY <1>1, <1>4 DEF At, AtWork, WorkInv, WorkHears, WorkFits
<1>5. ASSUME raw' = raw PROVE AskedFits' BY <1>1, <1>2, <1>5, AskedKept
<1>6. /\ "align" \in Steps /\ "vocabulary" \in Steps /\ "summarize" \in Steps /\ "mind_map" \in Steps
      /\ "mind_map" \in Stages /\ "index" \in Stages /\ "outline" \in Stages
  BY StepsAre, StagesAre
<1>7. CASE RetireSpeech
  <2>1. /\ raw.id # 0 /\ canon.kind # "user" /\ raw.content = "silence" /\ canon.content # "silence"
    BY <1>4, <1>6, <1>7 DEF RetireSpeech, Held
  <2> QED BY <1>1, <2>1 DEF DataInv, HeardIsKept
<1>8. CASE ApplyVocabulary
  <2>1. /\ raw.id # 0 /\ AtWork /\ work.stage = "vocabulary" /\ work.cycle # "index"
    BY <1>4, <1>6, <1>8 DEF ApplyVocabulary
  <2>2. /\ raw' = raw /\ note' = note /\ canon'.content = canon.content /\ canon.kind = "raw"
        /\ canon'.kind = "auto" /\ work' = Leaving("vocabulary", {})
    BY <1>1, <1>8 DEF ApplyVocabulary, Applies, TypeOK, Texts
  <2>3. run' = Stale(run, Derived) /\ built' = [built EXCEPT !["index"] = NoLineage]
    BY <1>8 DEF ApplyVocabulary, DerivedGoStale
  <2>4. Mapped' = Mapped BY <1>1, <2>3 DEF Mapped, TypeOK, NoLineage
  <2>5. HeardIsKept' /\ NotesAreOfSpeech'
    BY <1>1, <1>2, <2>2, <2>4 DEF HeardIsKept, NotesAreOfSpeech, DataInv
  <2>6. DataInv' BY <1>1, <2>1, <2>2, <2>3, <2>5, AllStale
  <2>7. WorkInv' BY <1>1, <1>2, <2>1, <2>2, LeavingKeeps
  <2> QED BY <1>5, <2>2, <2>6, <2>7 DEF CycleInv
<1>9. CASE SkipVocabulary
  <2>1. /\ raw.id # 0 /\ AtWork /\ work.stage = "vocabulary" /\ work.cycle # "index"
    BY <1>4, <1>6, <1>9 DEF SkipVocabulary
  <2>2. SameData /\ run' = run /\ work' = Leaving("vocabulary", {}) BY <1>9 DEF SkipVocabulary, SameData
  <2>3. raw' = raw /\ canon' = canon /\ note' = note BY <2>2 DEF SameData, textVars, artVars
  <2>4. WorkInv' BY <1>1, <1>2, <2>1, <2>2, <2>3, LeavingKeeps
  <2>5. DataInv' BY <1>1, <2>2, MarksKept, DataKept
  <2> QED BY <1>5, <2>3, <2>4, <2>5 DEF CycleInv
<1>10. ASSUME At("summarize"), ~Narrow, raw' = raw, work'.at = "closing", work'.cycle = work.cycle, work'.force = FALSE
       PROVE  raw.id # 0 /\ WorkInv'
  <2>1. raw.id # 0 /\ work.cycle # "index" BY <1>4, <1>6, <1>10
  <2>2. ~Narrow' BY <1>10 DEF Narrow
  <2> QED BY <1>10, <2>1, <2>2, WorkAway
<1>11. CASE SkipDerived
  <2>1. work'.at = "closing" /\ work'.cycle = work.cycle /\ work'.force = FALSE
    BY <1>1, <1>3, <1>11 DEF SkipDerived, TypeOK, Workers
  <2>2. raw' = raw /\ canon' = canon /\ note' = note /\ drafts' = drafts
    BY <1>11 DEF SkipDerived, textVars
  <2>3. raw.id # 0 /\ WorkInv' BY <1>10, <1>11, <2>1, <2>2 DEF SkipDerived
  <2>4. /\ built' = [built EXCEPT !["index"] = NoLineage]
        /\ \A s \in Derived : "stale" \in run'[s].detail
    BY <1>11 DEF SkipDerived, Stages
  <2>5. Mapped' = Mapped /\ built'["index"] = NoLineage BY <1>1, <2>4 DEF Mapped, TypeOK, NoLineage
  <2>6. HeardIsKept' /\ NotesAreOfSpeech'
    BY <1>1, <1>2, <2>2, <2>5 DEF HeardIsKept, NotesAreOfSpeech, DataInv
  <2>7. DataInv'
    BY <2>2, <2>3, <2>4, <2>5, <2>6
      DEF DataInv, BlankIsBlank, NoteIsCurrent, MapIsCurrent, OutlineIsCurrent,
       ChunksAreCurrent, Has, Derived
  <2> QED BY <1>5, <2>2, <2>3, <2>7 DEF CycleInv
<1>12. CASE RejectNoise
  <2>1. work'.at = "closing" /\ work'.cycle = work.cycle /\ work'.force = FALSE
    BY <1>1, <1>3, <1>12 DEF RejectNoise, TypeOK, Workers
  <2>2. raw' = raw /\ canon' = canon /\ note' = note /\ drafts' = drafts /\ built' = built /\ canon.content = "noise"
    BY <1>12 DEF RejectNoise, textVars, artVars
  <2>3. raw.id # 0 /\ WorkInv' BY <1>10, <1>12, <2>1, <2>2 DEF RejectNoise
  <2>4. Mapped' = Mapped /\ ~Mapped /\ note.live = 0
    BY <1>1, <2>2, <2>3 DEF DataInv, NotesAreOfSpeech, Mapped
  <2>5. run'["outline"] = IF "outline" \in Enabled THEN [status |-> "degraded", detail |-> {}] ELSE run["outline"]
    BY <1>6, <1>12 DEF RejectNoise, Derived
  <2>6. OutlineIsCurrent' BY <1>1, <1>2, <2>2, <2>5 DEF OutlineIsCurrent, DataInv, Has
  <2>7. DataInv'
    BY <1>1, <1>2, <2>2, <2>3, <2>4, <2>6
      DEF DataInv, BlankIsBlank, HeardIsKept, NotesAreOfSpeech, NoteIsCurrent,
       MapIsCurrent, ChunksAreCurrent
  <2> QED BY <1>5, <2>2, <2>3, <2>7 DEF CycleInv
<1>13. CASE HoldMap
  <2>1. /\ raw.id # 0 /\ AtWork /\ work.stage = "mind_map" /\ work.cycle # "index"
    BY <1>4, <1>6, <1>13 DEF HoldMap
  <2>2. SameData /\ run' = [run EXCEPT !["mind_map"].status = "degraded"] /\ work' = Leaving("mind_map", {"mind_map"})
    BY <1>13 DEF HoldMap, SameData
  <2>3. raw' = raw /\ canon' = canon /\ note' = note BY <2>2 DEF SameData, textVars, artVars
  <2>4. WorkInv' BY <1>1, <1>2, <2>1, <2>2, <2>3, LeavingKeeps
  <2>5. DataInv' BY <1>1, <1>6, <2>2, FailedKeeps, DataKept
  <2> QED BY <1>5, <2>3, <2>4, <2>5 DEF CycleInv
<1>14. ASSUME work.at = "running", work.cycle = "index"
       PROVE  raw.id # 0 /\ work.stage = "index" /\ work.lineage = Lineage
  BY <1>1, <1>14 DEF WorkInv, WorkHears, WorkFits, InputsAreRead, AtWork, Derived
<1>15. ASSUME work.at = "running", work.cycle = "index", raw' = raw,
              work' = [work EXCEPT !.at = "finished"] \/ work' = [work EXCEPT !.at = "start"]
       PROVE  WorkInv'
  <2>1. raw.id # 0 BY <1>14, <1>15
  <2>2. work'.at \in {"finished", "start"} /\ work'.force = FALSE
    BY <1>1, <1>3, <1>15 DEF TypeOK, Workers
  <2> QED BY <1>15, <2>1, <2>2, WorkAway
<1>16. CASE PublishReindex
  <2>1. raw' = raw /\ canon' = canon /\ note' = note /\ drafts' = drafts
    BY <1>16 DEF PublishReindex, textVars
  <2>2. raw.id # 0 /\ work.lineage = Lineage BY <1>14, <1>16 DEF PublishReindex
  <2>3. WorkInv' BY <1>15, <1>16, <2>1 DEF PublishReindex
  <2>4. CASE UNCHANGED <<built, run>>
    <3>1. SameData BY <1>2, <2>1, <2>4 DEF SameData, textVars, artVars
    <3>2. DataInv' BY <1>1, <2>4, <3>1, MarksKept, DataKept
    <3> QED BY <1>5, <2>1, <2>3, <3>2 DEF CycleInv
  <2>5. CASE built' = [built EXCEPT !["index"] = work.lineage] /\ Close("index", "completed")
    <3>1. /\ built'["mind_map"] = built["mind_map"] /\ built'["outline"] = built["outline"]
          /\ built'["index"] = work.lineage
          /\ run'["summarize"] = run["summarize"] /\ run'["mind_map"] = run["mind_map"]
          /\ run'["outline"] = run["outline"]
      BY <1>1, <2>5, StagesAre DEF TypeOK, Close
    <3>2. Lineage.text = canon.text BY DEF Lineage
    <3>3. HeardIsKept' /\ NotesAreOfSpeech' /\ BlankIsBlank'
      BY <1>1, <1>2, <2>1, <2>2, <3>1 DEF DataInv, HeardIsKept, NotesAreOfSpeech, Mapped, BlankIsBlank
    <3>4. NoteIsCurrent' /\ MapIsCurrent'
      BY <1>1, <2>1, <3>1 DEF DataInv, NoteIsCurrent, MapIsCurrent, Mapped, Has
    <3>5. OutlineIsCurrent' /\ ChunksAreCurrent'
      BY <1>1, <1>2, <2>1, <2>2, <3>1, <3>2 DEF DataInv, OutlineIsCurrent, ChunksAreCurrent, Has
    <3> QED BY <1>5, <2>1, <2>3, <3>3, <3>4, <3>5 DEF CycleInv, DataInv
  <2> QED BY <1>16, <2>4, <2>5 DEF PublishReindex
<1>17. CASE FailReindex
  <2>1. SameData /\ raw' = raw BY <1>17 DEF FailReindex, SameData, textVars
  <2>2. WorkInv' BY <1>15, <1>17, <2>1 DEF FailReindex
  <2>3. run' = run \/ run' = Failed("index") BY <1>17 DEF FailReindex
  <2>4. DataInv' BY <1>1, <1>6, <2>1, <2>3, MarksKept, FailedKeeps, DataKept
  <2> QED BY <1>5, <2>1, <2>2, <2>4 DEF CycleInv
<1> QED BY <1>7, <1>8, <1>9, <1>11, <1>12, <1>13, <1>16, <1>17 DEF Special

\* A closed cycle gives the claim back.
LEMMA EndKeeps == ASSUME CycleInv, TypeInv', End PROVE CycleInv'
<1>1. TypeOK /\ WorkInv /\ DataInv /\ AskedFits BY DEF CycleInv, TypeInv
<1>2. SameData /\ asked' = asked
  BY DEF End, FinishCycle, FinishMap, FinishOutline, Release, SameData, sideVars
<1>3. raw' = raw BY <1>2 DEF SameData, textVars
<1>4. AskedFits' BY <1>1, <1>2, <1>3, AskedKept
<1>5. WorkInv'
  <2>1. CASE Release
    <3>1. work'.at = "idle" /\ work'.force = FALSE BY <2>1 DEF Release, NoWork
    <3> QED BY <3>1, WorkAway
  <2>2. CASE Finished
    <3>1. work'.at = "finished" /\ work'.cycle = work.cycle /\ work'.force = FALSE
      BY <1>1, <2>2 DEF Finished, TypeOK, Workers, WorkInv, WorkFits
    <3>2. work.at = "closing" \/ Release BY DEF End, FinishCycle, FinishMap, FinishOutline, Closing
    <3>3. raw.id = 0 => work.cycle = "full" \/ Release BY <1>1, <3>2 DEF WorkInv, WorkHears
    <3> QED BY <1>3, <2>1, <3>1, <3>3, WorkAway
  <2> QED BY <2>1, <2>2 DEF End, FinishCycle, FinishMap, FinishOutline
<1>6. KeepsMarks
  <2>1. CASE run' = run BY <1>1, <2>1, MarksKept
  <2>2. CASE raw.id # 0 /\ \E S, flags : run' = Flagged(run, S, flags)
    <3>1. PICK S, flags : run' = Flagged(run, S, flags) BY <2>2
    <3>2. \A s \in Stages : run'[s].status = run[s].status /\ run[s].detail \subseteq run'[s].detail
      BY <1>1, <3>1 DEF Flagged, TypeOK, Rows
    <3> QED BY <2>2, <3>2, StagesAre DEF KeepsMarks, Has
  <2>3. run' # run => work.at = "closing" /\ work.cycle # "full"
    BY DEF End, FinishCycle, FinishMap, FinishOutline, Release, Closing
  <2>4. run' # run => raw.id # 0 BY <1>1, <2>3 DEF WorkInv, WorkHears
  <2>5. run' = run \/ \E S, flags : run' = Flagged(run, S, flags)
    BY DEF End, FinishCycle, FinishMap, FinishOutline, Release
  <2> QED BY <2>1, <2>2, <2>4, <2>5
<1> QED BY <1>1, <1>2, <1>4, <1>5, <1>6, DataKept DEF CycleInv

\* Marking what a claimed request asks for keeps the invariant.
LEMMA MarkKeeps ==
  ASSUME CycleInv, TypeInv', MarkReprocess \/ MarkNotes \/ MarkMap \/ RejectMap PROVE CycleInv'
<1>1. TypeOK /\ WorkInv /\ DataInv /\ AskedFits BY DEF CycleInv, TypeInv
<1>2. SameData /\ asked' = asked
  BY DEF MarkReprocess, MarkNotes, MarkMap, RejectMap, SameData, sideVars
<1>3. raw' = raw BY <1>2 DEF SameData, textVars
<1>4. AskedFits' BY <1>1, <1>2, <1>3, AskedKept
<1>5. work.at = "requested" BY DEF MarkReprocess, MarkNotes, MarkMap, RejectMap, Requesting
<1>6. raw.id = 0 => work.cycle = "full" BY <1>1, <1>5 DEF WorkInv, WorkHears
<1>7. WorkInv'
  <2>1. work' = NoWork \/ work' = [work EXCEPT !.at = "start"]
    BY DEF MarkReprocess, MarkNotes, MarkMap, RejectMap, ThreadStarts, ThreadFails
  <2>2. CASE work' = NoWork
    <3>1. work'.at = "idle" /\ work'.force = FALSE BY <2>2 DEF NoWork
    <3> QED BY <3>1, WorkAway
  <2>3. CASE work' = [work EXCEPT !.at = "start"]
    <3>1. work'.at = "start" /\ work'.cycle = work.cycle /\ work'.force = FALSE
      BY <1>1, <2>3 DEF TypeOK, Workers, WorkInv, WorkFits
    <3> QED BY <1>3, <1>6, <3>1, WorkAway
  <2> QED BY <2>1, <2>2, <2>3
<1>8. KeepsMarks
  <2>1. CASE run' = run BY <1>1, <2>1, MarksKept
  <2>2. CASE MarkNotes
    <3>1. raw.id # 0 BY <1>6, <2>2 DEF MarkNotes, Requesting
    <3> DEFINE r == Flagged(Stale(run, Derived), Derived, {"derived_only"})
    <3>2. /\ r \in [Stages -> Rows] /\ \A s \in Stages : Has(s, "stale") => "stale" \in r[s].detail
          /\ r["outline"].status = "pending"
      <4>1. {"derived_only"} \in Details BY DEF Details
      <4>2. Stale(run, Derived) \in [Stages -> Rows] BY <1>1, StaleTyped DEF TypeOK
      <4>3. /\ \A s \in Stages : Has(s, "stale") => "stale" \in Stale(run, Derived)[s].detail
            /\ Stale(run, Derived)["outline"].status = "pending"
        BY StagesAre DEF Stale, Has, Derived
      <4> HIDE DEF Stale
      <4>4. \A s \in Stages : /\ r[s].status = Stale(run, Derived)[s].status
                              /\ Stale(run, Derived)[s].detail \subseteq r[s].detail
        BY <4>2 DEF Flagged, Rows
      <4>5. r \in [Stages -> Rows] BY <4>1, <4>2, FlaggedTyped
      <4> HIDE DEF r
      <4> QED BY <4>3, <4>4, <4>5, StagesAre
    <3>3. run' = [r EXCEPT !["mind_map"].detail = @ \ {"only"}] BY <2>2 DEF MarkNotes
    <3> HIDE DEF r
    <3>4. /\ \A s \in Stages : "stale" \in r[s].detail => "stale" \in run'[s].detail
          /\ run'["outline"].status = "pending"
      BY <3>2, <3>3, StagesAre DEF Rows
    <3> QED BY <3>1, <3>2, <3>4 DEF KeepsMarks
  <2>3. CASE MarkMap
    <3>1. raw.id # 0 BY <1>6, <2>3 DEF MarkMap, Requesting
    <3>2. /\ \A s \in Stages : s # "mind_map" => run'[s] = run[s]
          /\ "stale" \in run'["mind_map"].detail
      BY <1>1, <2>3, StagesAre DEF MarkMap, TypeOK
    <3> QED BY <3>1, <3>2, StagesAre DEF KeepsMarks, Has
  <2> QED BY <2>1, <2>2, <2>3 DEF MarkReprocess, RejectMap
<1> QED BY <1>1, <1>2, <1>4, <1>7, <1>8, DataKept DEF CycleInv

\* Dispatch, recovery, a crash and the clean-up keep the invariant.
LEMMA DaemonKeeps == ASSUME CycleInv, TypeInv', DaemonStep PROVE CycleInv'
<1>1. TypeOK /\ WorkInv /\ DataInv /\ AskedFits BY DEF CycleInv, TypeInv
<1>2. SameData /\ asked' = asked
  BY DEF DaemonStep, Dispatch, DispatchReindex, Evict, Crash, Recover, RetryDue, SameData, sideVars
<1>3. raw' = raw BY <1>2 DEF SameData, textVars
<1>4. AskedFits' BY <1>1, <1>2, <1>3, AskedKept
<1>5. ASSUME NEW c, work' = Working(c, FALSE, "start"), raw.id = 0 => c = "full" PROVE WorkInv'
  <2>1. work'.at = "start" /\ work'.cycle = c /\ work'.force = FALSE BY <1>5 DEF Working, NoWork
  <2> QED BY <1>3, <1>5, <2>1, WorkAway
<1>6. WorkInv'
  <2>1. CASE Dispatch
    <3>1. raw.id = 0 => \A s \in Stages : ~Has(s, "derived_only") /\ ~Has(s, "only")
      BY <1>1 DEF DataInv, BlankIsBlank, Has
    <3>2. raw.id = 0 => PendingScope = "full"
      BY <2>1, <3>1, StagesAre
        DEF Dispatch, PendingScope, Scope, DerivedOnly, MapOnly, OutlineOnly, SpeechIsDone,
         Derived
    <3> QED BY <1>5, <2>1, <3>2 DEF Dispatch
  <2>2. CASE DispatchReindex
    <3>1. raw.id # 0 BY <1>1, <2>2, StagesAre DEF DispatchReindex, DataInv, BlankIsBlank, Has
    <3> QED BY <1>5, <2>2, <3>1 DEF DispatchReindex
  <2>3. CASE Evict \/ RetryDue BY <1>1, <1>2, <2>3, WorkKept DEF Evict, RetryDue
  <2>4. CASE Crash
    <3>1. work'.at = "crashed" /\ work'.force = FALSE
      BY <1>1, <2>4 DEF Crash, TypeOK, Workers, WorkInv, WorkFits
    <3> QED BY <3>1, WorkAway
  <2>5. CASE Recover
    <3>1. work'.at = "idle" /\ work'.force = FALSE BY <2>5 DEF Recover, NoWork
    <3> QED BY <3>1, WorkAway
  <2> QED BY <2>1, <2>2, <2>3, <2>4, <2>5 DEF DaemonStep
<1>7. KeepsMarks
  <2>1. CASE run' = run BY <1>1, <2>1, MarksKept
  <2>2. CASE Recover
    <3>1. \A s \in Stages : run'[s].detail = run[s].detail BY <1>1, <2>2 DEF Recover, TypeOK, Rows
    <3>2. run'["outline"].status = "completed" => run["outline"].status = "completed"
      BY <1>1, <2>2, StagesAre DEF Recover, TypeOK, Rows
    <3> QED BY <1>1, <3>1, <3>2 DEF KeepsMarks, Has, DataInv, BlankIsBlank
  <2> QED BY <2>1, <2>2 DEF DaemonStep, Dispatch, DispatchReindex, Evict, Crash, RetryDue
<1> QED BY <1>1, <1>2, <1>4, <1>6, <1>7, DataKept DEF CycleInv

\* Requests: an idle recording, or one whose worker goes on.
LEMMA UsersKeep == ASSUME NoForce, CycleInv, TypeInv', Users PROVE CycleInv'
<1>1. TypeOK /\ WorkInv /\ DataInv /\ AskedFits BY DEF CycleInv, TypeInv
<1>2. ASSUME ~Claimed, work' = work PROVE WorkInv'
  <2>1. work'.at = "idle" /\ work'.force = FALSE BY <1>1, <1>2 DEF Claimed, WorkInv, WorkFits
  <2> QED BY <2>1, WorkAway
<1>3. ASSUME SameData, work' = work PROVE WorkInv' BY <1>1, <1>3, WorkKept
<1>4. ASSUME raw' = raw, asked' \subseteq asked PROVE AskedFits' BY <1>1, <1>4, AskedKept
<1>5. ASSUME SameData PROVE raw' = raw /\ (run' = run => DataInv')
  BY <1>1, <1>5, MarksKept, DataKept DEF SameData, textVars
<1>6. "force" \notin Requests BY <1>1 DEF NoForce, Requests, TypeOK
<1>7. "index" \in Stages /\ "outline" \in Stages /\ "mind_map" \in Stages /\ "summarize" \in Stages
  BY StagesAre
<1>8. CASE EditTranscript
  <2>1. raw' = raw /\ raw.id # 0 /\ note' = note /\ drafts' = drafts /\ canon'.kind = "user" /\ canon'.content = "speech"
        /\ setting' = setting /\ asked' = asked
    BY <1>8 DEF EditTranscript, sideVars
  <2>2. built' = [built EXCEPT !["index"] = NoLineage] /\ run' = Flagged(Stale(run, Derived), {"index"}, {"only"})
    BY <1>8 DEF EditTranscript
  <2>3. \A s \in Derived : "stale" \in run'[s].detail BY <2>2 DEF Flagged, Stale, Stages
  <2>4. Mapped' = Mapped /\ built'["index"] = NoLineage BY <1>1, <2>2 DEF Mapped, TypeOK, NoLineage
  <2>5. HeardIsKept' /\ NotesAreOfSpeech'
    BY <1>1, <2>1, <2>4 DEF HeardIsKept, NotesAreOfSpeech, DataInv, Enabled
  <2>6. DataInv'
    BY <2>1, <2>3, <2>4, <2>5 DEF DataInv, BlankIsBlank, NoteIsCurrent, MapIsCurrent, OutlineIsCurrent,
       ChunksAreCurrent, Has, Derived
  <2>7. WorkInv' BY <1>2, <1>8 DEF EditTranscript
  <2> QED BY <1>4, <2>1, <2>6, <2>7 DEF CycleInv
<1>9. CASE RenameSpeaker
  <2>1. raw' = raw /\ canon' = canon /\ note' = note /\ drafts' = drafts /\ setting' = setting /\ asked' = asked
    BY <1>9 DEF RenameSpeaker, sideVars, textVars
  <2>2. raw.id # 0 BY <1>1, <1>9 DEF RenameSpeaker, DataInv, BlankIsBlank
  <2>3. /\ built'["mind_map"] = built["mind_map"] /\ built'["outline"] = built["outline"]
        /\ built'["index"] = NoLineage
    BY <1>1, <1>9 DEF RenameSpeaker, TypeOK
  <2>4. /\ run'["summarize"] = run["summarize"] /\ run'["mind_map"] = run["mind_map"]
        /\ run'["outline"] = run["outline"]
    BY <1>7, <1>9 DEF RenameSpeaker, Flagged, Stale
  <2>5. DataInv'
    <3>1. BlankIsBlank' /\ HeardIsKept' /\ NotesAreOfSpeech'
      BY <1>1, <2>1, <2>2, <2>3
        DEF DataInv, BlankIsBlank, HeardIsKept, NotesAreOfSpeech, Mapped, Enabled
    <3>2. NoteIsCurrent' /\ MapIsCurrent'
      BY <1>1, <2>1, <2>3, <2>4 DEF DataInv, NoteIsCurrent, MapIsCurrent, Mapped, Has
    <3>3. OutlineIsCurrent' /\ ChunksAreCurrent'
      BY <1>1, <2>1, <2>3, <2>4 DEF DataInv, OutlineIsCurrent, ChunksAreCurrent, Has, Enabled
    <3> QED BY <3>1, <3>2, <3>3 DEF DataInv
  <2>6. WorkInv' BY <1>2, <1>9 DEF RenameSpeaker
  <2> QED BY <1>4, <2>1, <2>5, <2>6 DEF CycleInv
<1>10. CASE RestoreNote
  <2>1. /\ raw' = raw /\ canon' = canon /\ drafts' = drafts /\ setting' = setting /\ asked' = asked /\ built' = built
        /\ note.live # 0
    BY <1>10 DEF RestoreNote, sideVars, textVars
  <2>2. PICK n \in 1..Len(drafts) \ {note.live} :
          /\ note' = [note EXCEPT !.live = n, !.chosen = TRUE]
          /\ run' = IF Mapped /\ note.mapped # n THEN Stale(run, {"mind_map"}) ELSE run
    BY <1>10 DEF RestoreNote
  <2>3. n # 0 /\ n # note.live BY <2>2
  <2>4. note'.live = n /\ note'.chosen = TRUE /\ note'.mapped = note.mapped
    BY <1>1, <2>2 DEF TypeOK, NoteChoices
  <2>5. raw.id # 0 BY <1>1, <2>1 DEF DataInv, BlankIsBlank
  <2>6. Mapped' = Mapped /\ Enabled' = Enabled BY <2>1 DEF Mapped, Enabled
  <2>7. run'["outline"] = run["outline"] /\ (Mapped /\ note.mapped # n => "stale" \in run'["mind_map"].detail)
        /\ (~(Mapped /\ note.mapped # n) => run' = run)
    BY <1>7, <2>2 DEF Stale
  <2>8. BlankIsBlank' /\ HeardIsKept' /\ NotesAreOfSpeech'
    BY <1>1, <2>1, <2>5, <2>6 DEF DataInv, BlankIsBlank, HeardIsKept, NotesAreOfSpeech
  <2>9. NoteIsCurrent' BY <2>4 DEF NoteIsCurrent
  <2>10. MapIsCurrent' BY <1>1, <2>1, <2>3, <2>4, <2>6, <2>7 DEF DataInv, MapIsCurrent, Has
  <2>11. OutlineIsCurrent' /\ ChunksAreCurrent'
    BY <1>1, <2>1, <2>6, <2>7 DEF DataInv, OutlineIsCurrent, ChunksAreCurrent, Has
  <2>12. WorkInv' BY <1>2, <1>10 DEF RestoreNote
  <2> QED BY <1>4, <2>1, <2>8, <2>9, <2>10, <2>11, <2>12 DEF CycleInv, DataInv
<1>11. CASE RebuildOutline
  <2>1. SameData /\ asked' = asked /\ raw' = raw /\ raw.id # 0
    BY <1>11 DEF RebuildOutline, SameData, sideVars, textVars
  <2>2. /\ \A s \in Stages : s # "outline" => run'[s] = run[s]
        /\ run'["outline"] = [status |-> "pending", detail |-> {"only", "stale"}]
    BY <1>1, <1>7, <1>11 DEF RebuildOutline, TypeOK
  <2>3. KeepsMarks BY <1>7, <2>1, <2>2 DEF KeepsMarks, Has
  <2>4. DataInv' BY <1>1, <2>1, <2>3, DataKept
  <2>7. work' = Working("outline", FALSE, "start") \/ work' = NoWork
    BY <1>11 DEF RebuildOutline, ThreadFails
  <2>8. Working("outline", FALSE, "start").at = "start" /\ Working("outline", FALSE, "start").force = FALSE
    BY DEF Working, NoWork
  <2>9. NoWork.at = "idle" /\ NoWork.force = FALSE BY DEF NoWork
  <2>5. work'.at \in {"start", "idle"} /\ work'.force = FALSE BY <2>7, <2>8, <2>9
  <2>6. WorkInv' BY <2>1, <2>5, WorkAway
  <2> QED BY <1>4, <2>1, <2>4, <2>6 DEF CycleInv
<1>12. CASE AskRecording
  <2>1. SameData /\ run' = run /\ work' = work /\ raw' = raw
    BY <1>12 DEF AskRecording, SameData, textVars
  <2>2. PICK kind \in PerRecording :
          /\ Requested(kind) /\ Ask(kind)
          /\ kind = "notes" => raw.id # 0
          /\ kind = "map" => ~Claimed /\ NotesUsable /\ MapOutdated
          /\ audio' = (audio \/ NeedsAudio(kind))
    BY <1>12 DEF AskRecording
  <2>3. kind # "force" BY <1>6, <2>2 DEF Requested
  <2>4. kind \in {"notes", "map", "derived_all"} => raw.id # 0 BY <2>2 DEF NotesUsable, PerRecording
  <2>5. AskedFits' BY <1>1, <2>1, <2>2, <2>3, <2>4 DEF AskedFits, Ask
  <2> QED BY <1>3, <1>5, <2>1, <2>5 DEF CycleInv
<1>13. CASE ClaimRequest
  <2>1. SameData /\ run' = run /\ raw' = raw BY <1>13 DEF ClaimRequest, SameData, textVars
  <2>2. PICK a \in asked :
          /\ asked' = asked \ {a}
          /\ \/ work' = work
             \/ work' = [Working(CASE a.kind = "notes" -> "derived" [] a.kind = "map" -> "mind_map"
                                  [] OTHER -> "full", a.kind = "force", "requested")
                         EXCEPT !.before = a.status]
    BY <1>13 DEF ClaimRequest
  <2>6. a \in asked BY <2>2
  <2>3. a.kind # "force" /\ (raw.id = 0 => a.kind \notin {"notes", "map"}) BY <1>1, <2>6 DEF AskedFits
  <2>4. CASE work' = work BY <1>3, <1>4, <1>5, <2>1, <2>2, <2>4 DEF CycleInv
  <2>5. CASE work' # work
    <3> DEFINE c == CASE a.kind = "notes" -> "derived" [] a.kind = "map" -> "mind_map" [] OTHER -> "full"
    <3>1. raw.id = 0 => c = "full" BY <2>3
    <3>2. (a.kind = "force") = FALSE BY <2>3
    <3>3. work' = [Working(c, a.kind = "force", "requested") EXCEPT !.before = a.status] BY <2>2, <2>5
    <3> HIDE DEF c
    <3>4. work'.at = "requested" /\ work'.cycle = c /\ work'.force = FALSE
      BY <3>2, <3>3 DEF Working, NoWork
    <3>5. WorkInv' BY <2>1, <3>1, <3>4, WorkAway
    <3> QED BY <1>4, <1>5, <2>1, <2>2, <3>5 DEF CycleInv
  <2> QED BY <2>4, <2>5
<1>14. CASE AskLibrary
  <2>1. SameData /\ run' = run /\ work' = work /\ raw' = raw BY <1>14 DEF AskLibrary, SameData, textVars
  <2>2. PICK kind \in {"resume_all", "force_all", "derived_all"} : Ask(kind) /\ (kind = "derived_all" => raw.id # 0)
    BY <1>14 DEF AskLibrary
  <2>3. AskedFits' BY <1>1, <2>1, <2>2 DEF AskedFits, Ask
  <2> QED BY <1>3, <1>5, <2>1, <2>3 DEF CycleInv
<1>15. CASE QueueResume
  <2>1. SameData /\ run' = run /\ work' = work BY <1>15 DEF QueueResume, SameData
  <2>2. asked' \subseteq asked BY <1>15 DEF QueueResume, Queue
  <2> QED BY <1>3, <1>4, <1>5, <2>1, <2>2 DEF CycleInv
<1>16. CASE QueueForce
  <2>1. SameData /\ work' = work /\ asked' \subseteq asked BY <1>16 DEF QueueForce, Queue, SameData
  <2>2. \A s \in Stages : /\ run'[s].detail = run[s].detail
                          /\ run'[s].status = run[s].status \/ run'[s].status = "pending"
    BY <1>1, <1>16 DEF QueueForce, TypeOK, Rows
  <2>5. run'["outline"].status = "completed" => run["outline"].status = "completed" BY <1>7, <2>2
  <2>6. raw.id = 0 => \A s \in Stages : run[s].detail \subseteq {"stale"}
    BY <1>1 DEF DataInv, BlankIsBlank
  <2>3. KeepsMarks BY <2>2, <2>5, <2>6 DEF KeepsMarks, Has
  <2>4. DataInv' BY <1>1, <2>1, <2>3, DataKept
  <2> QED BY <1>3, <1>4, <1>5, <2>1, <2>4 DEF CycleInv
<1>17. CASE QueueDerived
  <2>1. SameData /\ asked' \subseteq asked /\ raw' = raw /\ canon' = canon /\ drafts' = drafts /\ note' = note /\ built' = built
        /\ setting' = setting
    BY <1>17 DEF QueueDerived, Queue, SameData, textVars, artVars
  <2>2. raw.id # 0 BY <1>1, <1>17 DEF QueueDerived, AskedFits
  <2>3. run' = Flagged(Stale(run, Derived), Derived, {"derived_only"}) BY <1>17 DEF QueueDerived
  <2>4. KeepsMarks
    <3>1. \A s \in Stages : Has(s, "stale") => "stale" \in Stale(run, Derived)[s].detail
      BY DEF Stale, Has
    <3>2. Stale(run, Derived) \in [Stages -> Rows] /\ Stale(run, Derived)["outline"].status = "pending"
      BY <1>1, <1>7, StaleTyped DEF TypeOK, Stale, Derived
    <3> HIDE DEF Stale
    <3>3. \A s \in Stages : /\ run'[s].status = Stale(run, Derived)[s].status
                            /\ Stale(run, Derived)[s].detail \subseteq run'[s].detail
      BY <2>3, <3>2 DEF Flagged, Rows
    <3> QED BY <1>7, <2>2, <3>1, <3>2, <3>3 DEF KeepsMarks
  <2>5. DataInv' BY <1>1, <2>1, <2>4, DataKept
  <2>6. /\ work'.at = work.at /\ work'.stage = work.stage /\ work'.cycle = work.cycle /\ work'.force = work.force
        /\ work'.lineage = work.lineage /\ work'.note = work.note
    BY <1>1, <1>17 DEF QueueDerived, TypeOK, Workers
  <2>7. WorkInv'
    BY <1>1, <2>1, <2>6 DEF WorkInv, WorkFits, AtWork, Narrow, PolishIsAllowed, InputsAreRead, Lineage,
       OutputIsStored, WorkHears, WorkIsWanted, Enabled
  <2> QED BY <1>4, <2>1, <2>5, <2>7 DEF CycleInv
<1> QED BY <1>8, <1>9, <1>10, <1>11, <1>12, <1>13, <1>14, <1>15, <1>16, <1>17 DEF Users

LEMMA InitCycle == Init => CycleInv
<1> SUFFICES ASSUME Init PROVE CycleInv OBVIOUS
<1>1. TypeInv BY InitTypes
<1>2. work.at = "idle" /\ work.force = FALSE /\ asked = {} BY DEF Init, NoWork
<1>3. WorkInv
  BY <1>2
    DEF WorkInv, WorkFits, AtWork, PolishIsAllowed, InputsAreRead, OutputIsStored, WorkHears,
      WorkIsWanted
<1>4. /\ raw.id = 0 /\ canon.kind = "raw" /\ ~raw.speakers /\ note.live = 0 /\ drafts = <<>>
      /\ \A s \in {"mind_map", "outline", "index"} : built[s] = NoLineage
      /\ \A s \in Stages : run[s].detail = {}
  BY DEF Init
<1>5. DataInv
  BY <1>4
    DEF DataInv, BlankIsBlank, HeardIsKept, NotesAreOfSpeech, NoteIsCurrent, MapIsCurrent,
      OutlineIsCurrent,
     ChunksAreCurrent, Mapped
<1> QED BY <1>1, <1>2, <1>3, <1>5 DEF CycleInv, AskedFits

\* The invariant is inductive.
LEMMA NextCycle == ASSUME NoForce PROVE CycleInv /\ [Next]_vars => CycleInv'
<1> SUFFICES ASSUME CycleInv, [Next]_vars PROVE CycleInv' OBVIOUS
<1>1. TypeInv' BY NextTypes DEF CycleInv
<1>2. CASE Work
  BY <1>1, <1>2, EnterKeeps, StepKeeps, PersistKeeps, SpecialKeeps, EndKeeps, MarkKeeps DEF Work
<1>3. CASE DaemonStep BY <1>1, <1>3, DaemonKeeps
<1>4. CASE Users BY <1>1, <1>4, UsersKeep
<1>5. CASE UNCHANGED vars
  <2>1. SameData /\ run' = run /\ work' = work /\ asked' = asked /\ raw' = raw
    BY <1>5 DEF vars, SameData, sideVars, textVars
  <2> QED BY <1>1, <2>1, WorkKept, MarksKept, DataKept, AskedKept DEF CycleInv
<1> QED BY <1>2, <1>3, <1>4, <1>5 DEF Next

\* In a library whose users force nothing, a finished recording shows as current only
\* what was made from the text it shows, through every order of cycles, edits, requests,
\* failures, crashes and restarts.  (pipeline.py, the stale protocol of all persist steps)
THEOREM DoneShowsCurrent == ASSUME NoForce PROVE Spec => []DoneIsCurrent
<1>1. Init => CycleInv BY InitCycle
<1>2. CycleInv /\ [Next]_vars => CycleInv' BY NextCycle
<1>3. CycleInv => DoneIsCurrent
  <2> SUFFICES ASSUME CycleInv PROVE DoneIsCurrent OBVIOUS
  <2>1. NoteIsCurrent /\ MapIsCurrent /\ OutlineIsCurrent /\ ChunksAreCurrent BY DEF CycleInv, DataInv
  <2> QED
    BY <2>1
      DEF DoneIsCurrent, Current, NoteIsCurrent, MapIsCurrent, OutlineIsCurrent, ChunksAreCurrent,
        Mapped
<1> QED BY <1>1, <1>2, <1>3, PTL DEF Spec

-----------------------------------------------------------------------------
(***************************************************************************)
(* What a step may do to an edit, a mark and a map.                        *)
(***************************************************************************)

\* Polishing is begun by full and derived cycles only.
PolishFits == PolishIsAllowed /\ (AtWork /\ Narrow => work.stage = work.cycle)

EditInv == TypeInv /\ PolishFits

LEMMA PolishAway ==
  ASSUME \/ work'.at \notin {"stage", "running", "persisted"}
         \/ PolishFits /\ work' = work /\ canon' = canon
  PROVE  PolishFits'
BY DEF PolishFits, PolishIsAllowed, AtWork, Narrow

LEMMA PolishLeft ==
  ASSUME TypeOK, PolishFits, AtWork, NEW s \in Steps, NEW errors, work' = Leaving(s, errors) PROVE PolishFits'
<1>1. /\ work'.at = IF Narrow \/ s = "index" \/ (s = "correct" /\ errors # {}) THEN "closing" ELSE "stage"
      /\ work'.cycle = work.cycle
  BY LeavingFields
<1>2. Narrow' = Narrow BY <1>1 DEF Narrow
<1> QED BY <1>1, <1>2 DEF PolishFits, PolishIsAllowed, AtWork

\* Polishing runs only where no person edited, whatever is forced.
LEMMA PolishKept == ASSUME EditInv, [Next]_vars PROVE PolishFits'
<1>1. TypeOK /\ PolishFits BY DEF EditInv, TypeInv
<1>2. CASE Enter
  <2>1. work'.at \in {"stage", "running"} =>
          /\ Narrow' => work'.stage = work'.cycle
          /\ work'.stage = "correct" => work'.at = "stage"
    BY <1>1, <1>2
      DEF Enter, EnterFull, EnterDerived, EnterMap, RefuseMap, EnterOutline, RefuseOutline,
        EnterReindex,
                      Starting, TypeOK, Workers, Narrow
  <2>2. work'.at \in {"stage", "running", "finished"}
    BY <1>1, <1>2
      DEF Enter, EnterFull, EnterDerived, EnterMap, RefuseMap, EnterOutline, RefuseOutline,
        EnterReindex,
                      TypeOK, Workers
  <2> QED BY <2>1, <2>2 DEF PolishFits, PolishIsAllowed, AtWork
<1>3. ASSUME NEW s \in Stages, Stage(s) PROVE PolishFits'
  <2>1. s \in Steps BY StepsAre, StagesAre
  <2>2. AtWork /\ work.stage = s
    BY <1>3
      DEF Stage, SkipStage, ReuseStage, BeginStage, FinishStage, TryNext, FailStage, FailCycle, At,
        Attempted,
                AtWork
  <2>3. CASE BeginStage(s)
    <3>1. /\ work'.at = "running" /\ work'.stage = s /\ work'.cycle = work.cycle /\ canon' = canon
      BY <1>1, <2>2, <2>3 DEF BeginStage, TypeOK, Workers, textVars
    <3>2. Narrow' = Narrow /\ (Narrow => s = work.cycle) BY <1>1, <2>2, <3>1 DEF Narrow, PolishFits
    <3>3. s = "correct" => canon.kind # "user" BY <2>3, <3>2 DEF BeginStage, Skippable, Narrow
    <3> QED BY <3>1, <3>2, <3>3 DEF PolishFits, PolishIsAllowed
  <2>4. CASE TryNext(s)
    <3>1. /\ work'.at = "stage" /\ work'.stage = s /\ work'.cycle = work.cycle
      BY <1>1, <2>2, <2>4 DEF TryNext, TypeOK, Workers
    <3> QED BY <1>1, <2>2, <3>1 DEF PolishFits, PolishIsAllowed, Narrow
  <2>5. CASE FailCycle(s)
    <3>1. work'.at = "finished" BY <1>1, <2>5 DEF FailCycle, TypeOK, Workers
    <3> QED BY <3>1, PolishAway
  <2>6. CASE SkipStage(s) \/ ReuseStage(s) \/ FinishStage(s) \/ FailStage(s)
    <3>1. PICK e : work' = Leaving(s, e) BY <2>6 DEF SkipStage, ReuseStage, FinishStage, FailStage
    <3> QED BY <1>1, <2>1, <2>2, <3>1, PolishLeft
  <2> QED BY <1>3, <2>3, <2>4, <2>5, <2>6 DEF Stage
<1>4. CASE Persist
  <2>1. /\ work'.at = "persisted" /\ work'.stage = work.stage /\ work'.cycle = work.cycle /\ work.at = "running"
    BY <1>1, <1>4
      DEF Persist, PersistTranscript, PersistAligned, PersistDiarized, PersistPolished, PersistNote,
       PersistMap, PersistOutline, PersistIndex, OnlyStored, Stored, Running, TypeOK, Workers
  <2> QED BY <1>1, <2>1 DEF PolishFits, PolishIsAllowed, AtWork, Narrow
<1>5. CASE Special
  <2>1. CASE RetireSpeech
    <3>1. work' = work /\ work.at = "stage" BY <2>1 DEF RetireSpeech, At
    <3> QED BY <1>1, <3>1 DEF PolishFits, PolishIsAllowed, AtWork, Narrow
  <2>2. CASE ApplyVocabulary \/ SkipVocabulary \/ HoldMap
    <3>1. AtWork BY <2>2 DEF ApplyVocabulary, SkipVocabulary, HoldMap, At, AtWork
    <3>2. PICK s \in {"vocabulary", "mind_map"} : \E e : work' = Leaving(s, e)
      BY <2>2 DEF ApplyVocabulary, SkipVocabulary, HoldMap
    <3> QED BY <1>1, <3>1, <3>2, StepsAre, PolishLeft
  <2>3. CASE SkipDerived \/ RejectNoise \/ PublishReindex \/ FailReindex
    <3>1. work'.at \in {"closing", "finished", "start"}
      BY <1>1, <2>3 DEF SkipDerived, RejectNoise, PublishReindex, FailReindex, TypeOK, Workers
    <3> QED BY <3>1, PolishAway
  <2> QED BY <1>5, <2>1, <2>2, <2>3 DEF Special
<1>6. CASE End \/ MarkReprocess \/ MarkNotes \/ MarkMap \/ RejectMap
  <2>1. work' = NoWork \/ work' = [work EXCEPT !.at = "start"] \/ work' = [work EXCEPT !.at = "finished"]
    BY <1>6
      DEF End, FinishCycle, FinishMap, FinishOutline, Finished, Release, MarkReprocess, MarkNotes,
        MarkMap,
                RejectMap, ThreadStarts, ThreadFails
  <2>2. NoWork.at = "idle" BY DEF NoWork
  <2>3. work'.at \in {"idle", "start", "finished"} BY <1>1, <2>1, <2>2 DEF TypeOK, Workers
  <2> QED BY <2>3, PolishAway
<1>8. CASE DaemonStep
  <2>1. CASE Dispatch \/ DispatchReindex
    <3>1. PICK c : work' = Working(c, FALSE, "start") BY <2>1 DEF Dispatch, DispatchReindex
    <3>2. work'.at = "start" BY <3>1 DEF Working, NoWork
    <3> QED BY <3>2, PolishAway
  <2>2. CASE Crash \/ Recover
    <3>1. work'.at \in {"crashed", "idle"} BY <1>1, <2>2 DEF Crash, Recover, NoWork, TypeOK, Workers
    <3> QED BY <3>1, PolishAway
  <2>3. CASE Evict \/ RetryDue BY <1>1, <2>3, PolishAway DEF Evict, RetryDue, textVars
  <2> QED BY <1>8, <2>1, <2>2, <2>3 DEF DaemonStep
<1>9. CASE Users
  <2>1. CASE EditTranscript
    <3>1. work'.at = "idle" BY <2>1 DEF EditTranscript, Claimed
    <3> QED BY <3>1, PolishAway
  <2>2. CASE RebuildOutline
    <3>1. work' = Working("outline", FALSE, "start") \/ work' = NoWork
      BY <2>2 DEF RebuildOutline, ThreadFails
    <3>2. NoWork.at = "idle" BY DEF NoWork
    <3>3. Working("outline", FALSE, "start").at = "start" BY DEF Working, NoWork
    <3>4. work'.at \in {"start", "idle"} BY <3>1, <3>2, <3>3
    <3> QED BY <3>4, PolishAway
  <2>3. CASE ClaimRequest
    <3>1. PICK c, f, b : work' = work \/ work' = [Working(c, f, "requested") EXCEPT !.before = b]
      BY <2>3 DEF ClaimRequest
    <3>2. canon' = canon BY <2>3 DEF ClaimRequest, textVars
    <3>3. work' # work => work'.at = "requested" BY <3>1 DEF Working, NoWork
    <3> QED BY <1>1, <3>2, <3>3, PolishAway
  <2>4. CASE QueueDerived
    <3>1. work'.at = work.at /\ work'.stage = work.stage /\ work'.cycle = work.cycle /\ canon' = canon
      BY <1>1, <2>4 DEF QueueDerived, TypeOK, Workers, textVars
    <3> QED BY <1>1, <3>1 DEF PolishFits, PolishIsAllowed, AtWork, Narrow
  <2>5. CASE RenameSpeaker \/ RestoreNote \/ AskRecording \/ AskLibrary \/ QueueResume \/ QueueForce
    BY <1>1, <2>5, PolishAway
      DEF RenameSpeaker, RestoreNote, AskRecording, AskLibrary, QueueResume, QueueForce, textVars
  <2> QED BY <1>9, <2>1, <2>2, <2>3, <2>4, <2>5 DEF Users
<1>10. CASE UNCHANGED vars BY <1>1, <1>10, PolishAway DEF vars, textVars
<1> QED BY <1>2, <1>3, <1>4, <1>5, <1>6, <1>8, <1>9, <1>10 DEF Next, Work

LEMMA NextEdit == EditInv /\ [Next]_vars => EditInv'
BY NextTypes, PolishKept DEF EditInv

LEMMA InitEdit == Init => EditInv
<1>1. Init => work.at = "idle" BY DEF Init, NoWork
<1> QED BY <1>1, InitTypes DEF EditInv, PolishFits, PolishIsAllowed, AtWork

\* The steps that touch the text shown.
LEMMA TextChanges ==
  ASSUME [Next]_vars, canon' # canon
  PROVE  \/ PersistTranscript \/ PersistDiarized \/ PersistPolished \/ RetireSpeech \/ ApplyVocabulary
         \/ EditTranscript
<1>1. CASE Enter
  BY <1>1
    DEF Enter, EnterFull, EnterDerived, EnterMap, RefuseMap, EnterOutline, RefuseOutline, EnterReindex,
      textVars
<1>2. CASE \E s \in Stages : Stage(s)
  BY <1>2
    DEF Stage, SkipStage, ReuseStage, BeginStage, FinishStage, TryNext, FailStage, FailCycle, textVars
<1>3. CASE Persist
  BY <1>3 DEF Persist, PersistAligned, PersistNote, PersistMap, PersistOutline, PersistIndex, textVars
<1>4. CASE Special
  BY <1>4
    DEF Special, SkipVocabulary, SkipDerived, RejectNoise, HoldMap, PublishReindex, FailReindex,
      textVars
<1>5. CASE End BY <1>5 DEF End, FinishCycle, FinishMap, FinishOutline, Release, textVars
<1>6. CASE MarkReprocess \/ MarkNotes \/ MarkMap \/ RejectMap
  BY <1>6 DEF MarkReprocess, MarkNotes, MarkMap, RejectMap, textVars
<1>7. CASE DaemonStep
  BY <1>7 DEF DaemonStep, Dispatch, DispatchReindex, Evict, Crash, Recover, RetryDue, textVars
<1>8. CASE Users
  BY <1>8
    DEF Users, RenameSpeaker, RestoreNote, RebuildOutline, AskRecording, ClaimRequest, AskLibrary,
      QueueResume,
     QueueForce, QueueDerived, textVars
<1>9. CASE UNCHANGED vars BY <1>9 DEF vars, textVars
<1> QED BY <1>1, <1>2, <1>3, <1>4, <1>5, <1>6, <1>7, <1>8, <1>9 DEF Next, Work

\* A person's edit is replaced by another edit only, whoever reprocesses, forces, polishes
\* or relabels the recording and whatever ASR hears.
\* (pipeline.py _run_correction_stage, vocabulary.py apply_vocabulary)
THEOREM EditsSurvive == Spec => HumanEditSurvives
<1>1. Init => EditInv BY InitEdit
<1>2. EditInv /\ [Next]_vars => EditInv' BY NextEdit
<1> DEFINE Edits == canon.kind = "user" /\ canon'.text # canon.text
                      => canon'.kind = "user" /\ work' = work /\ ~Claimed
<1>3. EditInv /\ [Next]_vars => Edits
  <2> SUFFICES ASSUME EditInv, [Next]_vars, canon.kind = "user", canon'.text # canon.text
               PROVE  canon'.kind = "user" /\ work' = work /\ ~Claimed
    OBVIOUS
  <2>1. canon \in Texts BY DEF EditInv, TypeInv, TypeOK
  <2>2. ~PersistTranscript BY <2>1 DEF PersistTranscript, Texts
  <2>3. ~PersistDiarized BY DEF PersistDiarized
  <2>4. ~PersistPolished BY DEF PersistPolished, Running, EditInv, PolishFits, PolishIsAllowed
  <2>5. ~RetireSpeech BY DEF RetireSpeech, Held
  <2>6. ~ApplyVocabulary BY DEF ApplyVocabulary, Applies
  <2>7. EditTranscript BY <2>2, <2>3, <2>4, <2>5, <2>6, TextChanges
  <2> QED BY <2>7 DEF EditTranscript
<1>4. Edits => [canon.kind = "user" /\ canon'.text # canon.text
                  => canon'.kind = "user" /\ work' = work /\ ~Claimed]_vars
  OBVIOUS
<1> HIDE DEF Edits
<1> QED BY <1>1, <1>2, <1>3, <1>4, PTL DEF Spec, HumanEditSurvives

\* The steps that call an artifact complete and no longer out of date.
LEMMA MarkDrops ==
  ASSUME TypeOK, [Next]_vars, NEW s \in {"mind_map", "outline", "index"},
         Has(s, "stale"), run'[s].status = "completed", "stale" \notin run'[s].detail
  PROVE  ReuseStage(s) \/ FinishStage(s) \/ (s = "index" /\ PublishReindex)
<1> USE DEF Has
<1>1. s \in Stages /\ run \in [Stages -> Rows] /\ run # run' /\ run'[s].detail # run[s].detail
  BY StagesAre DEF TypeOK
<1>2. ~(\E S : run' = Stale(run, S)) BY <1>1 DEF Stale
<1>3. ~(\E S, T, flags : run' = Flagged(Stale(run, S), T, flags))
  <2> SUFFICES ASSUME NEW S, NEW T, NEW flags, run' = Flagged(Stale(run, S), T, flags) PROVE FALSE OBVIOUS
  <2>1. "stale" \in Stale(run, S)[s].detail /\ Stale(run, S) \in [Stages -> Rows]
    BY <1>1, StaleTyped DEF Stale
  <2> HIDE DEF Stale
  <2>2. Stale(run, S)[s].detail \subseteq run'[s].detail BY <1>1, <2>1 DEF Flagged, Rows
  <2> QED BY <2>1, <2>2
<1>4. ~(\E S, flags : run' = Flagged(run, S, flags)) BY <1>1 DEF Flagged, Rows
<1>5. ~(\E r, new : run' = [run EXCEPT ![r].status = new]) BY <1>1 DEF Rows
<1>6. ~(\E r, new : run' = [run EXCEPT ![r] = new] /\ new.status # "completed")
  BY <1>1
<1>7. CASE Enter
  <2>1. ~EnterReindex BY <1>1 DEF EnterReindex
  <2>2. ~EnterOutline /\ ~RefuseOutline BY <1>1 DEF EnterOutline, RefuseOutline
  <2> QED BY <1>1, <1>5, <1>7, <2>1, <2>2 DEF Enter, EnterFull, EnterDerived, EnterMap, RefuseMap
<1>8. ASSUME NEW r \in Stages, Stage(r) PROVE r = s /\ (ReuseStage(r) \/ FinishStage(r))
  <2>1. ~SkipStage(r) BY <1>1 DEF SkipStage, Close
  <2>2. ~BeginStage(r) BY <1>1 DEF BeginStage
  <2>3. run' # Failed(r) BY <1>1, <1>5 DEF Failed
  <2>4. ~TryNext(r) /\ ~FailCycle(r) BY <2>3 DEF TryNext, FailCycle
  <2>5. ~FailStage(r) BY <1>1, <1>5, <2>3 DEF FailStage, Close
  <2>6. (ReuseStage(r) \/ FinishStage(r)) => r = s BY <1>1 DEF ReuseStage, FinishStage, Close
  <2> QED BY <1>8, <2>1, <2>2, <2>4, <2>5, <2>6 DEF Stage
<1>9. CASE Persist
  BY <1>1, <1>2, <1>9
    DEF Persist, PersistTranscript, PersistAligned, PersistDiarized, PersistPolished, PersistNote,
     PersistMap, PersistOutline, PersistIndex, DerivedGoStale
<1>10. CASE Special
  <2>1. ~SkipDerived BY <1>1 DEF SkipDerived
  <2>2. ~RejectNoise BY <1>1 DEF RejectNoise
  <2>3. ~FailReindex BY <1>1, <1>5 DEF FailReindex, Failed
  <2>4. ~RetireSpeech /\ ~SkipVocabulary BY <1>1 DEF RetireSpeech, SkipVocabulary
  <2>5. ~ApplyVocabulary BY <1>2 DEF ApplyVocabulary, DerivedGoStale
  <2>6. ~HoldMap BY <1>5 DEF HoldMap
  <2>7. PublishReindex => s = "index" BY <1>1 DEF PublishReindex, Close
  <2> QED BY <1>10, <2>1, <2>2, <2>3, <2>4, <2>5, <2>6, <2>7 DEF Special
<1>11. CASE End BY <1>1, <1>4, <1>11 DEF End, FinishCycle, FinishMap, FinishOutline, Release
<1>12. CASE MarkReprocess \/ MarkNotes \/ MarkMap \/ RejectMap
  <2>1. ~MarkMap BY <1>1 DEF MarkMap
  <2>2. ~MarkNotes
    <3>1. SUFFICES ASSUME MarkNotes PROVE FALSE OBVIOUS
    <3> DEFINE q == Stale(run, Derived)
               r == Flagged(q, Derived, {"derived_only"})
    <3>2. q \in [Stages -> Rows] /\ "stale" \in q[s].detail BY <1>1, StaleTyped DEF Stale
    <3>3. run' = [r EXCEPT !["mind_map"].detail = @ \ {"only"}] BY <3>1 DEF MarkNotes
    <3> HIDE DEF q
    <3>4. r \in [Stages -> Rows] /\ "stale" \in r[s].detail
      BY <1>1, <3>2, FlaggedTyped, {"derived_only"} \in Details DEF Flagged, Rows, Details
    <3> HIDE DEF r
    <3>5. "stale" \in run'[s].detail BY <1>1, <3>3, <3>4 DEF Rows
    <3> QED BY <3>5
  <2> QED BY <1>1, <1>12, <2>1, <2>2 DEF MarkReprocess, RejectMap
<1>13. CASE DaemonStep
  <2>1. ~Recover BY <1>1 DEF Recover, Rows
  <2> QED BY <1>1, <1>13, <2>1 DEF DaemonStep, Dispatch, DispatchReindex, Evict, Crash, RetryDue
<1>14. CASE Users
  <2>1. ~RebuildOutline
    <3>1. SUFFICES ASSUME RebuildOutline PROVE FALSE OBVIOUS
    <3> DEFINE row == [status |-> "pending", detail |-> {"only", "stale"}]
    <3>2. run' = [run EXCEPT !["outline"] = row] BY <3>1 DEF RebuildOutline
    <3>3. row.status # "completed" OBVIOUS
    <3> HIDE DEF row
    <3> QED BY <1>1, <1>6, <3>2, <3>3
  <2>2. ~QueueForce BY <1>1 DEF QueueForce, Rows
  <2>3. ~EditTranscript /\ ~RenameSpeaker /\ ~QueueDerived
    BY <1>3 DEF EditTranscript, RenameSpeaker, QueueDerived
  <2>4. ~RestoreNote BY <1>1, <1>2 DEF RestoreNote
  <2> QED
    BY <1>1, <1>14, <2>1, <2>2, <2>3, <2>4
      DEF Users, AskRecording, ClaimRequest, AskLibrary, QueueResume
<1>15. CASE UNCHANGED vars BY <1>1, <1>15 DEF vars
<1> QED BY <1>7, <1>8, <1>9, <1>10, <1>11, <1>12, <1>13, <1>14, <1>15 DEF Next, Work

\* In a library whose users force nothing, the mark of an outdated map, outline or index
\* leaves a completed stage only when the artifact stands for the text there is then.
\* (pipeline.py _finish_stage with expected_stale_generation)
THEOREM MarksOutliveAttempts == ASSUME NoForce PROVE Spec => MarkOutlivesAttempt
<1>1. Init => CycleInv BY InitCycle
<1>2. CycleInv /\ [Next]_vars => CycleInv' BY NextCycle
<1> DEFINE Dropped ==
             \A s \in {"mind_map", "outline", "index"} :
               Has(s, "stale") /\ run'[s].status = "completed" /\ "stale" \notin run'[s].detail
                 => built'[s].text = canon'.text
<1>3. CycleInv /\ [Next]_vars => Dropped
  <2> SUFFICES ASSUME CycleInv, [Next]_vars, NEW s \in {"mind_map", "outline", "index"},
                      Has(s, "stale"), run'[s].status = "completed", "stale" \notin run'[s].detail
               PROVE  built'[s].text = canon'.text
    OBVIOUS
  <2>1. TypeOK /\ WorkInv /\ ChunksAreCurrent BY DEF CycleInv, TypeInv, DataInv
  <2>2. Lineage.text = canon.text BY DEF Lineage
  <2>3. CASE ReuseStage(s)
    <3>1. s = "index" /\ built[s] # NoLineage BY <2>3 DEF ReuseStage, Reusable
    <3> QED BY <2>1, <2>3, <3>1 DEF ReuseStage, ChunksAreCurrent, textVars, artVars
  <2>4. CASE FinishStage(s)
    <3>1. built[s] = work.lineage /\ work.lineage = Lineage
      BY <2>1, <2>4 DEF FinishStage, WorkInv, OutputIsStored, InputsAreRead, AtWork, Derived
    <3> QED BY <2>2, <2>4, <3>1 DEF FinishStage, textVars, artVars
  <2>5. CASE s = "index" /\ PublishReindex
    <3>1. work.lineage = Lineage
      BY <2>1, <2>5 DEF PublishReindex, WorkInv, WorkFits, InputsAreRead, AtWork, Derived
    <3>2. built' = [built EXCEPT !["index"] = work.lineage] \/ UNCHANGED <<built, run>>
      BY <2>5 DEF PublishReindex
    <3>3. ~UNCHANGED run BY DEF Has
    <3>4. built'["index"] = Lineage BY <2>1, <3>1, <3>2, <3>3 DEF TypeOK
    <3> QED BY <2>2, <2>5, <3>4 DEF PublishReindex, textVars
  <2> QED BY <2>1, <2>3, <2>4, <2>5, MarkDrops
<1>4. Dropped =>
        [\A s \in {"mind_map", "outline", "index"} :
           Has(s, "stale") /\ run'[s].status = "completed" /\ "stale" \notin run'[s].detail
             => built'[s].text = canon'.text]_vars
  OBVIOUS
<1> HIDE DEF Dropped
<1> QED BY <1>1, <1>2, <1>3, <1>4, PTL DEF Spec, MarkOutlivesAttempt

\* The steps that touch the live map or the note it was made from.
LEMMA MapChanges ==
  ASSUME TypeOK, [Next]_vars, <<note'.mapped, built'["mind_map"]>> # <<note.mapped, built["mind_map"]>>
  PROVE  PersistMap
<1>1. built \in [{"mind_map", "outline", "index"} -> Lineages] /\ note \in NoteChoices BY DEF TypeOK
<1>2. ~(note' = note /\ built' = built) OBVIOUS
<1>3. ~(note' = note /\ \E l : built' = [built EXCEPT !["index"] = l]) BY <1>1
<1>4. CASE Enter
  BY <1>2, <1>4
    DEF Enter, EnterFull, EnterDerived, EnterMap, RefuseMap, EnterOutline, RefuseOutline, EnterReindex,
     artVars
<1>5. CASE \E s \in Stages : Stage(s)
  BY <1>2, <1>5
    DEF Stage, SkipStage, ReuseStage, BeginStage, FinishStage, TryNext, FailStage, FailCycle, artVars
<1>6. CASE Persist
  <2>1. ~PersistTranscript /\ ~PersistAligned BY <1>2 DEF PersistTranscript, PersistAligned, artVars
  <2>2. ~PersistDiarized /\ ~PersistPolished /\ ~PersistIndex
    BY <1>3 DEF PersistDiarized, PersistPolished, PersistIndex, DerivedGoStale
  <2>3. ~PersistOutline BY <1>1 DEF PersistOutline
  <2>4. ~PersistNote BY <1>1 DEF PersistNote, NoteChoices
  <2> QED BY <1>6, <2>1, <2>2, <2>3, <2>4 DEF Persist
<1>7. CASE Special
  <2>1. ~RetireSpeech /\ ~SkipVocabulary /\ ~RejectNoise /\ ~HoldMap /\ ~FailReindex
    BY <1>2 DEF RetireSpeech, SkipVocabulary, RejectNoise, HoldMap, FailReindex, artVars
  <2>2. ~ApplyVocabulary /\ ~SkipDerived /\ ~PublishReindex
    BY <1>2, <1>3 DEF ApplyVocabulary, SkipDerived, PublishReindex, DerivedGoStale
  <2> QED BY <1>7, <2>1, <2>2 DEF Special
<1>8. CASE End \/ MarkReprocess \/ MarkNotes \/ MarkMap \/ RejectMap
  BY <1>2, <1>8
    DEF End, FinishCycle, FinishMap, FinishOutline, Release, MarkReprocess, MarkNotes, MarkMap,
     RejectMap, artVars
<1>9. CASE DaemonStep
  BY <1>2, <1>9 DEF DaemonStep, Dispatch, DispatchReindex, Evict, Crash, Recover, RetryDue, artVars
<1>10. CASE Users
  <2>1. ~EditTranscript /\ ~RenameSpeaker BY <1>3 DEF EditTranscript, RenameSpeaker
  <2>2. ~RestoreNote BY <1>1 DEF RestoreNote, NoteChoices
  <2> QED
    BY <1>2, <1>10, <2>1, <2>2
      DEF Users, RebuildOutline, AskRecording, ClaimRequest, AskLibrary, QueueResume,
     QueueForce, QueueDerived, artVars
<1>11. CASE UNCHANGED vars BY <1>2, <1>11 DEF vars, artVars
<1> QED BY <1>4, <1>5, <1>6, <1>7, <1>8, <1>9, <1>10, <1>11 DEF Next, Work

\* In a library whose users force nothing, a map is made from a note about the text the map
\* is about, or from an older one a user chose.
\* (pipeline.py _persist_summary expected_mind_map_inputs)
THEOREM MapsReadCurrentNotes == ASSUME NoForce PROVE Spec => MapReadsCurrentNote
<1>1. Init => CycleInv BY InitCycle
<1>2. CycleInv /\ [Next]_vars => CycleInv' BY NextCycle
<1> DEFINE Reads ==
             note'.mapped # 0 /\ <<note'.mapped, built'["mind_map"]>> # <<note.mapped, built["mind_map"]>>
               => note'.chosen \/ drafts'[note'.mapped].text = built'["mind_map"].text
<1>3. CycleInv /\ [Next]_vars => Reads
  <2> SUFFICES ASSUME CycleInv, [Next]_vars, note'.mapped # 0,
                      <<note'.mapped, built'["mind_map"]>> # <<note.mapped, built["mind_map"]>>
               PROVE  note'.chosen \/ drafts'[note'.mapped].text = built'["mind_map"].text
    OBVIOUS
  <2>1. TypeOK /\ WorkInv /\ NoteIsCurrent BY DEF CycleInv, TypeInv, DataInv
  <2>2. PersistMap BY <2>1, MapChanges
  <2>3. /\ work.note = note.live /\ work.lineage = Lineage
    BY <2>1, <2>2 DEF PersistMap, Running, WorkInv, InputsAreRead, AtWork, Derived
  <2>4. /\ note'.mapped = note.live /\ note'.chosen = note.chosen /\ built'["mind_map"] = Lineage
        /\ drafts' = drafts
    BY <2>1, <2>2, <2>3 DEF PersistMap, TypeOK, NoteChoices
  <2>5. ~Has("summarize", "stale") BY <2>2, <2>3, <2>4 DEF PersistMap, MapInputsHold
  <2>6. Lineage.text = canon.text BY DEF Lineage
  <2> QED BY <2>1, <2>4, <2>5, <2>6 DEF NoteIsCurrent
<1>4. Reads => [note'.mapped # 0
                  /\ <<note'.mapped, built'["mind_map"]>> # <<note.mapped, built["mind_map"]>>
                  => note'.chosen \/ drafts'[note'.mapped].text = built'["mind_map"].text]_vars
  OBVIOUS
<1> HIDE DEF Reads
<1> QED BY <1>1, <1>2, <1>3, <1>4, PTL DEF Spec, MapReadsCurrentNote
=============================================================================
