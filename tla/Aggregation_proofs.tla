------------------------- MODULE Aggregation_proofs -------------------------
(***************************************************************************)
(* What the run of Aggregation shows, for any number of iterations, rules, *)
(* interruptions and values of the metric.                                 *)
(***************************************************************************)
EXTENDS Aggregation, TLAPS

\* What the loop has in memory is never worse than what it started from; it runs in
\* the stage of refinement, in the run that made the analysis, and before it no
\* iteration has left a file.
LoopSound ==
    /\ ~At("off") => run.held.score >= config.score[Selected]
    /\ ~LoopAt("off") => /\ At("refining") /\ run.analysis /\ "refining" \notin marks
                         /\ loop.current = loop.best.score
                         /\ loop.best.score >= config.score[Selected]
    /\ LoopAt("iterate") \/ LoopAt("scored") => \A i \in Iterations : i >= loop.it => ~HasFile(i)
    /\ LoopAt("written") => \A i \in Iterations : i > loop.it => ~HasFile(i)
    /\ LoopAt("scored") \/ LoopAt("written") => loop.it < MaxIterations
    /\ run.analysis => /\ "analyzing" \in marks
                       /\ run.at \notin {"off", "gates", "selecting", "analyzing"}
    /\ "analyzing" \notin marks => \A i \in Iterations : ~HasFile(i)
    /\ At("refining") /\ LoopAt("off") /\ run.analysis => \A i \in Iterations : ~HasFile(i)

AfterSelecting ==
    {"analyzing", "refining", "refined", "ablating", "optimizing", "logging", "created",
     "rowed", "filed", "exporting", "exported", "done"}

\* Where a run is, the stages before it are marked, and the one under way is not.
PlacesMarked ==
    /\ run.at \in AfterSelecting => "selecting" \in marks
    /\ run.at \in {"exporting", "exported", "done"} => "logging" \in marks
    /\ run.at \in {"created", "rowed", "filed"} => "logging" \notin marks

\* One MLflow run at most for each interruption, and the places that name it are
\* written one after another.
MlflowSound ==
    /\ mlflow.created <= faults
           + (IF run.at \in {"created", "rowed", "filed"} \/ "logging" \in marks THEN 1 ELSE 0)
    /\ run.at \in {"created", "rowed", "filed"} => mlflow.created >= 1
    /\ run.at \in {"rowed", "filed"} => mlflow.row = mlflow.created
    /\ At("filed") => mlflow.file = mlflow.created
    /\ "logging" \in marks =>
          /\ mlflow.row = mlflow.file /\ mlflow.row \in 1..(MaxFaults + 1)
          /\ mlflow.metric[mlflow.row] # -1
    /\ \A i \in 1..(MaxFaults + 1) :
          mlflow.metric[i] # -1 => mlflow.metric[i] >= config.score[Selected]

\* What is exported names the run of the row, which is not written again.
ReportSound == report # NoReport => "logging" \in marks /\ report.mlflow = mlflow.row

\* The inductive invariant.
AggregationInv == TypeOK /\ LoopSound /\ PlacesMarked /\ MlflowSound /\ ReportSound

-----------------------------------------------------------------------------
(* The selection and the initial states *)

ConfigType == [refine: BOOLEAN, ablate: BOOLEAN, mode: BOOLEAN, rules: {0, NumRules},
               score: [Strategies -> Scores]]

\* The selection is a strategy.
LEMMA SelectedType ==
    ASSUME config.score \in [Strategies -> Scores]
    PROVE  Selected \in Strategies
<1> DEFINE f == config.score
<1>1. f["dbscan"] \in Int /\ f["hdbscan"] \in Int /\ f["few_shot"] \in Int
  BY DEF Strategies, Distilled, Scores
<1>2. \E s \in Strategies : \A t \in Strategies : f[t] <= f[s]
  <2>1. CASE f["hdbscan"] <= f["dbscan"] /\ f["few_shot"] <= f["dbscan"]
    BY <1>1, <2>1 DEF Strategies, Distilled
  <2>2. CASE f["dbscan"] <= f["hdbscan"] /\ f["few_shot"] <= f["hdbscan"]
    BY <1>1, <2>2 DEF Strategies, Distilled
  <2>3. CASE f["dbscan"] <= f["few_shot"] /\ f["hdbscan"] <= f["few_shot"]
    BY <1>1, <2>3 DEF Strategies, Distilled
  <2>4. QED BY <1>1, <2>1, <2>2, <2>3
<1>3. QED BY <1>2 DEF Selected

LEMMA NoRunType == NoRun \in Run /\ NoLoop \in Loop
<1>1. NoRun \in Run
  BY LoopAssumption DEF NoRun, Run, Places, NoEvaluation, Evaluation, Versions, Scores
<1>2. NoLoop \in Loop
  BY LoopAssumption
  DEF NoLoop, Loop, LoopPlaces, NoEvaluation, Evaluation, Versions, Scores
<1>3. QED BY <1>1, <1>2

-----------------------------------------------------------------------------
(* The types *)

LEMMA TypeInit == Init => TypeOK
<1> SUFFICES ASSUME Init PROVE TypeOK
  OBVIOUS
<1>1. run \in Run /\ loop \in Loop
  BY NoRunType DEF Init
<1>2. mlflow \in [created: 0..(MaxFaults + 1), row: 0..(MaxFaults + 1),
                  file: 0..(MaxFaults + 1), metric: [1..(MaxFaults + 1) -> Scores \cup {-1}]]
  BY AggregationAssumption DEF Init
<1>3. report \in [score: Scores \cup {-1}, prompt: Versions, records: SUBSET Candidates,
                  artifact: BOOLEAN, rows: SUBSET Modes, mlflow: 0..(MaxFaults + 1)]
  BY AggregationAssumption, LoopAssumption DEF Init, NoReport, Versions
<1>4. faults \in 0..MaxFaults /\ bestFile \in Versions
  BY AggregationAssumption, LoopAssumption DEF Init, Versions
<1>5. QED BY <1>1, <1>2, <1>3, <1>4 DEF Init, TypeOK

\* Every step keeps the types.
LEMMA GotoType ==
    ASSUME run \in Run, NEW place \in Places
    PROVE  [run EXCEPT !.at = place] \in Run
BY DEF Run

LEMMA LoopFields ==
    ASSUME loop \in Loop
    PROVE  /\ loop.it \in 0..MaxIterations /\ loop.new \in Scores /\ loop.current \in Scores
           /\ loop.best \in Evaluation /\ loop.improved \in BOOLEAN /\ loop.at \in LoopPlaces
BY DEF Loop

\* The steps of the loop.
LEMMA IterateType ==
    ASSUME AggregationInv, Iterate
    PROVE  loop' \in Loop /\ files' \in [Iterations -> IterationFile \cup {NoFile}]
           /\ bestFile' \in Versions
<1> USE LoopAssumption DEF AggregationInv, TypeOK
<1>1. CASE Break
  BY <1>1 DEF Break, LoopGoto, Loop, LoopPlaces
<1>2. CASE WriteIteration
  <2>1. Verdict \in StopReasons
    BY DEF Verdict, StopReason, StopReasons
  <2>2. [prior |-> loop.current, new |-> loop.new, stop |-> Verdict] \in IterationFile
    BY <2>1, LoopFields DEF IterationFile
  <2>3. loop' \in Loop
    BY <1>2 DEF WriteIteration, LoopGoto, Loop, LoopPlaces
  <2>4. QED BY <1>2, <2>2, <2>3 DEF WriteIteration
<1>3. CASE Judge
  <2>1. CASE Verdict = "regression"
    BY <1>3, <2>1 DEF Judge, LoopGoto, Loop, LoopPlaces
  <2>2. CASE Verdict # "regression"
    <3>1. loop.it + 1 \in Versions /\ loop.it + 1 \in 0..MaxIterations
      BY <1>3, LoopFields DEF Judge, LoopSound, Versions
    <3>2. [rules |-> Version, score |-> loop.new] \in Evaluation
      BY <3>1, LoopFields DEF Version, Evaluation
    <3> DEFINE place == IF Verdict = "continue" THEN "iterate" ELSE "end"
               best == [rules |-> Version, score |-> loop.new]
    <3>3. loop' = [loop EXCEPT !.at = place, !.it = loop.it + 1, !.current = loop.new,
                               !.improved = TRUE, !.best = best]
      BY <1>3, <2>2 DEF Judge
    <3>4. place \in LoopPlaces
      BY DEF LoopPlaces
    <3> HIDE DEF place, best
    <3>5. loop' \in Loop
      BY <3>1, <3>2, <3>3, <3>4, LoopFields DEF Loop, best
    <3>6. QED BY <1>3, <2>2, <3>5 DEF Judge
  <2>3. QED BY <2>1, <2>2
<1>4. CASE \E s \in Scores : Evaluate(s)
  <2>1. PICK s \in Scores : Evaluate(s)
    BY <1>4
  <2>2. CASE HasFile(loop.it)
    <3>1. loop' = [loop EXCEPT !.it = loop.it + 1, !.current = files[loop.it].new]
      BY <2>1, <2>2 DEF Evaluate
    <3>2. loop.it + 1 \in 0..MaxIterations /\ loop.it \in Iterations
      <4>1. loop.it < MaxIterations
        BY <2>1 DEF Evaluate
      <4>2. loop.it \in 0..MaxIterations /\ MaxIterations \in Nat
        BY LoopFields
      <4> HIDE DEF AggregationInv, TypeOK
      <4> QED
        BY <4>1, <4>2 DEF Iterations
    <3>3. files[loop.it] \in IterationFile
      <4>1. files[loop.it] \in IterationFile \cup {NoFile} /\ files[loop.it] # NoFile
        BY <2>2, <3>2 DEF HasFile
      <4> QED
        BY <4>1
    <3>4. files[loop.it].new \in Scores
      BY <3>3 DEF IterationFile
    <3>5. QED BY <2>1, <3>1, <3>2, <3>4 DEF Evaluate, Loop
  <2>3. CASE ~HasFile(loop.it)
    <3>1. loop' = [loop EXCEPT !.at = "scored", !.new = s]
      BY <2>1, <2>3 DEF Evaluate
    <3>2. UNCHANGED <<files, bestFile>>
      BY <2>1 DEF Evaluate
    <3>3. loop' \in Loop
      BY <3>1 DEF Loop, LoopPlaces
    <3>4. QED BY <3>2, <3>3
  <2>4. QED BY <2>2, <2>3
<1>5. QED BY <1>1, <1>2, <1>3, <1>4 DEF Iterate

LEMMA MarkType ==
    ASSUME TypeOK, NEW m \in Stages \cup Strategies \cup Modes
    PROVE  marks \cup {m} \subseteq Stages \cup Strategies \cup Modes
BY DEF TypeOK

\* The steps that only move the run, and write one table or none.
LEMMA MoveType ==
    ASSUME AggregationInv,
           \/ EndGates \/ MarkSelected \/ EndSelecting \/ Analyze \/ SkipLoop \/ MarkRefined
           \/ EndAblation \/ EndOptimizing \/ MarkExported
           \/ \E stage \in Stages : Skip(stage)
           \/ \E s \in Strategies : CheckGates(s)
    PROVE  TypeOK'
<1> USE DEF AggregationInv
<1>0. run \in Run /\ TypeOK
  BY DEF TypeOK
<1>1. CASE EndGates \/ SkipLoop
  <2>1. UNCHANGED <<tables, loop, disk, faults>>
    BY <1>1 DEF EndGates, SkipLoop
  <2>2. run' \in Run
    BY <1>0, <1>1, GotoType DEF EndGates, SkipLoop, Goto, Places, Stages
  <2>3. QED BY <1>0, <2>1, <2>2 DEF TypeOK, tables, disk
<1>2. CASE MarkSelected
  <2>1. chosen' \subseteq Distilled
    BY <1>2 DEF MarkSelected, TypeOK
  <2>2. QED BY <1>2, <2>1 DEF MarkSelected, TypeOK, memory, disk
<1>3. CASE EndSelecting
  <2>1. run' \in Run
    BY <1>0, <1>3, GotoType DEF EndSelecting, Goto, Places, Stages
  <2>2. marks' \subseteq Stages \cup Strategies \cup Modes
    BY <1>0, <1>3, MarkType DEF EndSelecting, Mark, Stages
  <2>3. QED BY <1>3, <2>1, <2>2 DEF EndSelecting, TypeOK, disk
<1>4. CASE Analyze
  <2> DEFINE made == Selected \in Distilled
  <2>0. made \in BOOLEAN /\ run' = [run EXCEPT !.at = "refining", !.analysis = made]
    BY <1>4 DEF Analyze
  <2> HIDE DEF made
  <2>1. run' \in Run
    BY <1>0, <2>0 DEF Run, Places, Stages
  <2>2. marks' \subseteq Stages \cup Strategies \cup Modes
    BY <1>0, <1>4, MarkType DEF Analyze, Mark, Stages
  <2>3. QED BY <1>4, <2>1, <2>2 DEF Analyze, TypeOK, disk
<1>5. CASE MarkRefined \/ EndOptimizing \/ MarkExported
  <2>1. run' \in Run
    BY <1>0, <1>5, GotoType DEF MarkRefined, EndOptimizing, MarkExported, Goto, Places, Stages
  <2>2. marks' \subseteq Stages \cup Strategies \cup Modes
    BY <1>0, <1>5, MarkType DEF MarkRefined, EndOptimizing, MarkExported, Mark, Stages
  <2>3. QED BY <1>5, <2>1, <2>2 DEF MarkRefined, EndOptimizing, MarkExported, TypeOK, disk
<1>6. CASE EndAblation
  <2>1. Ablates \in BOOLEAN
    BY DEF Ablates, HasRules, TypeOK
  <2>2. run' \in Run
    BY <1>0, <1>6, <2>1 DEF EndAblation, Run, Places, Stages
  <2>3. marks' \subseteq Stages \cup Strategies \cup Modes
    BY <1>0, <1>6, MarkType DEF EndAblation, Mark, Stages
  <2>4. QED BY <1>6, <2>2, <2>3 DEF EndAblation, TypeOK, disk
<1>7. CASE \E stage \in Stages : Skip(stage)
  <2>1. PICK stage \in Stages : Skip(stage)
    BY <1>7
  <2>2. After[stage] \in Places
    BY DEF After, Stages, Places
  <2>3. QED BY <1>0, <2>1, <2>2, GotoType DEF Skip, Goto, TypeOK, tables, disk
<1>8. CASE \E s \in Strategies : CheckGates(s)
  <2>1. PICK s \in Strategies : CheckGates(s)
    BY <1>8
  <2>2. marks' \subseteq Stages \cup Strategies \cup Modes
    BY <1>0, <2>1, MarkType DEF CheckGates, Mark
  <2>3. QED BY <2>1, <2>2 DEF CheckGates, TypeOK, memory, disk
<1>9. QED BY <1>1, <1>2, <1>3, <1>4, <1>5, <1>6, <1>7, <1>8

\* The steps that begin, end or lose a run or a loop.
LEMMA BoundaryType ==
    ASSUME AggregationInv,
           Begin \/ Interrupt \/ CompleteJob \/ StartLoop \/ EndLoop
               \/ (Iterate /\ UNCHANGED <<tables, run, faults>>)
    PROVE  TypeOK'
<1> USE DEF AggregationInv
<1>0. run \in Run /\ TypeOK /\ NoRun \in Run /\ NoLoop \in Loop
  BY NoRunType DEF TypeOK
<1>1. CASE Begin
  <2>1. [rules |-> 0, score |-> config.score[Selected]] \in Evaluation
    BY SelectedType, LoopAssumption DEF TypeOK, Evaluation, Versions
  <2>2. run' \in Run
    BY <1>0, <1>1, <2>1 DEF Begin, Run, Places
  <2>3. QED BY <1>1, <2>2 DEF Begin, TypeOK, tables, disk
<1>2. CASE Interrupt
  <2>1. faults' \in 0..MaxFaults
    BY <1>2, AggregationAssumption DEF Interrupt, TypeOK
  <2>2. QED BY <1>0, <1>2, <2>1 DEF Interrupt, TypeOK, tables, disk
<1>3. CASE CompleteJob
  BY <1>0, <1>3 DEF CompleteJob, TypeOK, disk
<1>4. CASE StartLoop
  <2>1. run.held \in Evaluation
    BY <1>0 DEF Run
  <2>2. Started(run.held) \in Loop
    BY <2>1, LoopAssumption DEF Started, Loop, Evaluation, LoopPlaces, Scores
  <2>3. QED BY <1>4, <2>2 DEF StartLoop, TypeOK, tables, disk
<1>5. CASE EndLoop
  <2>1. loop.best \in Evaluation /\ loop.best.rules \in Versions
    BY LoopFields DEF TypeOK, Evaluation
  <2>2. run' \in Run
    BY <1>0, <1>5, <2>1 DEF EndLoop, Run, Places
  <2>3. bestFile' \in Versions
    BY <1>5, <2>1 DEF EndLoop, BestRules, TypeOK
  <2>4. QED BY <1>0, <1>5, <2>2, <2>3 DEF EndLoop, TypeOK, tables
<1>6. CASE Iterate /\ UNCHANGED <<tables, run, faults>>
  BY <1>6, IterateType DEF TypeOK, tables
<1>7. QED BY <1>1, <1>2, <1>3, <1>4, <1>5, <1>6

\* The steps of ablation and of the optimizer.
LEMMA StoredType ==
    ASSUME AggregationInv,
           \/ \E c \in Candidates : AblateRule(c) \/ RecordRule(c)
           \/ \E m \in Modes : PruneMode(m) \/ RecordMode(m)
    PROVE  TypeOK'
<1> USE DEF AggregationInv
<1>0. run \in Run /\ TypeOK /\ stored \in [rules: SUBSET Candidates, modes: SUBSET Modes]
  BY DEF TypeOK
<1>1. CASE \E c \in Candidates : AblateRule(c)
  <2>1. stored' \in [rules: SUBSET Candidates, modes: SUBSET Modes]
    BY <1>0, <1>1 DEF AblateRule
  <2>2. QED BY <1>1, <2>1 DEF AblateRule, TypeOK, memory, disk
<1>2. CASE \E c \in Candidates : RecordRule(c)
  <2>1. run' \in Run /\ ablated' \subseteq Candidates
    BY <1>0, <1>2 DEF RecordRule, Recorded, Run, TypeOK
  <2>2. QED BY <1>2, <2>1 DEF RecordRule, TypeOK, disk
<1>3. CASE \E m \in Modes : PruneMode(m)
  <2>1. stored' \in [rules: SUBSET Candidates, modes: SUBSET Modes]
    BY <1>0, <1>3 DEF PruneMode
  <2>2. QED BY <1>3, <2>1 DEF PruneMode, TypeOK, memory, disk
<1>4. CASE \E m \in Modes : RecordMode(m)
  <2>1. PICK m \in Modes : RecordMode(m)
    BY <1>4
  <2>2. run' \in Run
    BY <1>0, <2>1 DEF RecordMode, Run
  <2>3. marks' \subseteq Stages \cup Strategies \cup Modes
    BY <1>0, <2>1, MarkType DEF RecordMode, Mark
  <2>4. QED BY <2>1, <2>2, <2>3 DEF RecordMode, TypeOK, disk
<1>5. QED BY <1>1, <1>2, <1>3, <1>4

\* The steps of MLflow and of the export.
LEMMA LoggingType ==
    ASSUME AggregationInv,
           CreateMlflowRun \/ SetMlflowRunId \/ WriteMlflowRunId \/ LogMetrics \/ Export
    PROVE  TypeOK'
<1> USE DEF AggregationInv
<1> DEFINE Numbers == 0..(MaxFaults + 1)
           Mlflow == [created: Numbers, row: Numbers, file: Numbers,
                      metric: [1..(MaxFaults + 1) -> Scores \cup {-1}]]
<1>0. run \in Run /\ TypeOK /\ mlflow \in Mlflow /\ faults \in 0..MaxFaults /\ MaxFaults \in Nat
  BY AggregationAssumption DEF TypeOK
<1>1. CASE CreateMlflowRun
  <2>1. mlflow.created + 1 \in Numbers
    BY <1>0, <1>1 DEF CreateMlflowRun, Open, MlflowSound, At
  <2>2. mlflow' \in Mlflow
    BY <1>0, <1>1, <2>1 DEF CreateMlflowRun
  <2>3. run' \in Run
    BY <1>0, <1>1, GotoType DEF CreateMlflowRun, Goto, Places
  <2>4. QED BY <1>1, <2>2, <2>3 DEF CreateMlflowRun, TypeOK, disk
<1>2. CASE SetMlflowRunId \/ WriteMlflowRunId
  <2>1. mlflow' \in Mlflow
    BY <1>0, <1>2 DEF SetMlflowRunId, WriteMlflowRunId, FileRun
  <2>2. run' \in Run
    <3>1. CASE SetMlflowRunId
      BY <1>0, <3>1, GotoType DEF SetMlflowRunId, Goto, Places
    <3>2. CASE WriteMlflowRunId
      BY <1>0, <3>2, GotoType DEF WriteMlflowRunId, Goto, Places
    <3>3. QED BY <1>2, <3>1, <3>2
  <2>3. QED BY <1>2, <2>1, <2>2 DEF SetMlflowRunId, WriteMlflowRunId, TypeOK, disk
<1>3. CASE LogMetrics
  <2>1. run.held.score \in Scores
    BY <1>0 DEF Run, Evaluation
  <2>2. mlflow' \in Mlflow
    <3>1. [mlflow.metric EXCEPT ![mlflow.created] = run.held.score]
              \in [1..(MaxFaults + 1) -> Scores \cup {-1}]
      BY <1>0, <2>1
    <3>2. mlflow' = [mlflow EXCEPT !.metric = [mlflow.metric EXCEPT ![mlflow.created] = run.held.score]]
      BY <1>3 DEF LogMetrics
    <3>3. QED BY <1>0, <3>1, <3>2
  <2>3. run' \in Run
    BY <1>0, <1>3, GotoType DEF LogMetrics, Goto, Places, Stages
  <2>4. marks' \subseteq Stages \cup Strategies \cup Modes
    BY <1>0, <1>3, MarkType DEF LogMetrics, Mark, Stages
  <2>5. QED BY <1>3, <2>2, <2>3, <2>4 DEF LogMetrics, TypeOK, disk
<1>4. CASE Export
  <2>1. Compared \in Scores
    BY SelectedType DEF TypeOK, Compared
  <2>2. run' \in Run
    BY <1>0, <1>4, GotoType DEF Export, Goto, Places
  <2>3. run.prompt \in Versions /\ run.rows \in SUBSET Modes /\ run.records \in SUBSET Candidates
        /\ run.artifact \in BOOLEAN /\ report.records \in SUBSET Candidates
        /\ report.artifact \in BOOLEAN /\ mlflow.file \in Numbers
    BY <1>0 DEF Run, TypeOK
  <2>4. report' \in [score: Scores \cup {-1}, prompt: Versions, records: SUBSET Candidates,
                     artifact: BOOLEAN, rows: SUBSET Modes, mlflow: Numbers]
    BY <1>4, <2>1, <2>3 DEF Export
  <2>5. QED BY <1>4, <2>2, <2>4 DEF Export, TypeOK, disk
<1>5. QED BY <1>1, <1>2, <1>3, <1>4

LEMMA TypeStep == AggregationInv /\ [Next]_vars => TypeOK'
<1> SUFFICES ASSUME AggregationInv, [Next]_vars PROVE TypeOK'
  OBVIOUS
<1>1. CASE Next
  BY <1>1, MoveType, BoundaryType, StoredType, LoggingType DEF Next, Work
<1>2. CASE UNCHANGED vars
  BY <1>2 DEF AggregationInv, TypeOK, vars, tables, memory, disk
<1>3. QED BY <1>1, <1>2

-----------------------------------------------------------------------------
(* The loop *)

\* The configuration never changes, and the selection with it.
LEMMA SelectedConstant == [Next]_vars => config' = config /\ Selected' = Selected
<1> SUFFICES ASSUME [Next]_vars PROVE config' = config
  BY DEF Selected
<1> QED
  BY DEF Next, Work, vars, tables, memory, disk, Begin, Interrupt, EndGates, MarkSelected,
         EndSelecting, Analyze, Skip, CheckGates, StartLoop, SkipLoop, EndLoop, MarkRefined,
         EndAblation, EndOptimizing, AblateRule, RecordRule, PruneMode, RecordMode,
         CreateMlflowRun, SetMlflowRunId, WriteMlflowRunId, LogMetrics, Export, MarkExported,
         CompleteJob

LEMMA InitInv == Init => AggregationInv
<1> SUFFICES ASSUME Init PROVE AggregationInv
  OBVIOUS
<1>1. TypeOK
  BY TypeInit
<1>2. run.at = "off" /\ ~run.analysis /\ loop.at = "off"
  BY DEF Init, NoRun, NoLoop
<1>3. \A i \in Iterations : ~HasFile(i)
  BY DEF Init, HasFile
<1>4. LoopSound /\ PlacesMarked
  BY <1>2, <1>3 DEF LoopSound, PlacesMarked, At, LoopAt, AfterSelecting, Init
<1>5. MlflowSound
  BY <1>2, AggregationAssumption DEF MlflowSound, Init, At
<1>6. ReportSound
  BY DEF ReportSound, Init
<1>7. QED BY <1>1, <1>4, <1>5, <1>6 DEF AggregationInv

\* The steps of the loop keep what it holds.
LEMMA IterateSound ==
    ASSUME AggregationInv, Iterate /\ UNCHANGED <<tables, run, faults>>
    PROVE  LoopSound'
<1> USE DEF AggregationInv
<1>0. /\ loop \in Loop /\ loop' \in Loop /\ LoopSound
      /\ files \in [Iterations -> IterationFile \cup {NoFile}]
      /\ config' = config /\ run' = run /\ marks' = marks /\ Selected' = Selected
      /\ config.score[Selected] \in Scores
  BY IterateType, SelectedType DEF TypeOK, tables, Selected
<1>1. CASE Break
  <2>1. loop'.at = "end" /\ loop'.best = loop.best /\ loop'.current = loop.current
        /\ files' = files /\ LoopAt("iterate")
    BY <1>0, <1>1 DEF Break, LoopGoto, Loop
  <2>2. QED BY <1>0, <2>1 DEF LoopSound, LoopAt, At, HasFile
<1>2. CASE WriteIteration
  <2>1. loop'.at = "written" /\ loop'.best = loop.best /\ loop'.current = loop.current
        /\ loop'.it = loop.it /\ LoopAt("scored")
    BY <1>0, <1>2 DEF WriteIteration, LoopGoto, Loop
  <2>2. \A i \in Iterations : i # loop.it => files'[i] = files[i]
    BY <1>0, <1>2 DEF WriteIteration
  <2>3. \A i \in Iterations : i > loop.it => ~HasFile(i)'
    BY <1>0, <2>1, <2>2, LoopFields DEF LoopSound, HasFile, Iterations
  <2>4. QED BY <1>0, <2>1, <2>3 DEF LoopSound, LoopAt, At
<1>3. CASE Judge
  <2>1. files' = files /\ LoopAt("written")
    BY <1>3 DEF Judge
  <2>2. CASE Verdict = "regression"
    <3>1. loop'.at = "end" /\ loop'.best = loop.best /\ loop'.current = loop.current
      BY <1>0, <1>3, <2>2 DEF Judge, LoopGoto, Loop
    <3>2. QED BY <1>0, <2>1, <3>1 DEF LoopSound, LoopAt, At, HasFile
  <2>3. CASE Verdict # "regression"
    <3>1. /\ loop'.at \in {"iterate", "end"} /\ loop'.it = loop.it + 1
          /\ loop'.current = loop.new /\ loop'.best.score = loop.new
      <4> DEFINE place == IF Verdict = "continue" THEN "iterate" ELSE "end"
                 best == [rules |-> Version, score |-> loop.new]
      <4>1. loop' = [loop EXCEPT !.at = place, !.it = loop.it + 1, !.current = loop.new,
                                 !.improved = TRUE, !.best = best]
        BY <1>3, <2>3 DEF Judge
      <4>2. place \in {"iterate", "end"} /\ best.score = loop.new
        OBVIOUS
      <4> HIDE DEF place, best
      <4>3. QED BY <1>0, <4>1, <4>2 DEF Loop
    <3>2. loop.new >= loop.current
      BY <1>0, <2>3, LoopFields DEF Verdict, StopReason, Scores
    <3>3. loop.new >= config.score[Selected]
      BY <1>0, <2>1, <3>2, LoopFields DEF LoopSound, LoopAt, Scores
    <3>4. \A i \in Iterations : i >= loop'.it => ~HasFile(i)'
      BY <1>0, <2>1, <3>1, LoopFields DEF LoopSound, HasFile, Iterations
    <3>5. QED BY <1>0, <2>1, <3>1, <3>3, <3>4 DEF LoopSound, LoopAt, At
  <2>4. QED BY <2>2, <2>3
<1>4. CASE \E s \in Scores : Evaluate(s)
  <2>1. PICK s \in Scores : Evaluate(s)
    BY <1>4
  <2>2. loop.it \in Iterations /\ LoopAt("iterate")
    BY <2>1, LoopAssumption, LoopFields, <1>0 DEF Evaluate, Iterations
  <2>3. ~HasFile(loop.it)
    BY <1>0, <2>2, LoopFields DEF LoopSound, Iterations
  <2>4. loop' = [loop EXCEPT !.at = "scored", !.new = s] /\ files' = files
    BY <2>1, <2>3 DEF Evaluate
  <2>5. loop'.at = "scored" /\ loop'.best = loop.best /\ loop'.current = loop.current
        /\ loop'.it = loop.it
    BY <1>0, <2>4 DEF Loop
  <2>6. loop.it < MaxIterations
    BY <2>1 DEF Evaluate
  <2>7. QED BY <1>0, <2>2, <2>4, <2>5, <2>6 DEF LoopSound, LoopAt, At, HasFile
<1>5. QED BY <1>1, <1>2, <1>3, <1>4 DEF Iterate

\* A step that is not of the loop finds it off, and leaves it off and its files alone.
LEMMA OffSound ==
    ASSUME AggregationInv, LoopAt("off"), loop' = loop, files' = files,
           config' = config, Selected' = Selected, marks \subseteq marks',
           ~At("off")' => run'.held.score >= config.score[Selected],
           run'.analysis => /\ "analyzing" \in marks'
                            /\ run'.at \notin {"off", "gates", "selecting", "analyzing"}
                            /\ run.analysis \/ "analyzing" \notin marks,
           At("refining")' /\ run'.analysis => At("refining") \/ "analyzing" \notin marks
    PROVE  LoopSound'
BY DEF AggregationInv, LoopSound, LoopAt, At, HasFile

\* The steps that leave the evaluation a run holds, and its analysis, as they are.
LEMMA KeptSound ==
    ASSUME AggregationInv, loop' = loop, files' = files, config' = config,
           Selected' = Selected, marks \subseteq marks', ~At("off"),
           run'.held = run.held, run'.analysis = run.analysis,
           \/ run'.at = run.at
           \/ run'.at \notin {"off", "gates", "selecting", "analyzing", "refining"}
           \/ run'.at \notin {"off", "gates"} /\ run.at \in {"gates", "selecting", "analyzing"},
           LoopAt("off")
    PROVE  LoopSound'
BY OffSound DEF AggregationInv, LoopSound, At

LEMMA MoveSound ==
    ASSUME AggregationInv,
           \/ EndGates \/ MarkSelected \/ EndSelecting \/ SkipLoop \/ MarkRefined
           \/ EndAblation \/ EndOptimizing \/ MarkExported
           \/ \E stage \in Stages : Skip(stage)
           \/ \E s \in Strategies : CheckGates(s)
           \/ \E c \in Candidates : AblateRule(c) \/ RecordRule(c)
           \/ \E m \in Modes : PruneMode(m) \/ RecordMode(m)
           \/ CreateMlflowRun \/ SetMlflowRunId \/ WriteMlflowRunId \/ LogMetrics \/ Export
    PROVE  LoopSound'
<1>0. run \in Run /\ (~LoopAt("off") => At("refining") /\ "refining" \notin marks)
  BY DEF AggregationInv, TypeOK, LoopSound
<1>1. loop' = loop /\ files' = files /\ config' = config /\ marks \subseteq marks' /\ LoopAt("off")
  BY <1>0 DEF At, Open, Mark, memory, tables, disk, EndGates, MarkSelected, EndSelecting, SkipLoop,
              MarkRefined, EndAblation, EndOptimizing, MarkExported, Skip, CheckGates, AblateRule,
              RecordRule, PruneMode, RecordMode, CreateMlflowRun, SetMlflowRunId,
              WriteMlflowRunId, LogMetrics, Export
<1>2. Selected' = Selected
  BY <1>1 DEF Selected
<1>3. /\ ~At("off") /\ run'.held = run.held /\ run'.analysis = run.analysis
      /\ \/ run'.at = run.at
         \/ run'.at \notin {"off", "gates", "selecting", "analyzing", "refining"}
         \/ run'.at \notin {"off", "gates"} /\ run.at \in {"gates", "selecting", "analyzing"}
  <2>1. CASE EndGates \/ EndSelecting \/ SkipLoop \/ MarkRefined
    BY <1>0, <2>1 DEF At, Open, Goto, Run, EndGates, EndSelecting, SkipLoop, MarkRefined
  <2>2. CASE EndAblation \/ EndOptimizing \/ MarkExported
    BY <1>0, <2>2 DEF At, Open, Goto, Run, EndAblation, EndOptimizing, MarkExported
  <2>3. CASE \E stage \in Stages : Skip(stage)
    BY <1>0, <2>3 DEF At, Goto, Run, Skip, After, Stages
  <2>4. CASE MarkSelected \/ (\E s \in Strategies : CheckGates(s))
    BY <1>0, <2>4 DEF At, Open, memory, MarkSelected, CheckGates
  <2>5. CASE \E c \in Candidates : AblateRule(c) \/ RecordRule(c)
    BY <1>0, <2>5 DEF At, Open, memory, Run, AblateRule, RecordRule
  <2>6. CASE \E m \in Modes : PruneMode(m) \/ RecordMode(m)
    BY <1>0, <2>6 DEF At, Open, memory, Run, PruneMode, RecordMode
  <2>7. CASE CreateMlflowRun \/ SetMlflowRunId \/ WriteMlflowRunId \/ LogMetrics \/ Export
    BY <1>0, <2>7 DEF At, Open, Goto, Run, CreateMlflowRun, SetMlflowRunId, WriteMlflowRunId,
                      LogMetrics, Export
  <2>8. QED BY <2>1, <2>2, <2>3, <2>4, <2>5, <2>6, <2>7
<1>4. QED BY <1>1, <1>2, <1>3, KeptSound

LEMMA BoundarySound ==
    ASSUME AggregationInv, Begin \/ Interrupt \/ CompleteJob \/ Analyze \/ StartLoop \/ EndLoop
    PROVE  LoopSound'
<1>0. /\ run \in Run /\ loop \in Loop /\ NoRun \in Run /\ NoLoop \in Loop
      /\ config.score[Selected] \in Scores /\ LoopSound
  BY NoRunType, SelectedType DEF AggregationInv, TypeOK
<1>1. config' = config /\ Selected' = Selected
  BY DEF Begin, Interrupt, CompleteJob, Analyze, StartLoop, EndLoop, tables, Selected
<1>2. CASE Begin
  <2>1. LoopAt("off")
    BY <1>0, <1>2 DEF Begin, At, LoopSound
  <2>2. run'.at = "gates" /\ run'.held.score = config.score[Selected] /\ ~run'.analysis
    BY <1>0, <1>2 DEF Begin, NoRun
  <2>3. QED BY <1>0, <1>1, <1>2, <2>1, <2>2, OffSound DEF Begin, At, tables, disk, Scores
<1>3. CASE Interrupt
  <2>1. run'.at = "off" /\ ~run'.analysis /\ loop'.at = "off" /\ files' = files /\ marks' = marks
    BY <1>3 DEF Interrupt, NoRun, NoLoop, tables, disk
  <2>2. QED BY <1>0, <2>1 DEF LoopSound, At, LoopAt, HasFile
<1>4. CASE CompleteJob
  <2>1. LoopAt("off")
    BY <1>0, <1>4 DEF CompleteJob, At, LoopSound
  <2>2. run'.at = "off" /\ ~run'.analysis
    BY <1>4 DEF CompleteJob, NoRun
  <2>3. QED BY <1>1, <1>4, <2>1, <2>2, OffSound DEF CompleteJob, At, disk
<1>5. CASE Analyze
  <2>1. LoopAt("off") /\ "analyzing" \notin marks
    BY <1>0, <1>5 DEF Analyze, Open, At, LoopSound
  <2>2. run'.at = "refining" /\ run'.held = run.held /\ ~At("off")
    BY <1>0, <1>5 DEF Analyze, Open, At, Run
  <2>3. QED BY <1>0, <1>1, <1>5, <2>1, <2>2, OffSound DEF Analyze, At, Mark, disk, LoopSound
<1>6. CASE StartLoop
  <2>1. loop' = Started(run.held) /\ run' = run /\ files' = files /\ marks' = marks
    BY <1>6 DEF StartLoop, tables, disk
  <2>2. loop'.at = "iterate" /\ loop'.current = loop'.best.score /\ loop'.best = run.held
    BY <2>1 DEF Started
  <2>3. At("refining") /\ run.analysis /\ "refining" \notin marks /\ LoopAt("off")
    BY <1>6 DEF StartLoop, Open
  <2>4. run.held.score >= config.score[Selected] /\ \A i \in Iterations : ~HasFile(i)
    BY <1>0, <2>3 DEF LoopSound, At
  <2>5. QED BY <1>0, <1>1, <2>1, <2>2, <2>3, <2>4 DEF LoopSound, At, LoopAt, HasFile
<1>7. CASE EndLoop
  <2>1. LoopAt("end") /\ loop'.at = "off" /\ files' = files /\ marks' = marks
    BY <1>7 DEF EndLoop, NoLoop, tables
  <2>2. At("refining") /\ loop.best.score >= config.score[Selected]
        /\ run.held.score >= config.score[Selected]
    BY <1>0, <2>1 DEF LoopSound, At, LoopAt
  <2> DEFINE best == IF loop.improved THEN loop.best ELSE run.held
  <2>3. run' = [run EXCEPT !.at = "refined", !.held = best]
    BY <1>7 DEF EndLoop
  <2>4. best.score >= config.score[Selected]
    BY <2>2
  <2> HIDE DEF best
  <2>5. run'.at = "refined" /\ run'.held = best /\ run'.analysis = run.analysis
    BY <1>0, <2>3 DEF Run
  <2>6. QED BY <1>0, <1>1, <2>1, <2>4, <2>5 DEF LoopSound, At, LoopAt, HasFile
<1>8. QED BY <1>2, <1>3, <1>4, <1>5, <1>6, <1>7

LEMMA LoopStep == AggregationInv /\ [Next]_vars => LoopSound'
<1> SUFFICES ASSUME AggregationInv, [Next]_vars PROVE LoopSound'
  OBVIOUS
<1>1. CASE Next
  BY <1>1, MoveSound, BoundarySound, IterateSound DEF Next, Work
<1>2. CASE UNCHANGED vars
  BY <1>2, SelectedConstant
  DEF AggregationInv, LoopSound, vars, tables, memory, disk, At, LoopAt, HasFile
<1>3. QED BY <1>1, <1>2

-----------------------------------------------------------------------------
(* Markers, MLflow and the export *)

\* The steps that write neither MLflow's numbers nor the export.
Other ==
    \/ Begin \/ EndGates \/ MarkSelected \/ EndSelecting \/ Analyze \/ StartLoop \/ SkipLoop
    \/ EndLoop \/ MarkRefined \/ EndAblation \/ EndOptimizing \/ MarkExported \/ CompleteJob
    \/ \E stage \in Stages : Skip(stage)
    \/ \E s \in Strategies : CheckGates(s)
    \/ \E c \in Candidates : AblateRule(c) \/ RecordRule(c)
    \/ \E m \in Modes : PruneMode(m) \/ RecordMode(m)
    \/ Iterate /\ UNCHANGED <<tables, run, faults>>

\* They leave those alone, and neither enter nor leave the places of logging.
LEMMA OtherSteps ==
    ASSUME AggregationInv, Other
    PROVE  /\ UNCHANGED <<mlflow, report, faults, config>> /\ marks \subseteq marks'
           /\ "logging" \in marks' => "logging" \in marks
           /\ run.at \notin {"created", "rowed", "filed"}
           /\ run'.at \notin {"created", "rowed", "filed"}
           /\ PlacesMarked'
<1>0. run \in Run /\ PlacesMarked
  BY DEF AggregationInv, TypeOK
<1>1. CASE Begin \/ CompleteJob
  <2>1. run'.at \in {"gates", "off"}
    <3>1. CASE Begin
      BY <3>1 DEF Begin, NoRun
    <3>2. CASE CompleteJob
      BY <3>2 DEF CompleteJob, NoRun
    <3>3. QED BY <1>1, <3>1, <3>2
  <2>2. UNCHANGED <<mlflow, report, faults, config, marks>>
    BY <1>1 DEF Begin, CompleteJob, tables
  <2>3. run.at \in {"off", "done"}
    BY <1>1 DEF Begin, CompleteJob, At
  <2>4. QED BY <2>1, <2>2, <2>3 DEF PlacesMarked, AfterSelecting
<1>2. CASE EndGates \/ SkipLoop
  BY <1>0, <1>2 DEF EndGates, SkipLoop, Open, At, Goto, Run, tables, PlacesMarked, AfterSelecting
<1>3. CASE MarkSelected \/ (\E s \in Strategies : CheckGates(s))
  BY <1>0, <1>3 DEF MarkSelected, CheckGates, Open, At, Mark, memory, PlacesMarked,
                    AfterSelecting, Strategies, Distilled
<1>4. CASE EndSelecting \/ Analyze
  BY <1>0, <1>4 DEF EndSelecting, Analyze, Open, At, Mark, Goto, Run, PlacesMarked, AfterSelecting
<1>5. CASE StartLoop \/ (Iterate /\ UNCHANGED <<tables, run, faults>>)
  <2>1. At("refining")
    <3>1. CASE StartLoop
      BY <3>1 DEF StartLoop, Open
    <3>2. CASE Iterate
      BY <3>2 DEF AggregationInv, LoopSound, Iterate, Break, WriteIteration, Judge, Evaluate, LoopAt
    <3>3. QED BY <1>5, <3>1, <3>2
  <2>2. QED BY <1>0, <1>5, <2>1 DEF StartLoop, At, tables, PlacesMarked, AfterSelecting
<1>6. CASE EndLoop
  <2>1. At("refining")
    BY <1>6 DEF EndLoop, AggregationInv, LoopSound, LoopAt
  <2>2. QED BY <1>0, <1>6, <2>1 DEF EndLoop, At, Run, tables, PlacesMarked, AfterSelecting
<1>7. CASE MarkRefined \/ EndAblation \/ EndOptimizing
  BY <1>0, <1>7 DEF MarkRefined, EndAblation, EndOptimizing, Open, At, Mark, Goto, Run,
                    PlacesMarked, AfterSelecting
<1>8. CASE MarkExported
  BY <1>0, <1>8 DEF MarkExported, At, Mark, Goto, Run, PlacesMarked, AfterSelecting
<1>9. CASE \E stage \in Stages : Skip(stage)
  <2>1. PICK stage \in Stages : Skip(stage)
    BY <1>9
  <2>2. run.at = stage /\ run'.at = After[stage] /\ stage \in marks /\ UNCHANGED tables
    BY <1>0, <2>1 DEF Skip, At, Goto, Run
  <2>3. QED BY <1>0, <2>1, <2>2
        DEF Skip, After, Stages, tables, PlacesMarked, AfterSelecting
<1>10. CASE \E c \in Candidates : AblateRule(c) \/ RecordRule(c)
  BY <1>0, <1>10 DEF AblateRule, RecordRule, Open, At, Run, memory, PlacesMarked, AfterSelecting
<1>11. CASE \E m \in Modes : PruneMode(m) \/ RecordMode(m)
  BY <1>0, <1>11 DEF PruneMode, RecordMode, Open, At, Mark, Run, memory, PlacesMarked,
                     AfterSelecting, Modes
<1>12. QED
  BY <1>1, <1>2, <1>3, <1>4, <1>5, <1>6, <1>7, <1>8, <1>9, <1>10, <1>11 DEF Other

LEMMA NextSplit ==
    Next => \/ Other \/ Interrupt \/ CreateMlflowRun \/ SetMlflowRunId \/ WriteMlflowRunId
            \/ LogMetrics \/ Export
BY DEF Next, Work, Other

LEMMA PlacesStep == AggregationInv /\ [Next]_vars => PlacesMarked'
<1> SUFFICES ASSUME AggregationInv, [Next]_vars PROVE PlacesMarked'
  OBVIOUS
<1>0. run \in Run /\ PlacesMarked
  BY DEF AggregationInv, TypeOK
<1>1. CASE Other
  BY <1>1, OtherSteps
<1>2. CASE Interrupt
  BY <1>2 DEF Interrupt, NoRun, PlacesMarked, AfterSelecting
<1>3. CASE CreateMlflowRun \/ SetMlflowRunId
  BY <1>0, <1>3 DEF CreateMlflowRun, SetMlflowRunId, Open, At, Goto, Run, PlacesMarked,
                    AfterSelecting
<1>4. CASE WriteMlflowRunId \/ LogMetrics
  BY <1>0, <1>4 DEF WriteMlflowRunId, LogMetrics, Mark, At, Goto, Run, PlacesMarked, AfterSelecting
<1>5. CASE Export
  BY <1>0, <1>5 DEF Export, Open, At, Goto, Run, PlacesMarked, AfterSelecting
<1>6. CASE UNCHANGED vars
  BY <1>0, <1>6 DEF vars, tables, memory, PlacesMarked
<1>7. QED BY <1>1, <1>2, <1>3, <1>4, <1>5, <1>6, NextSplit

LEMMA MlflowStep == AggregationInv /\ [Next]_vars => MlflowSound'
<1> SUFFICES ASSUME AggregationInv, [Next]_vars PROVE MlflowSound'
  OBVIOUS
<1> DEFINE Numbers == 0..(MaxFaults + 1)
           Mlflow == [created: Numbers, row: Numbers, file: Numbers,
                      metric: [1..(MaxFaults + 1) -> Scores \cup {-1}]]
<1>0. /\ run \in Run /\ PlacesMarked /\ MlflowSound /\ MaxFaults \in Nat
      /\ faults \in 0..MaxFaults /\ mlflow \in Mlflow
      /\ mlflow.created \in Numbers /\ mlflow.row \in Numbers /\ mlflow.file \in Numbers
  BY AggregationAssumption DEF AggregationInv, TypeOK
<1>s. config' = config /\ Selected' = Selected
  BY SelectedConstant
<1>1. CASE Other
  <2>1. /\ UNCHANGED <<mlflow, faults, config>>
        /\ ("logging" \in marks' <=> "logging" \in marks)
        /\ run.at \notin {"created", "rowed", "filed"}
        /\ run'.at \notin {"created", "rowed", "filed"}
    BY <1>1, OtherSteps
  <2>2. mlflow'.created <= faults' + (IF "logging" \in marks' THEN 1 ELSE 0)
    BY <1>0, <2>1 DEF MlflowSound
  <2>3. QED BY <1>0, <1>s, <2>1, <2>2 DEF MlflowSound, At
<1>2. CASE Interrupt
  <2>1. run'.at = "off" /\ faults' = faults + 1 /\ mlflow' = mlflow /\ marks' = marks
    BY <1>2 DEF Interrupt, NoRun, tables
  <2>2. mlflow'.created <= faults' + (IF "logging" \in marks' THEN 1 ELSE 0)
    BY <1>0, <2>1 DEF MlflowSound
  <2>3. QED BY <1>0, <1>s, <2>1, <2>2 DEF MlflowSound, At
<1>3. CASE CreateMlflowRun
  <2>1. /\ run'.at = "created" /\ faults' = faults /\ marks' = marks /\ "logging" \notin marks
        /\ run.at = "logging"
    BY <1>0, <1>3 DEF CreateMlflowRun, Open, At, Goto, Run, disk
  <2>2. mlflow'.created = mlflow.created + 1 /\ mlflow'.metric = mlflow.metric
    BY <1>0, <1>3 DEF CreateMlflowRun
  <2>3. mlflow.created <= faults
    BY <1>0, <2>1 DEF MlflowSound
  <2>4. mlflow'.created <= faults' + 1 /\ mlflow'.created >= 1
    BY <1>0, <2>1, <2>2, <2>3
  <2>5. QED BY <1>0, <1>s, <2>1, <2>2, <2>4 DEF MlflowSound, At
<1>4. CASE SetMlflowRunId
  <2>1. run'.at = "rowed" /\ faults' = faults /\ marks' = marks /\ run.at = "created"
    BY <1>0, <1>4 DEF SetMlflowRunId, At, Goto, Run, disk
  <2>2. mlflow'.created = mlflow.created /\ mlflow'.row = mlflow.created
        /\ mlflow'.metric = mlflow.metric
    BY <1>0, <1>4 DEF SetMlflowRunId
  <2>3. QED BY <1>0, <1>s, <2>1, <2>2 DEF MlflowSound, PlacesMarked, At
<1>5. CASE WriteMlflowRunId
  <2>1. run'.at = "filed" /\ faults' = faults /\ marks' = marks /\ run.at = "rowed"
    BY <1>0, <1>5 DEF WriteMlflowRunId, At, Goto, Run, disk
  <2>2. mlflow'.created = mlflow.created /\ mlflow'.row = mlflow.row
        /\ mlflow'.file = mlflow.created /\ mlflow'.metric = mlflow.metric
    BY <1>0, <1>5 DEF WriteMlflowRunId, FileRun
  <2>3. QED BY <1>0, <1>s, <2>1, <2>2 DEF MlflowSound, PlacesMarked, At
<1>6. CASE LogMetrics
  <2>1. /\ run'.at = "exporting" /\ faults' = faults /\ marks' = marks \cup {"logging"}
        /\ run.at = "filed"
    BY <1>0, <1>6 DEF LogMetrics, At, Goto, Mark, Run, disk
  <2>2. /\ mlflow'.created = mlflow.created /\ mlflow'.row = mlflow.row
        /\ mlflow'.file = mlflow.file
        /\ mlflow'.metric = [mlflow.metric EXCEPT ![mlflow.created] = run.held.score]
    BY <1>0, <1>6 DEF LogMetrics
  <2>3. run.held.score \in Scores /\ run.held.score >= config.score[Selected]
    BY <1>0, <2>1 DEF AggregationInv, LoopSound, At, Run, Evaluation
  <2>4. mlflow.created \in 1..(MaxFaults + 1) /\ mlflow.row = mlflow.created
        /\ mlflow.file = mlflow.created
    BY <1>0, <2>1 DEF MlflowSound, At
  <2>5. mlflow'.metric[mlflow.created] = run.held.score
    BY <1>0, <2>2, <2>4
  <2>6. \A i \in 1..(MaxFaults + 1) : i # mlflow.created => mlflow'.metric[i] = mlflow.metric[i]
    BY <1>0, <2>2
  <2>7. \A i \in 1..(MaxFaults + 1) :
            mlflow'.metric[i] # -1 => mlflow'.metric[i] >= config.score[Selected]
    BY <1>0, <2>3, <2>5, <2>6 DEF MlflowSound
  <2>8. mlflow'.metric[mlflow'.row] # -1
    BY <2>2, <2>3, <2>4, <2>5 DEF Scores
  <2>9. mlflow.created <= faults + 1
    BY <1>0, <2>1 DEF MlflowSound
  <2>10. QED BY <1>0, <1>s, <2>1, <2>2, <2>4, <2>7, <2>8, <2>9 DEF MlflowSound, At
<1>7. CASE Export
  <2>1. run'.at = "exported" /\ faults' = faults /\ marks' = marks /\ run.at = "exporting"
        /\ mlflow' = mlflow
    BY <1>0, <1>7 DEF Export, Open, At, Goto, Run, disk
  <2>2. QED BY <1>0, <1>s, <2>1 DEF MlflowSound, At
<1>8. CASE UNCHANGED vars
  BY <1>0, <1>8, <1>s DEF vars, tables, memory, MlflowSound, At
<1>9. QED BY <1>1, <1>2, <1>3, <1>4, <1>5, <1>6, <1>7, <1>8, NextSplit

LEMMA ReportStep == AggregationInv /\ [Next]_vars => ReportSound'
<1> SUFFICES ASSUME AggregationInv, [Next]_vars PROVE ReportSound'
  OBVIOUS
<1>0. run \in Run /\ PlacesMarked /\ MlflowSound /\ ReportSound
  BY DEF AggregationInv, TypeOK
<1>1. CASE Other
  BY <1>0, <1>1, OtherSteps DEF ReportSound
<1>2. CASE Interrupt
  BY <1>0, <1>2 DEF Interrupt, tables, ReportSound
<1>3. CASE CreateMlflowRun \/ SetMlflowRunId \/ WriteMlflowRunId \/ LogMetrics
  <2>1. "logging" \notin marks
    BY <1>0, <1>3 DEF CreateMlflowRun, SetMlflowRunId, WriteMlflowRunId, LogMetrics, Open, At,
                      PlacesMarked
  <2>2. report = NoReport /\ report' = report
    BY <1>0, <1>3, <2>1 DEF CreateMlflowRun, SetMlflowRunId, WriteMlflowRunId, LogMetrics,
                            ReportSound
  <2>3. QED BY <2>2 DEF ReportSound
<1>4. CASE Export
  <2>1. "logging" \in marks /\ marks' = marks /\ mlflow' = mlflow
    BY <1>0, <1>4 DEF Export, Open, At, PlacesMarked
  <2>2. report'.mlflow = mlflow.file
    BY <1>4 DEF Export
  <2>3. QED BY <1>0, <2>1, <2>2 DEF MlflowSound, ReportSound
<1>5. CASE UNCHANGED vars
  BY <1>0, <1>5 DEF vars, tables, ReportSound
<1>6. QED BY <1>1, <1>2, <1>3, <1>4, <1>5, NextSplit

-----------------------------------------------------------------------------
(* Theorems *)

\* The aggregate phase, interrupted anywhere and any number of times, keeps its tables,
\* files and memory in agreement: the inductive invariant of everything below.
THEOREM AggregationInvariant == Spec => []AggregationInv
<1>1. AggregationInv /\ [Next]_vars => AggregationInv'
  BY TypeStep, LoopStep, PlacesStep, MlflowStep, ReportStep DEF AggregationInv
<1>2. QED BY InitInv, <1>1, PTL DEF Spec

\* Every variable of the phase has its type; one MLflow run at most is created for each
\* interruption and one more.
THEOREM AggregationTypeCorrect == Spec => []TypeOK
<1>1. AggregationInv => TypeOK
  BY DEF AggregationInv
<1>2. QED BY <1>1, AggregationInvariant, PTL

\* Refinement never lowers the metric that the phase goes on with or logs, whatever the
\* iterations measure and wherever the phase is interrupted.
THEOREM RefinementSafe == Spec => []RefinementNeverLowers
<1>1. AggregationInv => RefinementNeverLowers
  <2> SUFFICES ASSUME AggregationInv PROVE RefinementNeverLowers
    OBVIOUS
  <2>1. DOMAIN mlflow.metric = 1..(MaxFaults + 1)
    BY DEF AggregationInv, TypeOK
  <2>2. QED BY <2>1 DEF AggregationInv, LoopSound, MlflowSound, RefinementNeverLowers
<1>2. QED BY <1>1, AggregationInvariant, PTL

\* No iteration of the loop ever finds a file of an earlier one: the branch that resumes
\* an iteration from its file is dead code in the pipeline.
THEOREM ResumeBranchDead == Spec => []CheckpointsUnused
<1>1. AggregationInv => CheckpointsUnused
  <2> SUFFICES ASSUME AggregationInv, LoopAt("iterate"), loop.it < MaxIterations
               PROVE  ~HasFile(loop.it)
    BY DEF CheckpointsUnused
  <2>1. loop.it \in Iterations
    BY LoopFields, LoopAssumption DEF AggregationInv, TypeOK, Iterations
  <2>2. QED BY <2>1, LoopFields, LoopAssumption DEF AggregationInv, LoopSound, Iterations
<1>2. QED BY <1>1, AggregationInvariant, PTL

\* However often logging is interrupted, job row, file and export name one MLflow run, and
\* that run has its metrics.
THEOREM OneMlflowRun == Spec => []MlflowAgrees
<1>1. AggregationInv => MlflowAgrees
  BY DEF AggregationInv, MlflowSound, ReportSound, MlflowAgrees
<1>2. QED BY <1>1, AggregationInvariant, PTL

-----------------------------------------------------------------------------
(* A job that is not interrupted *)

BeforeAblated == {"off", "gates", "selecting", "analyzing", "refining", "refined", "ablating"}
BeforeOptimized == BeforeAblated \cup {"optimizing"}
BeforeExported == BeforeOptimized \cup {"logging", "created", "rowed", "filed", "exporting"}

\* Everything ablation and the optimizer did has been exported.
ReportComplete ==
    /\ report.artifact = Ablates
    /\ Ablates => report.records = Candidates
    /\ report.rows = stored.modes

\* While the first run of the phase goes on, its memory is what the tables say has been
\* done, no stage ahead of it is marked, and nothing is exported before the export.
MemoryWhole ==
    /\ run.at = "off" => run.records = {} /\ run.rows = {}
    /\ run.records = ablated
    /\ run.rows = stored.modes \cap marks
    /\ stored.modes # {} => Optimizes
    /\ run.at \in BeforeAblated => "ablating" \notin marks
    /\ run.at \notin BeforeAblated => run.artifact = Ablates /\ (Ablates => ablated = Candidates)
    /\ run.at \in BeforeOptimized => "optimizing" \notin marks
    /\ run.at \notin BeforeOptimized => stored.modes \subseteq marks
    /\ run.at \in BeforeExported => report = NoReport /\ "exporting" \notin marks
    /\ run.at \notin BeforeExported => ReportComplete

\* The inductive invariant of a job without interruptions, on top of AggregationInv.
UninterruptedInv ==
    /\ status = "completed" => At("off")
    /\ faults = 0 /\ status = "running" => MemoryWhole
    /\ faults = 0 /\ status = "completed" => ReportComplete

LEMMA UninterruptedInit == Init => UninterruptedInv
<1> SUFFICES ASSUME Init PROVE UninterruptedInv
  OBVIOUS
<1>1. /\ run.at = "off" /\ run.records = {} /\ run.rows = {} /\ ablated = {} /\ marks = {}
      /\ stored.modes = {} /\ report = NoReport /\ status = "running"
  BY DEF Init, NoRun
<1>2. QED
  BY <1>1 DEF UninterruptedInv, MemoryWhole, BeforeAblated, BeforeOptimized, BeforeExported

\* Once the job is completed, the phase does nothing more.
LEMMA CompletedStops ==
    ASSUME AggregationInv, UninterruptedInv, status = "completed"
    PROVE  ~Next
<1>1. run.at = "off" /\ loop.at = "off"
  BY DEF AggregationInv, LoopSound, UninterruptedInv, At, LoopAt
<1>2. ~Iterate
  BY <1>1 DEF Iterate, Break, WriteIteration, Judge, Evaluate, LoopAt
<1>3. \A stage \in Stages : ~Skip(stage)
  BY <1>1 DEF Skip, At, Stages
<1>4. QED
  BY <1>1, <1>2, <1>3
  DEF Next, Work, Begin, Interrupt, EndGates, MarkSelected, EndSelecting, Analyze, CheckGates,
      StartLoop, SkipLoop, EndLoop, MarkRefined, EndAblation, EndOptimizing, AblateRule,
      RecordRule, PruneMode, RecordMode, CreateMlflowRun, SetMlflowRunId, WriteMlflowRunId,
      LogMetrics, Export, MarkExported, CompleteJob, Open, At, LoopAt

\* The steps before ablation, and those that only move the run.
LEMMA WholeMove ==
    ASSUME AggregationInv, MemoryWhole,
           \/ Begin \/ EndGates \/ MarkSelected \/ EndSelecting \/ Analyze \/ StartLoop
           \/ SkipLoop \/ EndLoop \/ MarkRefined
           \/ \E stage \in Stages : Skip(stage)
           \/ \E s \in Strategies : CheckGates(s)
           \/ Iterate /\ UNCHANGED <<tables, run, faults>>
    PROVE  MemoryWhole'
<1> DEFINE Kept == UNCHANGED <<config, ablated, stored, report>>
<1>0. /\ run \in Run /\ marks \subseteq Stages \cup Strategies \cup Modes
      /\ stored.modes \subseteq Modes
  BY DEF AggregationInv, TypeOK
<1>c. Kept => (ReportComplete' <=> ReportComplete) /\ Ablates' = Ablates /\ Optimizes' = Optimizes
  BY DEF ReportComplete, Ablates, Optimizes, HasRules, Selected
<1> USE DEF BeforeAblated, BeforeOptimized, BeforeExported
<1>1. CASE Begin
  <2>1. run.at = "off" /\ run'.at = "gates" /\ run'.records = {} /\ run'.rows = {}
    BY <1>1 DEF Begin, At, NoRun
  <2>2. Kept /\ marks' = marks
    BY <1>1 DEF Begin, tables
  <2>3. run.records = {} /\ run.rows = {}
    BY <2>1 DEF MemoryWhole
  <2>4. QED BY <1>c, <2>1, <2>2, <2>3 DEF MemoryWhole
<1>2. CASE EndGates \/ SkipLoop
  BY <1>0, <1>2, <1>c DEF EndGates, SkipLoop, Open, At, Goto, Run, tables, MemoryWhole
<1>3. CASE MarkSelected
  BY <1>0, <1>3, <1>c DEF MarkSelected, Open, At, memory, MemoryWhole
<1>4. CASE \E s \in Strategies : CheckGates(s)
  <2>1. PICK s \in Strategies : CheckGates(s)
    BY <1>4
  <2>2. marks' = marks \cup {s} /\ run' = run /\ run.at = "gates" /\ Kept
    BY <2>1 DEF CheckGates, Mark, At, memory
  <2>3. s \notin Modes /\ s \notin {"ablating", "optimizing", "exporting"}
    BY DEF Modes, Strategies, Distilled
  <2>4. stored'.modes \cap marks' = stored.modes \cap marks
    BY <1>0, <2>2, <2>3
  <2>5. QED BY <1>c, <2>2, <2>3, <2>4 DEF MemoryWhole
<1>5. CASE EndSelecting \/ Analyze \/ MarkRefined
  <2>1. PICK m \in {"selecting", "analyzing", "refining"} : marks' = marks \cup {m}
    BY <1>5 DEF EndSelecting, Analyze, MarkRefined, Mark
  <2>2. /\ run.at \in BeforeAblated /\ run'.at \in BeforeAblated \ {"off"}
        /\ run'.records = run.records /\ run'.rows = run.rows /\ Kept
    BY <1>0, <1>5 DEF EndSelecting, Analyze, MarkRefined, Open, At, Goto, Run
  <2>3. m \notin Modes /\ m \notin {"ablating", "optimizing", "exporting"}
    BY DEF Modes
  <2>4. stored'.modes \cap marks' = stored.modes \cap marks
    BY <1>0, <2>1, <2>2, <2>3
  <2>5. QED BY <1>c, <2>1, <2>2, <2>3, <2>4 DEF MemoryWhole
<1>6. CASE StartLoop \/ (Iterate /\ UNCHANGED <<tables, run, faults>>)
  BY <1>6, <1>c DEF StartLoop, tables, MemoryWhole
<1>7. CASE EndLoop
  BY <1>0, <1>7, <1>c DEF EndLoop, AggregationInv, LoopSound, LoopAt, At, Run, tables, MemoryWhole
<1>8. CASE \E stage \in Stages : Skip(stage)
  <2>1. PICK stage \in Stages : Skip(stage)
    BY <1>8
  <2>2. stage \in marks /\ run.at = stage /\ run' = [run EXCEPT !.at = After[stage]]
        /\ marks' = marks /\ Kept
    BY <2>1 DEF Skip, At, Goto, tables
  <2>3. stage \notin {"ablating", "optimizing", "exporting"}
    BY <2>2 DEF MemoryWhole
  <2>4. QED BY <1>0, <1>c, <2>2, <2>3 DEF Stages, After, Run, MemoryWhole
<1>9. QED BY <1>1, <1>2, <1>3, <1>4, <1>5, <1>6, <1>7, <1>8

\* The steps of ablation and of the optimizer.
LEMMA WholeStored ==
    ASSUME AggregationInv, MemoryWhole,
           \/ EndAblation \/ EndOptimizing
           \/ \E c \in Candidates : AblateRule(c) \/ RecordRule(c)
           \/ \E m \in Modes : PruneMode(m) \/ RecordMode(m)
    PROVE  MemoryWhole'
<1>0. /\ run \in Run /\ marks \subseteq Stages \cup Strategies \cup Modes /\ ablated \subseteq Candidates
      /\ stored \in [rules: SUBSET Candidates, modes: SUBSET Modes]
  BY DEF AggregationInv, TypeOK
<1>c. config' = config
  BY DEF EndAblation, EndOptimizing, AblateRule, RecordRule, PruneMode, RecordMode
<1>d. Ablates' = Ablates /\ Optimizes' = Optimizes
  BY <1>c DEF Ablates, Optimizes, HasRules, Selected
<1> USE DEF BeforeAblated, BeforeOptimized, BeforeExported
<1>1. CASE EndAblation
  BY <1>0, <1>1, <1>d DEF EndAblation, Open, At, Mark, Run, MemoryWhole, Modes
<1>2. CASE EndOptimizing
  <2>1. stored.modes \subseteq marks
    BY <1>0, <1>2 DEF EndOptimizing, MemoryWhole
  <2>2. QED BY <1>0, <1>2, <1>d, <2>1 DEF EndOptimizing, Open, At, Mark, Goto, Run, MemoryWhole, Modes
<1>3. CASE \E c \in Candidates : AblateRule(c)
  <2>1. stored'.modes = stored.modes /\ UNCHANGED <<marks, ablated, report, run>>
        /\ run.at = "ablating"
    BY <1>0, <1>3 DEF AblateRule, Open, At, memory
  <2>2. QED BY <1>d, <2>1 DEF MemoryWhole
<1>4. CASE \E c \in Candidates : RecordRule(c)
  BY <1>0, <1>4, <1>d DEF RecordRule, Recorded, Open, At, Run, MemoryWhole
<1>5. CASE \E m \in Modes : PruneMode(m)
  <2>1. PICK m \in Modes : PruneMode(m)
    BY <1>5
  <2>2. /\ stored'.modes = stored.modes \cup {m} /\ m \notin marks /\ Optimizes
        /\ UNCHANGED <<marks, ablated, report, run>> /\ run.at = "optimizing"
    BY <1>0, <2>1 DEF PruneMode, Open, At, memory
  <2>3. QED BY <1>d, <2>2 DEF MemoryWhole
<1>6. CASE \E m \in Modes : RecordMode(m)
  <2>1. PICK m \in Modes : RecordMode(m)
    BY <1>6
  <2>2. /\ marks' = marks \cup {m} /\ run'.at = run.at /\ run.at = "optimizing"
        /\ run'.records = run.records /\ run'.artifact = run.artifact
        /\ run'.rows = IF m \in stored.modes THEN run.rows \cup {m} ELSE run.rows
        /\ UNCHANGED <<ablated, stored, report>>
    BY <1>0, <2>1 DEF RecordMode, Open, At, Mark, Run
  <2>3. run'.rows = stored.modes \cap marks'
    BY <2>2 DEF MemoryWhole
  <2>4. QED BY <1>d, <2>1, <2>2, <2>3 DEF MemoryWhole, Modes
<1>7. QED BY <1>1, <1>2, <1>3, <1>4, <1>5, <1>6

\* The steps of MLflow and of the export.
LEMMA WholeReport ==
    ASSUME AggregationInv, MemoryWhole,
           \/ CreateMlflowRun \/ SetMlflowRunId \/ WriteMlflowRunId \/ LogMetrics \/ Export
           \/ MarkExported
    PROVE  MemoryWhole'
<1>0. run \in Run /\ stored.modes \subseteq Modes
  BY DEF AggregationInv, TypeOK
<1>c. UNCHANGED <<config, ablated, stored>>
  BY DEF CreateMlflowRun, SetMlflowRunId, WriteMlflowRunId, LogMetrics, Export, MarkExported
<1>d. Ablates' = Ablates /\ Optimizes' = Optimizes
  BY <1>c DEF Ablates, Optimizes, HasRules, Selected
<1> USE DEF BeforeAblated, BeforeOptimized, BeforeExported
<1>1. CASE CreateMlflowRun \/ SetMlflowRunId \/ WriteMlflowRunId
  BY <1>0, <1>c, <1>d, <1>1
  DEF CreateMlflowRun, SetMlflowRunId, WriteMlflowRunId, Open, At, Goto, Run, MemoryWhole
<1>2. CASE LogMetrics
  BY <1>0, <1>c, <1>d, <1>2 DEF LogMetrics, Mark, At, Goto, Run, MemoryWhole, Modes
<1>3. CASE Export
  <2>1. /\ run.at = "exporting" /\ run'.at = "exported" /\ marks' = marks
        /\ run'.records = run.records /\ run'.rows = run.rows /\ run'.artifact = run.artifact
    BY <1>0, <1>3 DEF Export, Open, At, Goto, Run
  <2>2. report = NoReport /\ run.artifact = Ablates /\ (Ablates => run.records = Candidates)
        /\ run.rows = stored.modes
    BY <1>0, <2>1 DEF MemoryWhole
  <2>3. report'.rows = run.rows /\ report'.artifact = (run.artifact \/ report.artifact)
        /\ (run.artifact => report'.records = run.records)
    BY <1>3 DEF Export
  <2>4. report.artifact = FALSE /\ run.artifact \in BOOLEAN
    BY <1>0, <2>2 DEF NoReport, Run
  <2>5. ReportComplete'
    BY <1>c, <1>d, <2>2, <2>3, <2>4 DEF ReportComplete
  <2>6. QED BY <1>c, <1>d, <2>1, <2>5 DEF MemoryWhole
<1>4. CASE MarkExported
  <2>1. run.at = "exported" /\ run'.at = "done" /\ marks' = marks \cup {"exporting"}
        /\ run'.records = run.records /\ run'.rows = run.rows /\ run'.artifact = run.artifact
        /\ report' = report
    BY <1>0, <1>4 DEF MarkExported, At, Goto, Mark, Run
  <2>2. ReportComplete'
    BY <1>c, <1>d, <2>1 DEF MemoryWhole, ReportComplete
  <2>3. QED BY <1>0, <1>c, <1>d, <2>1, <2>2 DEF MemoryWhole, Modes
<1>5. QED BY <1>1, <1>2, <1>3, <1>4

LEMMA UninterruptedStep == AggregationInv /\ UninterruptedInv /\ [Next]_vars => UninterruptedInv'
<1> SUFFICES ASSUME AggregationInv, UninterruptedInv, [Next]_vars PROVE UninterruptedInv'
  OBVIOUS
<1>0. faults \in Nat /\ status \in {"running", "completed"}
  BY DEF AggregationInv, TypeOK
<1>1. CASE UNCHANGED vars
  BY <1>1, SelectedConstant
  DEF UninterruptedInv, MemoryWhole, ReportComplete, Ablates, Optimizes, HasRules, vars, tables,
      memory, At
<1>2. CASE Next /\ Interrupt
  <2>1. faults' # 0 /\ status' = "running"
    BY <1>0, <1>2 DEF Interrupt, tables
  <2>2. QED BY <2>1 DEF UninterruptedInv
<1>3. CASE Next /\ CompleteJob
  <2>1. status = "running" /\ status' = "completed" /\ run'.at = "off" /\ faults' = faults
        /\ run.at = "done" /\ UNCHANGED <<config, report, stored>>
    BY <1>0, <1>3, CompletedStops DEF CompleteJob, At, NoRun, disk
  <2>2. faults = 0 => ReportComplete
    BY <2>1 DEF UninterruptedInv, MemoryWhole, BeforeAblated, BeforeOptimized, BeforeExported
  <2>3. ReportComplete' <=> ReportComplete
    BY <2>1 DEF ReportComplete, Ablates, HasRules, Selected
  <2>4. QED BY <2>1, <2>2, <2>3 DEF UninterruptedInv, At
<1>4. CASE Next /\ ~Interrupt /\ ~CompleteJob
  <2>1. status = "running"
    BY <1>0, <1>4, CompletedStops
  <2>2. faults' = faults /\ status' = status
    BY <1>4
    DEF Next, Work, vars, tables, memory, disk, Begin, EndGates, MarkSelected, EndSelecting,
        Analyze, Skip, CheckGates, StartLoop, SkipLoop, EndLoop, MarkRefined, EndAblation,
        EndOptimizing, AblateRule, RecordRule, PruneMode, RecordMode, CreateMlflowRun,
        SetMlflowRunId, WriteMlflowRunId, LogMetrics, Export, MarkExported
  <2>3. MemoryWhole => MemoryWhole'
    BY <1>4, WholeMove, WholeStored, WholeReport DEF Next, Work
  <2>4. QED BY <2>1, <2>2, <2>3 DEF UninterruptedInv
<1>5. QED BY <1>1, <1>2, <1>3, <1>4

\* A job whose aggregate phase was never interrupted exports a record for every rule of the
\* ablation and a row for every mode whose evaluation is stored.
THEOREM ResultsKept == Spec => []ResultsLostOnlyByFaults
<1>1. UninterruptedInv => ResultsLostOnlyByFaults
  BY DEF UninterruptedInv, ReportComplete, ResultsLostOnlyByFaults
<1>2. AggregationInv /\ UninterruptedInv /\ [Next]_vars /\ AggregationInv' => UninterruptedInv'
  BY UninterruptedStep
<1>3. Spec => []UninterruptedInv
  BY UninterruptedInit, <1>2, AggregationInvariant, PTL DEF Spec
<1>4. QED BY <1>1, <1>3, PTL

-----------------------------------------------------------------------------
(* The file of the best rules *)

\* A metric was measured before the loop, or on the rules in the file of the best ones.
Covered(m) == m = config.score[Selected] \/ (bestFile # 0 /\ files[bestFile - 1].new = m)

\* What the loop holds as the best is in the file of its iteration, and whatever has been
\* held, logged or reported is covered; while the loop runs there is no file of best rules.
RulesInv ==
    /\ bestFile # 0 => HasFile(bestFile - 1)
    /\ ~LoopAt("off") => bestFile = 0
    /\ ~LoopAt("off") /\ loop.improved =>
          /\ loop.best.rules \in 1..loop.it
          /\ files[loop.best.rules - 1].new = loop.best.score
    /\ LoopAt("written") => files[loop.it].new = loop.new
    /\ ~At("off") => Covered(run.held.score)
    /\ \A i \in 1..(MaxFaults + 1) : mlflow.metric[i] # -1 => Covered(mlflow.metric[i])
    /\ report # NoReport => report.score = config.score[Selected]

LEMMA RulesInit == Init => RulesInv
<1> SUFFICES ASSUME Init PROVE RulesInv
  OBVIOUS
<1>1. /\ bestFile = 0 /\ loop.at = "off" /\ run.at = "off" /\ report = NoReport
      /\ \A i \in 1..(MaxFaults + 1) : mlflow.metric[i] = -1
  BY DEF Init, NoLoop, NoRun
<1> QED
  BY <1>1 DEF RulesInv, LoopAt, At

\* While the file of the best rules stays, or there is none, what is covered stays so.
LEMMA CoveredStays ==
    ASSUME config' = config, bestFile' = bestFile, files' = files \/ bestFile = 0
    PROVE  \A m : Covered(m) => Covered(m)'
<1>1. config'.score[Selected'] = config.score[Selected]
  BY DEF Selected
<1> QED
  BY <1>1 DEF Covered

\* The steps of the loop.
LEMMA RulesIterate ==
    ASSUME AggregationInv, RulesInv, Iterate, UNCHANGED <<tables, run, faults>>
    PROVE  RulesInv'
<1>0. /\ loop \in Loop /\ LoopSound /\ files \in [Iterations -> IterationFile \cup {NoFile}]
      /\ UNCHANGED <<config, mlflow, report, run>>
  BY DEF AggregationInv, TypeOK, tables
<1>1. ~LoopAt("off") /\ bestFile = 0 /\ bestFile' = 0
  BY DEF Iterate, Break, WriteIteration, Judge, Evaluate, LoopAt, RulesInv
<1>2. \A m : Covered(m) => Covered(m)'
  BY <1>0, <1>1, CoveredStays
<1>3. config'.score[Selected'] = config.score[Selected]
  BY <1>0 DEF Selected
<1>4. SUFFICES /\ ~LoopAt("off")' /\ loop'.improved =>
                     /\ loop'.best.rules \in 1..loop'.it
                     /\ files'[loop'.best.rules - 1].new = loop'.best.score
               /\ LoopAt("written")' => files'[loop'.it].new = loop'.new
  BY <1>0, <1>1, <1>2, <1>3 DEF RulesInv, At
<1>5. loop.improved => /\ loop.best.rules \in 1..loop.it
                       /\ files[loop.best.rules - 1].new = loop.best.score
  BY <1>1 DEF RulesInv
<1>6. CASE Break
  <2>1. /\ loop'.at = "end" /\ loop'.best = loop.best /\ loop'.improved = loop.improved
        /\ loop'.it = loop.it /\ files' = files
    BY <1>0, <1>6 DEF Break, LoopGoto, Loop
  <2> QED
    BY <1>5, <2>1 DEF LoopAt
<1>7. CASE WriteIteration
  <2>1. /\ loop'.at = "written" /\ loop'.best = loop.best /\ loop'.improved = loop.improved
        /\ loop'.it = loop.it /\ loop'.new = loop.new
    BY <1>0, <1>7 DEF WriteIteration, LoopGoto, Loop
  <2>2. loop.it \in Iterations
    BY <1>0, <1>7, LoopFields, LoopAssumption DEF WriteIteration, LoopSound, Iterations
  <2> DEFINE written == [prior |-> loop.current, new |-> loop.new, stop |-> Verdict]
  <2>3. files' = [files EXCEPT ![loop.it] = written] /\ written.new = loop.new
    BY <1>7 DEF WriteIteration
  <2> HIDE DEF written
  <2>4. files'[loop.it].new = loop.new
    BY <1>0, <2>2, <2>3
  <2>5. loop.improved => files'[loop.best.rules - 1] = files[loop.best.rules - 1]
    <3>1. loop.improved => loop.best.rules - 1 # loop.it
      BY <1>0, <1>5, LoopFields
    <3> QED
      BY <1>0, <2>3, <3>1
  <2> QED
    BY <1>5, <2>1, <2>4, <2>5
<1>8. CASE Judge
  <2>1. LoopAt("written") /\ files' = files /\ files[loop.it].new = loop.new
    BY <1>8 DEF Judge, RulesInv
  <2>2. CASE Verdict = "regression"
    <3>1. /\ loop'.at = "end" /\ loop'.best = loop.best /\ loop'.improved = loop.improved
          /\ loop'.it = loop.it
      BY <1>0, <1>8, <2>2 DEF Judge, LoopGoto, Loop
    <3> QED
      BY <1>5, <2>1, <3>1 DEF LoopAt
  <2>3. CASE Verdict # "regression"
    <3> DEFINE place == IF Verdict = "continue" THEN "iterate" ELSE "end"
               best == [rules |-> Version, score |-> loop.new]
    <3>1. loop' = [loop EXCEPT !.at = place, !.it = loop.it + 1, !.current = loop.new,
                               !.improved = TRUE, !.best = best]
      BY <1>8, <2>3 DEF Judge
    <3>2. place \in {"iterate", "end"} /\ best.score = loop.new /\ best.rules = loop.it + 1
      BY DEF Version
    <3> HIDE DEF place, best
    <3>3. /\ loop'.at \in {"iterate", "end"} /\ loop'.it = loop.it + 1
          /\ loop'.best.rules = loop.it + 1 /\ loop'.best.score = loop.new
      BY <1>0, <3>1, <3>2 DEF Loop
    <3>4. loop.it \in Nat /\ (loop.it + 1) - 1 = loop.it
      BY <1>0, LoopFields
    <3>5. loop.it + 1 \in 1..(loop.it + 1)
      BY <3>4
    <3> QED
      BY <2>1, <3>3, <3>4, <3>5 DEF LoopAt
  <2> QED
    BY <2>2, <2>3
<1>9. CASE \E s \in Scores : Evaluate(s)
  <2>1. PICK s \in Scores : Evaluate(s)
    BY <1>9
  <2>2. ~HasFile(loop.it)
    BY <1>0, <2>1, LoopFields, LoopAssumption DEF Evaluate, LoopSound, Iterations
  <2>3. loop' = [loop EXCEPT !.at = "scored", !.new = s] /\ files' = files
    BY <2>1, <2>2 DEF Evaluate
  <2>4. /\ loop'.at = "scored" /\ loop'.best = loop.best /\ loop'.improved = loop.improved
        /\ loop'.it = loop.it
    BY <1>0, <2>3 DEF Loop
  <2> QED
    BY <1>5, <2>3, <2>4 DEF LoopAt
<1> QED
  BY <1>6, <1>7, <1>8, <1>9 DEF Iterate

\* The loop starts without a file of best rules, and leaves one if it improved.
LEMMA RulesLoop ==
    ASSUME AggregationInv, RulesInv, StartLoop \/ EndLoop
    PROVE  RulesInv'
<1>0. /\ loop \in Loop /\ run \in Run /\ bestFile \in Versions /\ LoopSound
  BY DEF AggregationInv, TypeOK
<1>1. config' = config /\ config'.score[Selected'] = config.score[Selected]
  BY DEF StartLoop, EndLoop, tables, Selected
<1>2. CASE StartLoop
  <2>1. \A i \in Iterations : ~HasFile(i)
    BY <1>0, <1>2 DEF StartLoop, Open, LoopSound
  <2>2. bestFile = 0
    <3>1. bestFile # 0 => bestFile - 1 \in Iterations
      BY <1>0, LoopAssumption DEF Versions, Iterations
    <3> QED
      BY <2>1, <3>1 DEF RulesInv
  <2>3. /\ loop'.at = "iterate" /\ loop'.improved = FALSE
        /\ UNCHANGED <<config, files, bestFile, run, mlflow, report>>
    BY <1>2 DEF StartLoop, Started, tables, disk
  <2>4. \A m : Covered(m) => Covered(m)'
    BY <2>3, CoveredStays
  <2> QED
    BY <1>1, <2>2, <2>3, <2>4 DEF RulesInv, LoopAt, At, HasFile
<1>3. CASE EndLoop
  <2>1. /\ loop'.at = "off" /\ bestFile = 0 /\ At("refining") /\ LoopAt("end")
        /\ UNCHANGED <<config, files, mlflow, report>>
    BY <1>0, <1>3 DEF EndLoop, NoLoop, tables, RulesInv, LoopAt, LoopSound
  <2>2. \A m : Covered(m) => m = config.score[Selected]
    BY <2>1 DEF Covered
  <2>3. \A m : Covered(m) => Covered(m)'
    BY <1>1, <2>2 DEF Covered
  <2>4. CASE ~loop.improved
    <3>1. bestFile' = 0 /\ run'.held = run.held
      BY <1>0, <1>3, <2>1, <2>4 DEF EndLoop, Run
    <3> QED
      BY <1>1, <2>1, <2>3, <3>1 DEF RulesInv, LoopAt, At
  <2>5. CASE loop.improved
    <3>1. bestFile' = loop.best.rules /\ run'.held = loop.best
      BY <1>0, <1>3, <2>5 DEF EndLoop, BestRules, Run
    <3>2. /\ loop.best.rules \in 1..loop.it
          /\ files[loop.best.rules - 1].new = loop.best.score
      BY <2>1, <2>5 DEF RulesInv, LoopAt
    <3>3. loop.best.score \in Nat
      BY <1>0, LoopFields, LoopAssumption DEF Evaluation, Scores
    <3>4. files[loop.best.rules - 1] # NoFile
      BY <3>2, <3>3 DEF NoFile
    <3>5. bestFile' # 0
      BY <1>0, <3>1, <3>2, LoopFields
    <3>6. PICK m : m = loop.best.score
      OBVIOUS
    <3>7. files'[bestFile' - 1].new = m /\ run'.held.score = m
      BY <2>1, <3>1, <3>2, <3>6
    <3>8. Covered(m)'
      BY <3>5, <3>7 DEF Covered
    <3>9. Covered(run.held.score)'
      BY <3>7, <3>8 DEF Covered
    <3>10. /\ bestFile # 0 => HasFile(bestFile - 1)
           /\ ~LoopAt("off") => bestFile = 0
           /\ ~LoopAt("off") /\ loop.improved =>
                 /\ loop.best.rules \in 1..loop.it
                 /\ files[loop.best.rules - 1].new = loop.best.score
           /\ LoopAt("written") => files[loop.it].new = loop.new
           /\ \A i \in 1..(MaxFaults + 1) : mlflow.metric[i] # -1 => Covered(mlflow.metric[i])
           /\ report # NoReport => report.score = config.score[Selected]
      BY DEF RulesInv
    <3>11. (bestFile # 0 => HasFile(bestFile - 1))'
      BY <2>1, <3>1, <3>4 DEF HasFile
    <3>12. (\A i \in 1..(MaxFaults + 1) : mlflow.metric[i] # -1 => Covered(mlflow.metric[i]))'
      BY <2>1, <2>3, <3>10
    <3>13. (report # NoReport => report.score = config.score[Selected])'
      BY <1>1, <2>1, <3>10
    <3>14. (LoopAt("off") /\ ~LoopAt("written"))'
      BY <2>1 DEF LoopAt
    <3> QED
      BY <3>9, <3>11, <3>12, <3>13, <3>14 DEF RulesInv
  <2> QED
    BY <2>4, <2>5
<1> QED
  BY <1>2, <1>3

\* The steps that change neither the loop nor its files.
LEMMA RulesElse ==
    ASSUME AggregationInv, RulesInv, config' = config, UNCHANGED disk,
           loop' = loop \/ loop' = NoLoop,
           ~At("off")' => Covered(run'.held.score),
           \A i \in 1..(MaxFaults + 1) :
               mlflow'.metric[i] # -1 => Covered(mlflow'.metric[i]),
           report' # NoReport => report'.score = config.score[Selected]
    PROVE  RulesInv'
<1>1. config'.score[Selected'] = config.score[Selected]
  BY DEF Selected
<1>2. files' = files /\ bestFile' = bestFile
  BY DEF disk
<1>3. \A m : Covered(m) => Covered(m)'
  BY <1>2, CoveredStays
<1>4. NoLoop.at = "off"
  BY DEF NoLoop
<1>5. CASE loop' = loop
  BY <1>1, <1>2, <1>3, <1>5 DEF RulesInv, LoopAt, At, HasFile
<1>6. CASE loop' = NoLoop
  BY <1>1, <1>2, <1>3, <1>4, <1>6 DEF RulesInv, LoopAt, At, HasFile
<1> QED
  BY <1>5, <1>6

LEMMA RulesStep == AggregationInv /\ RulesInv /\ [Next]_vars => RulesInv'
<1> SUFFICES ASSUME AggregationInv, RulesInv, [Next]_vars PROVE RulesInv'
  OBVIOUS
<1>0. /\ run \in Run /\ config' = config
      /\ \A i \in 1..(MaxFaults + 1) : mlflow.metric[i] # -1 => Covered(mlflow.metric[i])
      /\ report # NoReport => report.score = config.score[Selected]
      /\ ~At("off") => Covered(run.held.score)
  BY SelectedConstant DEF AggregationInv, TypeOK, RulesInv
<1>1. CASE Iterate /\ UNCHANGED <<tables, run, faults>>
  BY <1>1, RulesIterate
<1>2. CASE StartLoop \/ EndLoop
  BY <1>2, RulesLoop
<1>3. CASE Begin
  <2>1. /\ UNCHANGED disk /\ loop' = loop /\ mlflow' = mlflow /\ report' = report
        /\ run'.held.score = config.score[Selected]
    BY <1>3 DEF Begin, tables, NoRun
  <2> QED
    BY <1>0, <2>1, RulesElse DEF Covered
<1>4. CASE Interrupt \/ CompleteJob
  <2>1. /\ UNCHANGED disk /\ loop' \in {loop, NoLoop} /\ mlflow' = mlflow /\ report' = report
        /\ run'.at = "off"
    BY <1>4 DEF Interrupt, CompleteJob, tables, NoRun
  <2> QED
    BY <1>0, <2>1, RulesElse DEF At
<1>5. CASE LogMetrics
  <2>1. /\ UNCHANGED disk /\ loop' = loop /\ report' = report /\ run'.held = run.held
        /\ mlflow' = [mlflow EXCEPT !.metric[mlflow.created] = run.held.score] /\ ~At("off")
    BY <1>0, <1>5 DEF LogMetrics, Goto, Run, At
  <2>2. mlflow.metric \in [1..(MaxFaults + 1) -> Scores \cup {-1}]
    BY DEF AggregationInv, TypeOK
  <2>3. \A i \in 1..(MaxFaults + 1) :
            mlflow'.metric[i] \in {mlflow.metric[i], run.held.score}
    BY <2>1, <2>2 DEF AggregationInv, TypeOK
  <2> QED
    BY <1>0, <2>1, <2>3, RulesElse
<1>6. CASE Export
  <2>1. /\ UNCHANGED disk /\ loop' = loop /\ mlflow' = mlflow /\ run'.held = run.held
        /\ report'.score = config.score[Selected] /\ ~At("off")
    BY <1>0, <1>6 DEF Export, Compared, Open, Goto, Run, At
  <2> QED
    BY <1>0, <2>1, RulesElse
<1>7. CASE \/ EndGates \/ MarkSelected \/ EndSelecting \/ Analyze \/ SkipLoop \/ MarkRefined
           \/ EndAblation \/ EndOptimizing \/ MarkExported
           \/ \E stage \in Stages : Skip(stage)
           \/ \E s \in Strategies : CheckGates(s)
           \/ \E c \in Candidates : AblateRule(c) \/ RecordRule(c)
           \/ \E m \in Modes : PruneMode(m) \/ RecordMode(m)
           \/ CreateMlflowRun \/ SetMlflowRunId \/ WriteMlflowRunId
  <2>1. UNCHANGED <<disk, loop, report>> /\ mlflow'.metric = mlflow.metric
    <3>1. CASE CreateMlflowRun \/ SetMlflowRunId \/ WriteMlflowRunId
      BY <3>1 DEF CreateMlflowRun, SetMlflowRunId, WriteMlflowRunId, AggregationInv, TypeOK
    <3>2. CASE ~(CreateMlflowRun \/ SetMlflowRunId \/ WriteMlflowRunId)
      BY <1>7, <3>2 DEF EndGates, MarkSelected, EndSelecting, Analyze, SkipLoop, MarkRefined,
          EndAblation, EndOptimizing, MarkExported, Skip, CheckGates, AblateRule, RecordRule,
          PruneMode, RecordMode, tables, memory
    <3> QED
      BY <3>1, <3>2
  <2>2. run'.held = run.held /\ ~At("off")
    <3>1. CASE EndGates \/ EndSelecting \/ Analyze \/ SkipLoop \/ MarkRefined
      BY <1>0, <3>1 DEF EndGates, EndSelecting, Analyze, SkipLoop, MarkRefined, Open, At, Goto, Run
    <3>2. CASE MarkSelected \/ (\E s \in Strategies : CheckGates(s))
      BY <1>0, <3>2 DEF MarkSelected, CheckGates, Open, At, memory
    <3>3. CASE EndAblation \/ EndOptimizing \/ MarkExported
      BY <1>0, <3>3 DEF EndAblation, EndOptimizing, MarkExported, Open, At, Goto, Run
    <3>4. CASE \E stage \in Stages : Skip(stage)
      BY <1>0, <3>4 DEF Skip, At, Goto, Run, Stages
    <3>5. CASE \E c \in Candidates : AblateRule(c) \/ RecordRule(c)
      BY <1>0, <3>5 DEF AblateRule, RecordRule, Open, At, memory, Run
    <3>6. CASE \E m \in Modes : PruneMode(m) \/ RecordMode(m)
      BY <1>0, <3>6 DEF PruneMode, RecordMode, Open, At, memory, Run
    <3>7. CASE CreateMlflowRun \/ SetMlflowRunId \/ WriteMlflowRunId
      BY <1>0, <3>7 DEF CreateMlflowRun, SetMlflowRunId, WriteMlflowRunId, Open, At, Goto, Run
    <3> QED
      BY <1>7, <3>1, <3>2, <3>3, <3>4, <3>5, <3>6, <3>7
  <2> QED
    BY <1>0, <2>1, <2>2, RulesElse
<1>8. CASE UNCHANGED vars
  BY <1>0, <1>8, RulesElse DEF vars, tables, memory, At
<1> QED
  BY <1>1, <1>2, <1>3, <1>4, <1>5, <1>6, <1>7, <1>8 DEF Next, Work

\* Where MLflow's metric is not the one the report compares, the rules it was measured on
\* are in the file of the best rules, whatever was interrupted.
THEOREM MetricRulesKept == Spec => []MetricHasItsRules
<1>1. AggregationInv /\ RulesInv => MetricHasItsRules
  <2> SUFFICES ASSUME AggregationInv, RulesInv, report # NoReport
               PROVE  \/ mlflow.metric[report.mlflow] = report.score
                      \/ bestFile # 0 /\ files[bestFile - 1].new = mlflow.metric[report.mlflow]
    BY DEF MetricHasItsRules
  <2>1. report.mlflow \in 1..(MaxFaults + 1) /\ mlflow.metric[report.mlflow] # -1
    BY DEF AggregationInv, ReportSound, MlflowSound
  <2> QED
    BY <2>1 DEF RulesInv, Covered
<1>2. AggregationInv /\ RulesInv /\ [Next]_vars => RulesInv'
  BY RulesStep
<1> QED
  BY <1>1, <1>2, RulesInit, AggregationInvariant, PTL DEF Spec
=============================================================================
