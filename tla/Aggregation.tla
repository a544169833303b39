----------------------------- MODULE Aggregation -----------------------------
(***************************************************************************)
(* The aggregate phase of a job (the last part of _run in                  *)
(* workers/distillation_worker.py): gates, selection, failure analysis,    *)
(* refinement, rule ablation, the two-pass optimizer, MLflow and the       *)
(* export.  A run of the phase reads the stored evaluations and rebuilds   *)
(* its results in memory; markers make the next run leave out what is      *)
(* done.  A crash or an exception loses the memory, and the phase is run   *)
(* again (StageWorkflow).                                                  *)
(***************************************************************************)
EXTENDS RefinementLoop, FiniteSets

CONSTANTS
    NumRules,       \* rules of the selected strategy, when it has any
    MaxAblation,    \* task.max_ablation_rules
    FewShotScore,   \* what the best of the baselines scored
    MaxFaults       \* bound on interruptions

ASSUME AggregationAssumption ==
    NumRules \in Nat /\ MaxAblation \in Nat /\ MaxFaults \in Nat /\ FewShotScore \in 0..MaxScore

Distilled == {"dbscan", "hdbscan"}
Strategies == Distilled \cup {"few_shot"}
GateOrder == [dbscan |-> 1, hdbscan |-> 2, few_shot |-> 3]
Modes == {"utility", "utility_per_token"}
Stages == {"selecting", "analyzing", "refining", "ablating", "optimizing", "logging", "exporting"}

Candidates == 1..(IF NumRules < MaxAblation THEN NumRules ELSE MaxAblation)

VARIABLES
    config,     \* the task's switches, and the evaluations stored by earlier phases
    marks,      \* stage_markers of stages, of gated strategies and of modes
    ablated,    \* rules that have the marker of their ablation
    chosen,     \* strategies whose prompt version is marked as selected
    stored,     \* rules and modes whose evaluation is stored
    mlflow,     \* runs created, the job row's run, the file's run, the metric of each run
    report,     \* what has been exported
    status,     \* of the job
    run,        \* the run of the phase
    faults      \* interruptions so far

tables == <<config, marks, ablated, chosen, stored, mlflow, report, status>>
memory == <<run, loop>>
disk == <<files, bestFile>>
vars == <<tables, memory, disk, faults>>

Places == {"off", "gates", "refined", "created", "rowed", "filed", "exported", "done"} \cup Stages

\* held is the evaluation the map has for the selected strategy, prompt the rules its
\* prompt was compiled from; records are the rules ablation has a record of, and
\* artifact says that they are to be exported; rows are the modes compared.
Run == [at: Places, held: Evaluation, prompt: Versions, analysis: BOOLEAN,
        records: SUBSET Candidates, artifact: BOOLEAN, rows: SUBSET Modes]

NoRun == [at |-> "off", held |-> NoEvaluation, prompt |-> 0, analysis |-> FALSE,
          records |-> {}, artifact |-> FALSE, rows |-> {}]

NoReport == [score |-> -1, prompt |-> 0, records |-> {}, artifact |-> FALSE, rows |-> {},
             mlflow |-> 0]

TypeOK ==
    /\ config \in [refine: BOOLEAN, ablate: BOOLEAN, mode: BOOLEAN, rules: {0, NumRules},
                   score: [Strategies -> Scores]]
    /\ marks \subseteq Stages \cup Strategies \cup Modes
    /\ ablated \subseteq Candidates
    /\ chosen \subseteq Distilled
    /\ stored \in [rules: SUBSET Candidates, modes: SUBSET Modes]
    /\ mlflow \in [created: 0..(MaxFaults + 1), row: 0..(MaxFaults + 1),
                   file: 0..(MaxFaults + 1), metric: [1..(MaxFaults + 1) -> Scores \cup {-1}]]
    /\ report \in [score: Scores \cup {-1}, prompt: Versions, records: SUBSET Candidates,
                   artifact: BOOLEAN, rows: SUBSET Modes, mlflow: 0..(MaxFaults + 1)]
    /\ status \in {"running", "completed"}
    /\ run \in Run /\ loop \in Loop
    /\ files \in [Iterations -> IterationFile \cup {NoFile}] /\ bestFile \in Versions
    /\ faults \in 0..MaxFaults

Init ==
    /\ config \in [refine: BOOLEAN, ablate: BOOLEAN, mode: BOOLEAN, rules: {0, NumRules},
                   score: [Strategies -> Scores]]
    /\ config.score["few_shot"] = FewShotScore
    /\ marks = {} /\ ablated = {} /\ chosen = {} /\ stored = [rules |-> {}, modes |-> {}]
    /\ status = "running" /\ report = NoReport
    /\ mlflow = [created |-> 0, row |-> 0, file |-> 0,
                 metric |-> [i \in 1..(MaxFaults + 1) |-> -1]]
    /\ run = NoRun /\ loop = NoLoop
    /\ files = [i \in Iterations |-> NoFile] /\ bestFile = 0
    /\ faults = 0

-----------------------------------------------------------------------------
(* Runs *)

At(place) == run.at = place
Goto(place) == run' = [run EXCEPT !.at = place]

\* The selection is computed again by every run (StrategySelection has its order).
Selected == CHOOSE s \in Strategies : \A t \in Strategies : config.score[t] <= config.score[s]

HasRules == Selected \in Distilled /\ config.rules > 0

\* The evaluations are loaded from the tables.
Begin ==
    /\ At("off") /\ status = "running"
    /\ run' = [NoRun EXCEPT !.at = "gates",
                            !.held = [rules |-> 0, score |-> config.score[Selected]]]
    /\ UNCHANGED <<tables, loop, disk, faults>>

Interrupt ==
    /\ ~At("off") /\ status = "running" /\ faults < MaxFaults
    /\ run' = NoRun /\ loop' = NoLoop
    /\ faults' = faults + 1
    /\ UNCHANGED <<tables, disk>>

After == [selecting |-> "analyzing", analyzing |-> "refining", refining |-> "ablating",
          ablating |-> "optimizing", optimizing |-> "logging", logging |-> "exporting",
          exporting |-> "done"]

Skip(stage) ==
    /\ At(stage) /\ stage \in marks
    /\ Goto(After[stage])
    /\ UNCHANGED <<tables, loop, disk, faults>>

Open(stage) == At(stage) /\ stage \notin marks

Mark(m) == marks' = marks \cup {m}

\* Gates are computed for every strategy and marked for those not marked yet, the
\* distilled ones first.
CheckGates(s) ==
    /\ At("gates") /\ s \notin marks
    /\ \A t \in Strategies : GateOrder[t] < GateOrder[s] => t \in marks
    /\ Mark(s)
    /\ UNCHANGED <<config, ablated, chosen, stored, mlflow, report, status, memory, disk, faults>>

EndGates ==
    /\ At("gates") /\ Strategies \subseteq marks
    /\ Goto("selecting")
    /\ UNCHANGED <<tables, loop, disk, faults>>

\* mark_prompt_version_selected commits before the marker.
MarkSelected ==
    /\ Open("selecting") /\ Selected \in Distilled \ chosen
    /\ chosen' = chosen \cup {Selected}
    /\ UNCHANGED <<config, marks, ablated, stored, mlflow, report, status, memory, disk, faults>>

EndSelecting ==
    /\ Open("selecting") /\ (Selected \in Distilled => Selected \in chosen)
    /\ Mark("selecting")
    /\ Goto("analyzing")
    /\ UNCHANGED <<config, ablated, chosen, stored, mlflow, report, status, loop, disk, faults>>

\* Mutant: failures are analysed until the rules are refined.
AnalyzeAgain ==
    /\ At("analyzing") /\ "refining" \notin marks
    /\ Mark("analyzing")
    /\ run' = [run EXCEPT !.at = "refining", !.analysis = Selected \in Distilled]
    /\ UNCHANGED <<config, ablated, chosen, stored, mlflow, report, status, loop, disk, faults>>

\* The analysis is in memory only, and its stage is marked.
Analyze ==
    /\ Open("analyzing")
    /\ Mark("analyzing")
    /\ run' = [run EXCEPT !.at = "refining", !.analysis = Selected \in Distilled]
    /\ UNCHANGED <<config, ablated, chosen, stored, mlflow, report, status, loop, disk, faults>>

StartLoop ==
    /\ Open("refining") /\ LoopAt("off")
    /\ config.refine /\ run.analysis /\ HasRules
    /\ loop' = Started(run.held)
    /\ UNCHANGED <<tables, run, disk, faults>>

SkipLoop ==
    /\ Open("refining") /\ LoopAt("off")
    /\ ~(config.refine /\ run.analysis /\ HasRules)
    /\ Goto("refined")
    /\ UNCHANGED <<tables, loop, disk, faults>>

\* Mutant: the file gets the rules that were evaluated last.
BestRulesLast == IF loop.it < MaxIterations /\ HasFile(loop.it) THEN loop.it + 1 ELSE loop.it

\* best_rules.
BestRules == loop.best.rules

\* What the loop returns replaces the evaluation in the map; its rules do not go
\* further than their file.
EndLoop ==
    /\ LoopAt("end")
    /\ bestFile' = IF loop.improved THEN BestRules ELSE bestFile
    /\ run' = [run EXCEPT !.at = "refined", !.held = IF loop.improved THEN loop.best ELSE @]
    /\ loop' = NoLoop
    /\ UNCHANGED <<tables, files, faults>>

MarkRefined ==
    /\ At("refined")
    /\ Mark("refining")
    /\ Goto("ablating")
    /\ UNCHANGED <<config, ablated, chosen, stored, mlflow, report, status, loop, disk, faults>>

-----------------------------------------------------------------------------
(* Rule ablation and the two-pass optimizer *)

Ablates == config.ablate /\ HasRules

\* Mutant: the next candidate is the first without a record.
NextCandidateByRecords(c) == \A d \in Candidates : d < c => d \in run.records

\* Candidates are taken in their order.
NextCandidate(c) == \A d \in Candidates : d < c => d \in ablated

\* Mutant: a rule whose evaluation fails is left without a record.
RecordedStored(c) == IF c \in stored.rules THEN run.records \cup {c} ELSE run.records

\* A measured rule and a rule that could not be measured both get a record.
Recorded(c) == run.records \cup {c}

\* The evaluation without a rule is stored case by case; an exception leaves it out.
AblateRule(c) ==
    /\ Open("ablating") /\ Ablates /\ c \notin ablated /\ NextCandidate(c)
    /\ c \notin stored.rules
    /\ stored' = [stored EXCEPT !.rules = @ \cup {c}]
    /\ UNCHANGED <<config, marks, ablated, chosen, mlflow, report, status, memory, disk, faults>>

\* A rule marked by an earlier run gets no record: its evaluation is not in the map.
RecordRule(c) ==
    /\ Open("ablating") /\ Ablates /\ c \notin ablated /\ NextCandidate(c)
    /\ run' = [run EXCEPT !.records = Recorded(c)]
    /\ ablated' = ablated \cup {c}
    /\ UNCHANGED <<config, marks, chosen, stored, mlflow, report, status, loop, disk, faults>>

EndAblation ==
    /\ Open("ablating") /\ (Ablates => Candidates \subseteq ablated)
    /\ run' = [run EXCEPT !.at = "optimizing", !.artifact = Ablates]
    /\ Mark("ablating")
    /\ UNCHANGED <<config, ablated, chosen, stored, mlflow, report, status, loop, disk, faults>>

\* config.mode says that a mode other than support_count is configured.
Optimizes == config.mode /\ Selected \in Distilled

NextMode(m) == m = "utility_per_token" => "utility" \in marks

PruneMode(m) ==
    /\ Open("optimizing") /\ Optimizes /\ m \notin marks /\ NextMode(m)
    /\ config.rules > 0 /\ m \notin stored.modes
    /\ stored' = [stored EXCEPT !.modes = @ \cup {m}]
    /\ UNCHANGED <<config, marks, ablated, chosen, mlflow, report, status, memory, disk, faults>>

\* No row for a mode that selects no rule or fails.
RecordMode(m) ==
    /\ Open("optimizing") /\ Optimizes /\ m \notin marks /\ NextMode(m)
    /\ run' = [run EXCEPT !.rows = IF m \in stored.modes THEN @ \cup {m} ELSE @]
    /\ Mark(m)
    /\ UNCHANGED <<config, ablated, chosen, stored, mlflow, report, status, loop, disk, faults>>

EndOptimizing ==
    /\ Open("optimizing") /\ (Optimizes => Modes \subseteq marks)
    /\ Mark("optimizing")
    /\ Goto("logging")
    /\ UNCHANGED <<config, ablated, chosen, stored, mlflow, report, status, loop, disk, faults>>

-----------------------------------------------------------------------------
(* MLflow and the export *)

\* create_run; a run that an interrupted phase had created is left behind.
CreateMlflowRun ==
    /\ Open("logging")
    /\ mlflow' = [mlflow EXCEPT !.created = @ + 1]
    /\ Goto("created")
    /\ UNCHANGED <<config, marks, ablated, chosen, stored, report, status, loop, disk, faults>>

SetMlflowRunId ==
    /\ At("created")
    /\ mlflow' = [mlflow EXCEPT !.row = mlflow.created]
    /\ Goto("rowed")
    /\ UNCHANGED <<config, marks, ablated, chosen, stored, report, status, loop, disk, faults>>

\* Mutant: a file that exists is not written again.
FileRunKept == IF mlflow.file = 0 THEN mlflow.created ELSE mlflow.file

\* The file gets the id of the run just created.
FileRun == mlflow.created

WriteMlflowRunId ==
    /\ At("rowed")
    /\ mlflow' = [mlflow EXCEPT !.file = FileRun]
    /\ Goto("filed")
    /\ UNCHANGED <<config, marks, ablated, chosen, stored, report, status, loop, disk, faults>>

\* The metrics are those of the evaluation the map has now.
LogMetrics ==
    /\ At("filed")
    /\ mlflow' = [mlflow EXCEPT !.metric[mlflow.created] = run.held.score]
    /\ Mark("logging")
    /\ Goto("exporting")
    /\ UNCHANGED <<config, ablated, chosen, stored, report, status, loop, disk, faults>>

\* The comparison has a map of its own, copied before the loop.
Compared == config.score[Selected]

\* The files are written over those of an earlier run; without an artifact the file
\* of the ablation stays as it is.
Export ==
    /\ Open("exporting")
    /\ report' = [score |-> Compared, prompt |-> run.prompt, rows |-> run.rows,
                  records |-> IF run.artifact THEN run.records ELSE report.records,
                  artifact |-> run.artifact \/ report.artifact, mlflow |-> mlflow.file]
    /\ Goto("exported")
    /\ UNCHANGED <<config, marks, ablated, chosen, stored, mlflow, status, loop, disk, faults>>

MarkExported ==
    /\ At("exported")
    /\ Mark("exporting")
    /\ Goto("done")
    /\ UNCHANGED <<config, ablated, chosen, stored, mlflow, report, status, loop, disk, faults>>

CompleteJob ==
    /\ At("done")
    /\ status' = "completed"
    /\ run' = NoRun
    /\ UNCHANGED <<config, marks, ablated, chosen, stored, mlflow, report, loop, disk, faults>>

Work ==
    \/ Begin \/ EndGates \/ MarkSelected \/ EndSelecting \/ Analyze
    \/ \E stage \in Stages : Skip(stage)
    \/ \E s \in Strategies : CheckGates(s)
    \/ StartLoop \/ SkipLoop \/ EndLoop \/ MarkRefined
    \/ Iterate /\ UNCHANGED <<tables, run, faults>>
    \/ \E c \in Candidates : AblateRule(c) \/ RecordRule(c)
    \/ EndAblation
    \/ \E m \in Modes : PruneMode(m) \/ RecordMode(m)
    \/ EndOptimizing \/ CreateMlflowRun \/ SetMlflowRunId \/ WriteMlflowRunId \/ LogMetrics
    \/ Export \/ MarkExported \/ CompleteJob

Next == Work \/ Interrupt

Spec == Init /\ [][Next]_vars

\* The workflow runs the phase again until it returns.
FairSpec == Spec /\ WF_vars(Work)

-----------------------------------------------------------------------------
(* Properties *)

\* Refinement never lowers the metric: whatever the iterations measure, the
\* evaluation that takes the place of the selected one, and the metric MLflow is
\* told, are at least what was measured before the loop.
RefinementNeverLowers ==
    /\ ~At("off") => run.held.score >= config.score[Selected]
    /\ \A i \in DOMAIN mlflow.metric :
          mlflow.metric[i] # -1 => mlflow.metric[i] >= config.score[Selected]

\* The files of the iterations are never read back: a loop that was interrupted is not
\* entered again, for its analysis was in memory and is marked as done.
CheckpointsUnused == LoopAt("iterate") /\ loop.it < MaxIterations => ~HasFile(loop.it)

\* The report compares the evaluation before the loop, MLflow is told the one after it:
\* where the two differ, the rules that MLflow's metric was measured on are those in the
\* file of the best rules, whichever run of the phase logged, exported or was lost.
MetricHasItsRules ==
    report # NoReport /\ mlflow.metric[report.mlflow] # report.score =>
        bestFile # 0 /\ files[bestFile - 1].new = mlflow.metric[report.mlflow]

\* However often logging was interrupted, the row of the job, the file and the export
\* name one MLflow run, and it has its metrics.
MlflowAgrees ==
    "logging" \in marks =>
        /\ mlflow.row = mlflow.file /\ mlflow.metric[mlflow.row] # -1
        /\ report # NoReport => report.mlflow = mlflow.row

\* A job that was not interrupted exports a record for every rule of the ablation, and a
\* row for every mode that was evaluated.
ResultsLostOnlyByFaults ==
    status = "completed" /\ faults = 0 =>
        /\ report.artifact = Ablates
        /\ Ablates => report.records = Candidates
        /\ report.rows = stored.modes

\* The rules that refinement found best are the ones in the exported prompt.
RefinedPromptExported ==
    status = "completed" /\ faults = 0 /\ bestFile # 0 => report.prompt = bestFile

\* The phase completes the job in the end.
JobEnds == <>(status = "completed")
=============================================================================
