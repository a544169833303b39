------------------------ MODULE BaselineEvaluation ------------------------
(***************************************************************************)
(* The stage evaluating_baseline of _run (workers/distillation_worker.py)  *)
(* and what the later aggregate phase reads of it.  A strategy asks the    *)
(* student about every evaluation case, or predicts from embeddings, and   *)
(* commits each case result before the next; then its metrics become a     *)
(* row of eval_runs.  An interruption loses what is in memory, and the     *)
(* stage runs again from its first strategy: it asks the student only      *)
(* about the cases without a row, embeds all cases anew and writes every   *)
(* predicted result over the row of the earlier run.                       *)
(***************************************************************************)
EXTENDS Integers, Sequences, FiniteSets

CONSTANTS
    Cases,      \* cases of the evaluation split
    Other,      \* a case of the extraction split that is not evaluated
    FewShot,    \* the strategies of BASELINE_FEW_SHOT_STRATEGY_TO_K, in order
    Knn,        \* the strategies of EMBEDDING_KNN_STRATEGY_TO_K, in order
    MaxFaults   \* bound on the interruptions

ASSUME BaselineAssumption ==
    IsFiniteSet(Cases) /\ Cases # {} /\ Other \notin Cases /\ MaxFaults \in Nat

VARIABLES
    config,     \* the task and its cases, see Configs
    rows,       \* eval_case_results, per strategy and case
    runs,       \* eval_runs, per strategy
    marked,     \* the marker of evaluating_baseline
    job,        \* the stage in memory
    compared,   \* the evaluations the aggregate phase compares
    faults      \* the interruptions so far

vars == <<config, rows, runs, marked, job, compared, faults>>

Elements(s) == {s[i] : i \in 1..Len(s)}

\* The names are the keys of dictionaries and of _run's own strategies.
ASSUME NamesAssumption ==
    /\ FewShot \in Seq(STRING) /\ Knn \in Seq(STRING)
    /\ Elements(FewShot) \cap Elements(Knn) = {}
    /\ (Elements(FewShot) \cup Elements(Knn))
           \cap {"baseline", "scaffold", "centroid", "retrieval"} = {}

Asked == {"baseline"} \cup Elements(FewShot)
Embedded == {"centroid"} \cup Elements(Knn)

\* baseline_scaffold has a row of eval_runs and no case results.
Strategies == Asked \cup Embedded \cup {"scaffold", "retrieval"}

Results == {"right", "wrong", "malformed", "lost"}
Answers == {"right", "wrong", "malformed"}

\* What a strategy that embeds may predict.
Predictions == [Cases -> {"right", "wrong"}]

NoRows == [c \in Cases |-> "none"]

\* Training cases are the extraction cases or, without any, the evaluation cases;
\* train has those with a label (expected_label), which only classification has.
Configs ==
    {k \in [classify: BOOLEAN, labelled: SUBSET Cases, train: SUBSET (Cases \cup {Other})] :
        /\ k.train \in {{}, {Other}, k.labelled}
        /\ ~k.classify => k.labelled = {} /\ k.train = {}}

Count(results, S, r) == Cardinality({c \in S : results[c] = r})

\* _compute_metrics: a malformed answer has no label, and its case is left out.
Scored(results) == {c \in config.labelled : results[c] \notin {"none", "malformed"}}

Metrics(results) ==
    [right |-> IF config.classify THEN Count(results, Scored(results), "right") ELSE 0,
     of |-> IF config.classify THEN Cardinality(Scored(results)) ELSE 0,
     passed |-> Count(results, Cases, "right"),
     malformed |-> Count(results, Cases, "malformed")]

Sizes == 0..Cardinality(Cases)
Metric == [right: Sizes, of: Sizes, passed: Sizes, malformed: Sizes]
NoMetric == [right |-> 0, of |-> 0, passed |-> 0, malformed |-> -1]

\* _refresh_eval_classification_statistics: over all labelled cases, and a result
\* that is malformed or missing has the empty label.
Refreshed(metric, results) ==
    IF config.classify /\ config.labelled # {}
    THEN [metric EXCEPT !.right = Count(results, config.labelled, "right"),
                        !.of = Cardinality(config.labelled)]
    ELSE metric

-----------------------------------------------------------------------------

Order ==
    <<"baseline">> \o FewShot
        \o (IF config.train = {} THEN <<>> ELSE <<"centroid">> \o Knn \o <<"retrieval">>)

Places == {"off", "load", "case", "persist", "measure", "scaffold", "end"}

Idle == [at |-> "off", i |-> 1, results |-> NoRows, todo |-> {}, case |-> Other,
         lookups |-> 0, models |-> 0]

At(place) == job.at = place
Strategy == Order[job.i]

Init ==
    /\ config \in Configs
    /\ rows = [s \in Strategies |-> NoRows]
    /\ runs = [s \in Strategies |-> NoMetric]
    /\ marked = FALSE
    /\ job = Idle
    /\ compared = [s \in Strategies |-> NoMetric]
    /\ faults = 0

StartStage ==
    /\ At("off") /\ ~marked
    /\ job' = [Idle EXCEPT !.at = "load"]
    /\ UNCHANGED <<config, rows, runs, marked, compared, faults>>

\* Mutant: the counts of a resumed strategy start at zero.
NothingFailed == [lookups |-> 0, models |-> 0]

\* What has failed in the rows a strategy finds.
FailedBefore ==
    [lookups |-> Count(rows[Strategy], Cases, "lost"),
     models |-> Count(rows[Strategy], Cases, "malformed")]

\* Mutant: the rows of an earlier run are not looked at.
NotKnown == NoRows

\* The results a strategy starts from: the committed ones.
Known == rows[Strategy]

LoadRows ==
    /\ At("load") /\ Strategy \notin Embedded
    /\ job' = [job EXCEPT !.at = "case", !.results = Known,
                          !.lookups = FailedBefore.lookups, !.models = FailedBefore.models]
    /\ UNCHANGED <<config, rows, runs, marked, compared, faults>>

\* Every run of the stage embeds the training and evaluation cases, and predicts from
\* the answer it got, whatever an earlier run has committed.
Predict(p) ==
    /\ At("load") /\ Strategy \in Embedded
    /\ job' = [job EXCEPT !.at = "case", !.results = p, !.todo = Cases]
    /\ UNCHANGED <<config, rows, runs, marked, compared, faults>>

Got(c, r) ==
    job' = [job EXCEPT !.at = "persist", !.case = c, !.results[c] = r,
                       !.lookups = @ + (IF r = "lost" THEN 1 ELSE 0),
                       !.models = @ + (IF r = "malformed" THEN 1 ELSE 0)]

\* _call_student: an answer that cannot be had counts as malformed, and the student
\* is not asked again.
AskStudent(c, r) ==
    /\ At("case") /\ Strategy \in Asked /\ job.results[c] = "none"
    /\ Got(c, r)
    /\ UNCHANGED <<config, rows, runs, marked, compared, faults>>

\* A case is no example for itself.
Neighbours(c) == config.train \ {c}

\* The embedding of the case may fail; without neighbours the student is not asked.
AskWithRetrieved(c, r) ==
    /\ At("case") /\ Strategy = "retrieval" /\ job.results[c] = "none"
    /\ Neighbours(c) = {} => r = "lost"
    /\ Got(c, r)
    /\ UNCHANGED <<config, rows, runs, marked, compared, faults>>

\* Mutant: a case with a row is left as it is.
PersistMissing(c) ==
    /\ At("case") /\ c \in job.todo
    /\ rows' = IF rows[Strategy][c] # "none" THEN rows
               ELSE [rows EXCEPT ![Strategy][c] = job.results[c]]
    /\ job' = [job EXCEPT !.todo = @ \ {c}]
    /\ UNCHANGED <<config, runs, marked, compared, faults>>

\* _persist_case_results: the predicted results are committed one by one, over the rows
\* of an earlier run.
PersistPredicted(c) ==
    /\ At("case") /\ c \in job.todo
    /\ rows' = [rows EXCEPT ![Strategy][c] = job.results[c]]
    /\ job' = [job EXCEPT !.todo = @ \ {c}]
    /\ UNCHANGED <<config, runs, marked, compared, faults>>

\* Mutant: a malformed answer is not committed, for the next run to ask again.
PersistWellFormed ==
    /\ At("persist")
    /\ rows' = IF job.results[job.case] = "malformed" THEN rows
               ELSE [rows EXCEPT ![Strategy][job.case] = job.results[job.case]]
    /\ job' = [job EXCEPT !.at = "case", !.case = Other]
    /\ UNCHANGED <<config, runs, marked, compared, faults>>

\* upsert_eval_case_result commits.
PersistResult ==
    /\ At("persist")
    /\ rows' = [rows EXCEPT ![Strategy][job.case] = job.results[job.case]]
    /\ job' = [job EXCEPT !.at = "case", !.case = Other]
    /\ UNCHANGED <<config, runs, marked, compared, faults>>

AllAnswered ==
    /\ At("case") /\ job.todo = {}
    /\ \A c \in Cases : job.results[c] # "none"
    /\ job' = [job EXCEPT !.at = "measure"]
    /\ UNCHANGED <<config, rows, runs, marked, compared, faults>>

\* The metrics of all cases, in memory.
Measured == Metrics(job.results)

InsertRun(s) == runs' = [runs EXCEPT ![s] = IF @ = NoMetric THEN Measured ELSE @]

NextStrategy ==
    job' = IF job.i = Len(Order) THEN [job EXCEPT !.at = "end"]
           ELSE [Idle EXCEPT !.at = "load", !.i = job.i + 1]

\* _insert_eval_run_if_missing
InsertEvalRun ==
    /\ At("measure")
    /\ InsertRun(Strategy)
    /\ IF Strategy = "baseline" THEN job' = [job EXCEPT !.at = "scaffold"] ELSE NextStrategy
    /\ UNCHANGED <<config, rows, marked, compared, faults>>

\* The evaluation of the baseline again, under the name baseline_scaffold.
InsertScaffoldRun ==
    /\ At("scaffold")
    /\ InsertRun("scaffold")
    /\ NextStrategy
    /\ UNCHANGED <<config, rows, marked, compared, faults>>

MarkStage ==
    /\ At("end")
    /\ marked' = TRUE /\ job' = Idle
    /\ UNCHANGED <<config, rows, runs, compared, faults>>

\* A crash, a cancelled step, a database or embedding call that raises.
Interrupt ==
    /\ ~At("off") /\ faults < MaxFaults
    /\ job' = Idle /\ faults' = faults + 1
    /\ UNCHANGED <<config, rows, runs, marked, compared>>

\* The aggregate phase: _load_eval_result_from_db, then the classification statistics
\* of every evaluation but those of the baseline and of retrieval.
LoadEvaluations ==
    /\ At("off") /\ marked /\ compared["baseline"] = NoMetric
    /\ compared' = [s \in Strategies |->
                       IF runs[s] = NoMetric \/ s \in {"baseline", "retrieval"} THEN runs[s]
                       ELSE Refreshed(runs[s], rows[s])]
    /\ UNCHANGED <<config, rows, runs, marked, job, faults>>

AskAny == \E c \in Cases, r \in Answers : AskStudent(c, r)
RetrieveAny == \E c \in Cases, r \in Results : AskWithRetrieved(c, r)
PredictAny == \E p \in Predictions : Predict(p)
PersistAny == \E c \in Cases : PersistPredicted(c)

Next ==
    \/ StartStage \/ LoadRows \/ PredictAny \/ PersistAny \/ PersistResult
    \/ AllAnswered \/ InsertEvalRun \/ InsertScaffoldRun \/ MarkStage
    \/ AskAny \/ RetrieveAny \/ Interrupt \/ LoadEvaluations

Spec == Init /\ [][Next]_vars

-----------------------------------------------------------------------------

\* Every variable has its type.  (The stage evaluating_baseline.)
TypeOK ==
    /\ config \in Configs
    /\ rows \in [Strategies -> [Cases -> Results \cup {"none"}]]
    /\ runs \in [Strategies -> Metric \cup {NoMetric}]
    /\ marked \in BOOLEAN
    /\ job \in [at: Places, i: 1..Len(Order), results: [Cases -> Results \cup {"none"}],
                todo: SUBSET Cases, case: Cases \cup {Other}, lookups: Sizes, models: Sizes]
    /\ compared \in [Strategies -> Metric \cup {NoMetric}]
    /\ faults \in 0..MaxFaults

\* A strategy that asks the student keeps a case result once it is committed: a rerun
\* of the stage does not ask about that case again, and no second answer replaces the
\* first (completed_case_results, and `continue` in the loop over retrieval).  The
\* strategies that embed are no part of it: each run writes their rows again.
ResultsFinal ==
    [][\A s \in Strategies \ Embedded, c \in Cases :
          rows[s][c] # "none" => rows'[s][c] = rows[s][c]]_vars

\* A row of eval_runs means that every case of its strategy has a committed result.  It
\* holds the metrics of those results, that of baseline_scaffold those of the baseline,
\* however often the stage was interrupted, if the strategy asks the student; a strategy
\* that embeds keeps the metrics of the first run that measured it, and the results of
\* the last (_insert_eval_run_if_missing beside upsert_eval_case_result).  And the
\* marker means that every strategy has its row.
RunsMatchRows ==
    /\ \A s \in Strategies : runs[s] # NoMetric =>
          LET results == rows[IF s = "scaffold" THEN "baseline" ELSE s] IN
          /\ s \notin Embedded => runs[s] = Metrics(results)
          /\ \A c \in Cases : results[c] # "none"
    /\ marked => \A s \in Elements(Order) \cup {"scaffold"} : runs[s] # NoMetric

\* A run measures what is committed: when it has all results of a strategy in memory,
\* the rows are exactly these, so no row of an earlier embedding is left among those of
\* this one, and the failures it reports for retrieval are those of the rows, in the
\* run that began the strategy and in one that resumed it.
MeasuredIsCommitted ==
    At("measure") =>
        /\ rows[Strategy] = job.results
        /\ Strategy = "retrieval" =>
              /\ job.lookups = Count(rows["retrieval"], Cases, "lost")
              /\ job.models = Count(rows["retrieval"], Cases, "malformed")

\* The distilled prompts are compared with the baseline as it was measured:
\* baseline_scaffold enters the gates with the right answers of the baseline.
ScaffoldAsMeasured ==
    compared["scaffold"] # NoMetric =>
        compared["scaffold"].right >= compared["baseline"].right
=============================================================================
