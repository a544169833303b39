# RuleKiln: TLA+ models, checks and proofs

RuleKiln distills labelled cases into rules and prompts: a job is queued over
HTTP, a worker claims it, and a pipeline of model calls extracts micro rules,
clusters and synthesizes them, compiles prompts, evaluates these, refines the
rules of the best one and exports it. The state that matters is in Postgres.
Workers are at-least-once: a crash hands the job to another worker, which runs
the pipeline again, and stage markers and the record of the DBOS workflow tell
it what to leave out. This directory models the queue, the workflow and every
stage of the pipeline, each with its crashes, and the pure decisions about
rules and strategies; TLC checks the models and TLAPS proves their main
invariants and refinements. All paths below are under `src/src/rulekiln/`
unless they say otherwise.

## The system

| Part | State | Operations | What makes it correct | Modelled in |
|---|---|---|---|---|
| API and UI handlers (`api/routes`, `ui/routes.py`) | rows of `distillation_jobs` | create, preview (a draft row), submit, cancel, retry | a request acts on the row it has read; final rows stay final | `JobQueue` |
| Queue repository (`db/repositories/jobs.py`) | `queue_status`, `status`, `locked_by`, `lease_expires_at`, `attempt_count`, `next_attempt_at` | claim, renew, recover, complete, fail, cancel, retry | lock columns agree; one executor; bounded claims; every job settles | `JobQueue` |
| Worker (`workers/dbos_worker.py`) | one job in hand, a renewer task | loop of recover, claim, run, settle; renewal beside it | the executor owns its row under a live lease | `JobQueue`, `JobQueuePrompt` |
| DBOS workflow (`workers/dbos_workflow.py`, `dbos_runtime.py`) | DBOS's record of steps | start, replay, delete and start, recover at launch | a retried job does its work again, a recorded step is really done | `StageWorkflow` |
| Pipeline (`workers/distillation_worker.py`) | cases, micro rules, clusters, synthesized rules, prompt versions, eval runs and results, `stage_markers` | 15 stages before aggregation, each checked and marked | a rerun repeats nothing that is committed and omits nothing that is not | `PipelineResume` |
| Batch extraction (same file, `providers/chat/openai_chat.py`) | `batch_jobs`, the provider's batch | submit, poll, collect, sequential fallback | one batch per job; every case extracted once | `BatchExtraction` |
| Baseline evaluation (same file, `pipeline/evaluator.py`, `baseline_strategies.py`) | `eval_case_results`, `eval_runs` | one strategy after another, case by case | metrics and failure counts are those of the committed results | `BaselineEvaluation` |
| Aggregation and refinement (same worker file) | gate markers, `outputs/refinement_iter_*.json`, the selected prompt version | gates, selection, refinement iterations, ablation, two-pass optimizer | what is exported and reported is what was evaluated | `RefinementLoop`, `Aggregation` |
| MLflow and artifacts (`artifacts/`, same worker file) | run id of the job row, `mlflow_run_id.txt`, the export | create a run, log, export | all places name one run | `Aggregation`, without contents |
| Usage tracking (`providers/tracking.py`, `usage/`) | records in memory, `model_call_events` | record, dedupe, insert | every call is counted once | `BatchExtraction`, `StageWorkflow`, without prices and sums |
| Pure decisions (`pipeline/`) | none | split policy, gates, selection, failure analysis, refinement actions, pruning | each agrees with its definition | `SelectAndRefine` and its parts |
| Metrics, rate limiter, prompt compiler, agents, adapters, schemas, pages, benchmarks | none that is read back | calls, arithmetic, rendering | | not modelled, see below |

How they interact: handlers and workers share only the job row. A worker calls
the DBOS workflow, which calls `_run` once per phase; `_run` reads its place
from the markers and writes the job's `status` on the way (`_set_stage`),
independently of the queue columns. A cancel does not reach the running
pipeline. The renewer is an asyncio task of the worker's process, so blocking
work delays it. Phases share only the tables, so what a phase has in memory
(usage records, failure analysis, case results) is lost to the next.

What is hard: every handler reads, awaits and then writes without a condition;
settling UPDATEs name no owner; leases race with renewals; a run can be
interrupted between any two commits; selects and inserts of markers are
separate statements; DBOS's record and the markers are written by different
transactions; the provider ends a batch when and how it likes. `PROJECT.json`
lists these as hazards at their lines, with the properties that cover each.

## Modules

| Module | Models | Kind |
|---|---|---|
| `JobQueue` | the row, the handlers, `worker_loop`, `_lease_renewer`, time | detailed |
| `JobLifecycle` | what the design documents promise of a job | abstract |
| `JobQueuePrompt` | `JobQueue` under the conditions its design relies on, with the refinement mapping to `JobLifecycle` | composition |
| `PipelineResume` | `_run` up to the distilled evaluations, for executors that may overlap | detailed |
| `StageChain` | what a resumable pipeline promises | abstract |
| `PipelineResumeSingle` | one executor at a time, the inductive invariant, the mapping to `StageChain` | composition |
| `BatchExtraction` | the extraction in one call of `_run`, by a batch or case by case, and its usage records | detailed |
| `StageWorkflow` | the workflow of a job, its steps and its retries, over `BatchExtraction` | composition |
| `BaselineEvaluation` | the stage `evaluating_baseline` and what the aggregate phase loads of it | detailed |
| `RefinementLoop` | `_run_refinement_loop` with its files | detailed |
| `Aggregation` | the aggregate phase, with `RefinementLoop` inside | composition |
| `StrategySelection`, `FailureAnalysis`, `RuleActions`, `RulePruning` | split policy, gates and selection; classes, attribution, signals; the teacher's actions; pruning | operators |
| `SelectAndRefine` | these in the order the aggregate phase calls them | composition |
| `..._proofs` | one for each of `JobQueue`, `JobQueuePrompt`, `PipelineResume` (one executor; `PipelineOverlap_proofs` has those that overlap), `StageWorkflow`, `BaselineEvaluation`, `Aggregation`, `SelectAndRefine` | proofs |
| `MC...` | symmetry and instances | for TLC |

The job is cut into models at its tables. `JobQueue` has every race of workers
and takes the workflow as an outcome; `StageWorkflow` has the workflow and
takes a stage of evaluation and the aggregate phase as one call;
`BaselineEvaluation` and `Aggregation` have what happens inside these, and
`SelectAndRefine` what the decisions inside `Aggregation` decide.

### JobQueue and the code

`row` is the table. One action is one committed transaction, or one read whose
result is used after an await: a UI request is `BeginRequest` (the read and the
status check, `Accepts`) and later `SubmitDraft`, `CancelJob` or `RetryJob`
(the unconditional UPDATE); `apply_job_failure_policy` is `ReadFailureBudget`
and `WriteFailure`. `phase[w]` is the place in `worker_loop`: recover, claim,
run, then done or failread/failwrite. `ClaimJob` is `claim_next_job` with
`FOR UPDATE SKIP LOCKED`: the oldest claimable row, except that a row whose
lock may be held (`Contended`) can be passed over. The workflow is three
outcomes: it writes `completed` and returns, it returns an earlier result, or
it raises; `PipelineStage` is its status writes. Time is remaining seconds;
`Tick` takes one, and waits for a healthy renewer that is due, since the sleep
and the renewal are short beside the lease. A renewer that stalls (blocking
work) or dies (an exception) is a fault. A crash keeps the row as it is.

### PipelineResume and the code

`rows[<<k, i>>]` and `marks[<<k, i>>]` count the rows and the stage markers of
item `i` of stage `k` (`i = 0`: the stage itself). `calls` counts model calls.
`run[e]` is local to a run and lost when it is interrupted. `CheckStage` is
`is_stage_complete` and the work list a stage computes on entry (`ToDo`); the
two reads of this list are taken together, which is sound because rows are only
added. The commits are separate where the code has them separate:

- extraction commits the rules of a case (`WriteMicroRules`), then its marker;
- synthesis and review add their rows to the session and commit them together
  with the marker (`WriteWithMarker`);
- an evaluation upserts each result (`UpsertCaseResult`), reads whether an eval
  run exists (`CheckEvalRun`), inserts it, and marks;
- a stage without items writes (`WriteArtifact`) and then marks;
- the rules are embedded on the way to clustering by every run that gets there, marked
  or not (`EmbedRules`), and the cases by every run that finds the baseline unmarked
  (`EmbedCases`); neither answer is stored;
- `mark_stage_complete` is a select (`MarkRead`) and an insert (`MarkInsert`).

The data is abstracted to what resuming can tell apart: an answer yields a row
or none, a cluster and the rules synthesized from it are one item, and
clustering gives the same clusters to the same rules.

`StageChain` has no runs, interruptions or reruns. It says: stages complete in
order, an answer is recorded while its stage is the next to complete, an
extraction or evaluation completes only when each case is answered, and
nothing is taken back.

### BatchExtraction, StageWorkflow and the code

A phase is one call of `_run`; `ph` is what it has in memory: its place, its
work list, the items it has collected, its usage records. `rows`, `marks`,
`saved` (the row of `batch_jobs`) and `events` (`model_call_events`) are tables,
`batches` is the provider. `SubmitBatch` and `SaveBatch` are separate because
the provider accepts before the row is committed; so are the rules of an item
(`CollectItem`, `WriteAnswer`) and its marker (`MarkItem`, `MarkCase`).
`EndBatch` ends a batch as completed, failed or expired with any outcome for
each item. Polling decides nothing about the data, and an error of it counts as
an end (`PollStep`), as in `poll_until_complete_step`. Whether the batch is big
enough (`UseBatch`) is asked again in every phase. Usage is inserted only when
the phase persists (`Persist`), which the phases of submitting and collecting
do not.

`wf` is DBOS's record: a status and how many steps it has recorded. `ClaimJob`
is `run_distillation_job_workflow`: a workflow in ERROR or CANCELLED is deleted
and started again from its first step, a finished one gives its result
(`ResultReturned`). `Crash` keeps tables, provider and record; `Launch` is
`DBOS.launch`, which recovers a pending workflow before the job is claimed.
`LeavePhase` records the step after `_run` has returned, so a crash between the
two runs the phase again over its own markers. `validate_project` commits the cases
(`InsertCases`) and then its marker (`MarkValidated`); a fault between them leaves
`HalfValidated`, and each further run inserts the cases again, fails on their keys
(`DuplicateCases`) and ends the workflow in ERROR. One thing is assumed: an
operator retries a cancelled job after the step that was running has ended
(`JobQueue` has the race in which it has not). The evaluation phases stand for
one case each, the aggregate phase for the one call that refines rules.

### BaselineEvaluation and the code

A strategy asks the student about each case, asks it with retrieved neighbours,
or predicts from embeddings; `job` is the stage in memory. `LoadRows` reads the
committed results and rebuilds the failure counts; `PersistResult` commits a
result before the next case; `InsertEvalRun` computes the metrics and inserts
the row unless there is one. The centroid and kNN strategies do not look at committed
results: in every run they embed again (`Predict`, with any labels: nothing binds an
embedding to be the one of the last run) and upsert all cases (`PersistPredicted`),
over the rows of an interrupted run. Their row of `eval_runs` stays, so after a rerun
it can hold the metrics of results that are no longer in the table. The neighbours of a case are
training cases other than the case itself; where training falls back to the
evaluation cases these are cases under evaluation. `LoadEvaluations` is what
the aggregate phase does in its own call: load metrics, then recompute those of
the strategies with labels (`Refreshed`) over the case results in the database.

### RefinementLoop, Aggregation and the code

A set of rules is known by where it comes from: 0 for the rules of the
database, `i + 1` for what iteration `i` made of them. A metric is a number of
equal steps. `loop` and `run` are memory, `files` and `bestFile` the files that
outlive it. Each stage is entered by its marker: `Skip` leaves out a marked
one, `Open` is one that is not. `run.held` is the evaluation under the name of
the selected strategy, which refinement replaces; `run.prompt` is the version
the exported prompt was compiled from, which it does not. Ablation and the
optimizer store an evaluation, mark it and add a record in memory, in that
order, so an interruption can come between any two. MLflow's run id goes to the
job row, to a file and to the export in separate actions.

### SelectAndRefine and the code

One run without crashes, with every input: `CheckGates`, `SelectOne`,
`Analyze`, `AskTeacher`, `ApplyActions`, `Prune`. A case expects the label
that is its number, and a rule governs the labels of its outcomes. A rule's
text is the number of its tokens; its id is a sequence, because a split appends
to it. The teacher's answer has any sequence of rules kept, discarded, modified or
split, on either rule, in any order, and any sequence of revised rules, which the
schema of the answer has kept from its first version. Only the actions are held to
the rules the teacher was shown (`Accepted`); without an accepted action the revised
rules are applied, to whatever rule they name (`Applied`).

## What is checked

| Run | Bounds | Shows |
|---|---|---|
| `queue_general` | 1 job, 2 workers, a crash, a fault, 2 UI requests of any kind | `LockConsistent`: the lock columns agree whichever UPDATE came last; `LiveLeaseRespected`: a live lease ends only through its executor or a request; `OnlyOwnerRenews` |
| `queue_prompt` | 2 jobs, 2 workers, a crash, submit or retry | `PromptInv` (inductive), `ExecutorHoldsLease`, `OneExecutor`, `ImplementsLifecycle` |
| `queue_single` | 2 jobs, 1 fair worker, a crash, a fault, 2 UI requests of any kind | `ClaimBudget`: claims are bounded; `EveryJobSettles` |
| `resume_single` | 15 stages, 2 cases, 1 cluster, 2 interruptions anywhere | `ResumeInv` (inductive), `AnswersOnce`, `NoPaidWorkRepeated`, `LostPerInterruption`: an interruption costs the call in flight and one more pass of each embedding; `ImplementsChain`, `ValidatedFinishes` |
| `resume_overlap` | 2 executors, 4 stages, 2 cases, 1 interruption | `MarkedMeansComplete`: even overlapping runs leave nothing out of a marked stage |
| `workflow` | 2 cases, batching on and off, a threshold met and not met, 2 faults | `LeftOutOnlyFailed`: a marked extraction leaves out only items that failed in its batch; `RepeatsNeedFaults`: one repetition per fault at most, of calls, rules and batches; `RecordedMeansMarked`: a step DBOS has recorded has left its marker; `UsageCountedOnce`, `UsageLostOnlyByFaults`; `JobCompletes`: unless a fault falls between the two commits of validation |
| `baseline` | 2 evaluated cases and another, one few-shot strategy, centroid and retrieval, every label and training set, 1 interruption | `RunsMatchRows`: metrics are those of the committed results, resumed or not, where the student is asked, and stand for results of all cases where embeddings are; `MeasuredIsCommitted`: what a run measures and counts is what the rows have; `ResultsFinal`: no answer of the student is replaced |
| `aggregate` | 2 iterations, metrics 0..2, 3 rules of which 2 are ablated, 2 interruptions | `RefinementNeverLowers`, `CheckpointsUnused`, `MetricHasItsRules`: a metric that is not the report's is of the rules in the file of the best, `MlflowAgrees`, `ResultsLostOnlyByFaults`, `JobEnds` |
| `rules` | 2 cases, validation or golden, with every result, 3 candidates, 2 rules, every answer of at most 2 actions and revised rules, 3 ranking modes | `SelectionSound`: who passes is preferred, the metric within its tolerance, golden failures at most those of the best; `SignalsCountCases`; `OnlyImplicatedChange`: a rule that answers for no failing case survives the actions of any answer, and one that is not named its revised rules; `PruningSound`: a rule is left out only for rules before it |

Three runs end in a violation, and each is a finding of `PROJECT.json`:

- `aggregate_refined` (`RefinedPromptExported`): the refined rules are bound to a
  name that is never read, and the exported prompt is compiled from the rules
  before refinement. What MLflow is told is the refined metric, and the
  report compares the one before it; the rules of the former are found in the file
  of the best rules (`MetricHasItsRules`), and in no prompt.
- `baseline_scaffold` (`ScaffoldAsMeasured`): the scaffold evaluation has no case
  results of its own in the database, and the aggregate phase recomputes its
  metrics over missing ones. The failure analysis and the regression gate then
  have no baseline result of any case.
- `golden_gate` (`GoldenCasesPass`): the gate counts golden failures among results
  that contain no golden case unless there is no other split.

Eight more configurations keep counterexamples that are not among the listed
runs; each is a short trace, found again with `tlc -config X.cfg M`:

- `JobQueue_completed_final`: a cancel that read the row before its completion turns it into a failure.
- `JobQueue_cancel_final`: the failing worker of a cancelled job queues it again.
- `JobQueue_draft_claimed`: a worker runs the draft of a preview.
- `JobQueue_two_executors`: after cancel and retry two workers execute one job.
- `PipelineResume_reruns`: a crash between the commit of the cases and their marker makes every rerun fail on duplicate keys.
- `PipelineResume_duplicates`: the same crash after the clusters or a prompt version leaves two of them.
- `PipelineResume_markers`: overlapping runs write a marker twice; the unique constraint does not apply to rows with a NULL, which every marker has.
- `SelectAndRefine_revised_rules` (`UnrelatedUntouched`): an answer whose actions are all rejected, or that has none, replaces by its revised rules a rule that answers for no failure, while `docs/specs/SPEC_close_conflict_resolution_loop.md:160` leaves unrelated rules untouched.

Two definitions of `StageWorkflow` say what the documents expect and no run
checks, because TLC refutes them: `FailedBatchMadeUp`
(`docs/specs/SPEC_Batch_API_Support.md:745` falls back to single calls, the code
counts failed items and marks the extraction all the same) and
`EveryCallStored` (the phases that submit and collect do not insert their usage, and
the aggregate phase has no tracking context). Further differences read off the
models: a refinement interrupted by a crash is not resumed from its files,
since its failure analysis was in memory and its stage is marked
(`CheckpointsUnused`); the ablation compares the evaluation of refined rules with
ablations of the unrefined ones; a rule the teacher revises has no support
unless the teacher makes one up, and pruning drops it; `golden_backed` is
always false.

**Bounds.** Two workers are enough for every race on a row: a property
relates a row to its executor and one other process. Two attempts give a first
claim, a requeue and an exhausted budget. A lease of 2 or 3 seconds against a
renewal interval of 1 or 2 has renewals before, at and after expiry; with both
at 2 the lease just fits, which is the boundary the assumption allows. Two
cases give one done and one to do on a resume; two interruptions give a resume
of a resume, and the proofs remove the bound. Overlapping runs are cut at
clustering, where every kind of commit but the transaction of synthesis has
occurred; two runs of synthesis would need the answers themselves in the state.
In `workflow` the threshold is 2 or 3 with 2 cases, so with batching on a batch is
used or the job falls back to single calls; two faults give a crash during a
recovery, or a second lost batch. In `aggregate` two
iterations have a rise, a step that is no rise, a fall and the end of the
iterations; 3 rules with 2 ablated have one over the limit; the best of the
baselines scores in the middle, so that it wins, ties and loses. In `rules`
the limits are such that each one cuts: three rules against a budget of 4
tokens with costs from 1 to 3, and a support of 0, 2 and more against 2.

**Fairness.** `JobQueue`'s `Fairness` is weak: a worker that is up takes its
next step, one that is down is restarted (the backend design spec, section 6.1 and line
1456, counts on a deployment that replaces crashed pods and workers; the compose
file alone does not), a stall ends, a due renewal is attempted, time passes, and
the awaited workflow returns or raises. Nothing is assumed of UI requests, and
crashes and faults are bounded, as they must be for anything to finish.
`PipelineResume`'s is weak fairness of a run's steps; being claimed again is
what `EveryJobSettles` shows. `ValidatedFinishes` starts at the marker of
validation because before it `PipelineResume_reruns` is a counterexample, and
`JobCompletes` excepts the same two commits.
`StageWorkflow` assumes that the process is restarted, claims and works
(`System`), and that the provider ends the batch the job knows of (`Provider`),
which it promises for its completion window; that a failed or cancelled job is
claimed again stands for the failure policy or an operator. `Aggregation` assumes
that an interrupted phase is run again, which `JobCompletes` shows. The other
modules state no fairness and have no liveness property.

**Deadlock** is checked for the queue. The other runs turn it off: a finished
job takes no more steps.

Definitions marked as mutants change an operator the way a plausible bug would;
each property is violated by at least one of them under its run's bounds.

## What is proved

For every value of the constants, from the named assumptions of the modules:

- `TypeCorrect` and `LocksAgree` (`JobQueue_proofs`): the type invariant and
  `LockConsistent`, whatever races. `Locked` is preserved row by row (`RowStep`):
  each UPDATE writes the three columns together, and the lemmas about the row
  operators say so.
- `ClaimsBounded` (`JobQueue_proofs`): `ClaimBudget` with one worker and one UI
  request at a time, whatever crashes and faults. Claims alone are not
  inductive: `BudgetInv` counts the claim a pending row will have and the one a
  retry in flight will give it, and says that a requeue is decided within the
  attempts. A second worker breaks it: when a renewer has died, the lease ends while
  the failure policy has read the count, another worker claims the row, and the
  requeue is written all the same (three claims with `max_attempts` 2).
- `LiveLeasesKept` and `OwnersRenew` (`JobQueue_proofs`): `LiveLeaseRespected` and
  `OnlyOwnerRenews`, whatever races. An UPDATE that settles a row without naming its
  owner is always one of a worker that leaves `Executing` with it, or of a request; the
  renewal is conditional on owner and status, and `RenewersExecute` says that a
  renewer task never outlives the job its worker has in hand.
- `PromptQueueSound`, `ExecutorsHoldLeases`, `ExclusiveExecution` and
  `QueueImplementsLifecycle` (`JobQueuePrompt_proofs`), under `PromptAssumption`:
  renewals are prompt, the interval fits in the lease, nobody cancels, one UI
  request at a time. `OneExecutor` alone is not inductive: recovery could
  release a row someone executes. `PromptInv` adds that an executor's lease is at
  least as long as the sleep before its next renewal, so it cannot expire before
  the renewal, and that a retry in flight is of a failed row. Exclusion follows
  because a row names one owner; the refinement because no UPDATE then meets a row
  in a state its lifecycle does not expect.
- `ResumeTypeCorrect` and `OverlapMarksComplete` (`PipelineOverlap_proofs`): types, and
  `MarkedMeansComplete` for any number of executors, up to clustering. With
  overlapping runs the work list of one goes stale, so `ResumeInv` is lost. `OverlapInv`
  says what a list still means (`RunSound`): a case that is not on it, or that the
  run has done since, is settled, because rows and markers are only added; a marker
  of extraction, or of a case, is then one somebody has earned (`StageSound`).
- `ResumeInvariant`, `AnswersWrittenOnce`, `PaidOnce` and
  `PipelineImplementsChain` (`PipelineResume_proofs`), under `SingleAssumption`:
  for any number of cases, clusters and interruptions. What makes it inductive is
  `ToDoExact`: what a run has left to do is exactly what is unanswered, and
  `RowsMarked`: rows of synthesis and review never stand without their
  marker. The proof has one lemma per action.
- `LostWorkBounded` (`PipelineResume_proofs`), under `SingleAssumption`: the calls made
  for items are at most the answers kept, the call in flight and one for each
  interruption, and no embedding is made more often than there were runs. The
  inductive form is the ledger `Balanced`, in which a call enters as in flight, and
  moves to the answered or to the lost. The sum over the items is a fold of the
  library; that it grows by one when one of its terms does (`SumChanged`) is an
  induction over finite sets, which the proof does by a least counterexample
  (`SubsetInduction`), since a theorem that takes a predicate cannot be used.
- `ExtractionLeavesOutOnlyFailed`, `RepetitionsNeedFaults`, `RecordedStepsMarked` and
  `UsageNeverCountedTwice` (`StageWorkflow_proofs`): for any cases, thresholds and
  number of faults. None is inductive: a marker is written from a work list
  in memory, so `WorkflowInv` says what that list leaves out (`BatchSound`,
  `SequentialSound`), that the phases before the current one have left their markers
  (`Progress`), and where a call that is already paid for stands before it is
  committed (`RepeatSound`, with `Bought` and `ToCollect`): each fault can lose one
  such place.
- `UsageComplete` (`StageWorkflow_proofs`): without batching and without faults every
  call outside the aggregate phase has its usage stored. `UsageInv` follows
  a call from the memory of its phase, which is empty whenever no phase runs, to the
  table; batching is left out because the phases that submit and collect do not persist.
- `RefinementSafe`, `ResumeBranchDead`, `MetricRulesKept` and `OneMlflowRun`
  (`Aggregation_proofs`): for any number of iterations, rules, metrics and
  interruptions. `LoopSound` says that the best evaluation is at least the one the
  loop started from and that the files on disk are of earlier iterations of this
  very run; `PlacesMarked` that a run is never past a stage without its marker;
  `MlflowSound` orders the three writes of the run id. `MetricRulesKept` is
  `MetricHasItsRules`; its own `RulesInv` says that the best evaluation is the one in
  the file of its iteration, and that every metric held or logged since is the
  selected prompt's or that of the file of the best rules (`Covered`), which no later
  run of the phase replaces.
- `ResultsKept` (`Aggregation_proofs`): a job that was not interrupted reports every
  ablated rule and every stored mode. `UninterruptedInv` says that, while there was no
  fault, memory and tables agree at each place (`MemoryWhole`): what an interruption
  breaks, since a marked stage is left out with its records.
- `MetricsOfCommittedRows`, `CommittedIsMeasured` and `CommittedResultsFinal`
  (`BaselineEvaluation_proofs`): for any cases, strategies and interruptions.
  `JobMatchesRows` says that the memory of a run is what it has read and committed, or,
  where it embeds, that only the cases it has yet to write differ. The first speaks of the
  metrics, and the third at all, only for strategies that ask the student; the second
  also for those that embed, whose runs may each predict something else. The
  strategies are a sequence, and `NamesAssumption` keeps their names apart, as the
  keys of the dictionaries in the code are.
- `SelectionHolds`, `SignalsCount` and `OthersUntouched` (`SelectAndRefine_proofs`): for any
  cases, results, splits, rules, tolerances and answers of the teacher. The
  three tie-breaks of the selection are one operator, of which `SomeLowest` says that it
  leaves somebody, and the later ones cannot undo what the first two decided;
  `ChoiceInv` keeps gates and choice those of the evaluations. `CountsCases` is the property
  of one rule. `Takes` says what can stand in the place of a rule after the actions,
  and by its ids no two places collide, so the rules that nobody names stay (`Asked`
  keeps the teacher's actions on rules that answer for a failing case; of the revised
  rules nothing of the kind holds, and the theorem says what is left).
- `PruningHolds` (`SelectAndRefine_proofs`): for any rules with distinct ids, any
  signals, every ranking mode and both limits. `BetterIsOrder` says that each mode
  compares consistently (worth per token by cross products), so that the
  stable order is total (`PrecedesIsOrder`) and every place of the ranking is taken once
  (`PlacesTaken`). `Budgeted` is the invariant of the loop over the ranked rules: a rule
  that is passed over did not fit with what was kept before it; the sum of
  tokens is a fold over a set, and `SizeInduction` and `FoldExists` are what is needed to
  reason about it. `Prunable` carries to the step that rules keep distinct ids
  and their fields after the teacher's actions (`AppliedRules`).

`SingleAssumption` is what `ExclusiveExecution` provides while leases are
renewed on time; `JobQueue_two_executors` shows a way to lose it, and
`resume_overlap` and `PipelineResume_markers` what the pipeline then keeps and
loses. The other assumptions only give constants their types, and names their
difference. `PruningAssumption` and `IsRule` take limits and token counts to be
natural numbers: the schemas say int, and a negative estimate from the teacher
would be added to the budget as it is.

Only model-checked: liveness (`EveryJobSettles`, `ValidatedFinishes`,
`JobCompletes`, `JobEnds`), which is outside the prover under fairness, as ENABLED is.
No module here declares a RECURSIVE operator.

## Not modelled

- **Evaluation metrics and statistics** (`pipeline/statistics.py`, the arithmetic
  of `evaluator.py`): macro F1, bootstrap intervals, McNemar tests and centroids
  compute over reals. The models take a metric to be a number of right answers,
  or any number of steps.
- **Rate limiter**: a window and a semaphore around a call. A run makes its calls
  one after another and a worker runs one job, so little interleaves.
- **Prices, token estimates and sums of usage**: arithmetic on stored rows, of
  which `StageWorkflow` says which there are.
- **Prompt compiler, agents, provider adapters**: text in and text out around one
  call; the calls and their failures are actions of the models.
- **Contents of artifacts and calls of the MLflow client**: written and never read
  back, except the files `RefinementLoop` has.
- **Extraction cache**: nothing but its tests constructs it.
- **Pages, schemas, settings, sessions, logging, benchmarks**: no state of the
  service changes there, or (settings) it is a constant here.

## Plan

The order in which the modules were written, each to be proved about:

1. `JobQueue` with `JobLifecycle` and `JobQueuePrompt`.
2. `PipelineResume` with `StageChain` and `PipelineResumeSingle`.
3. `BatchExtraction` and `StageWorkflow`.
4. `RefinementLoop` and `Aggregation`.
5. `BaselineEvaluation`.
6. `StrategySelection`, `FailureAnalysis`, `RuleActions`, `RulePruning` and
   `SelectAndRefine`.

What is left, in this order: the selection of few-shot examples and neighbours
with its exclusions; the rate limiter; the sums of usage.
