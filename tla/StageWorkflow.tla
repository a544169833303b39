---------------------------- MODULE StageWorkflow ----------------------------
(***************************************************************************)
(* The DBOS workflow of one job (workers/dbos_workflow.py): its phases are *)
(* steps whose outcomes DBOS records, its status decides what the next     *)
(* claim of the job does, and DBOS.launch recovers it when the process     *)
(* comes back.  One worker process claims the job, again after a crash, an *)
(* error or a cancellation (JobQueue has the race of several).  Extraction *)
(* is BatchExtraction's; a phase of evaluation is one case and its call,   *)
(* the aggregate phase the one call that refines rules.                    *)
(***************************************************************************)
EXTENDS BatchExtraction

CONSTANT MaxFaults      \* bound on crashes, errors and cancellations

ASSUME FaultAssumption == MaxFaults \in Nat

VARIABLES
    wf,         \* DBOS's record: the workflow's status and the steps completed
    running,    \* this process executes the workflow
    claim,      \* the job as the worker has it
    faults      \* faults so far

wfvars == <<wf, running, claim, faults>>
data == <<config, batches, saved, marks, rows, calls, events>>
vars == <<data, ph, wfvars>>

Statuses == {"none", "PENDING", "SUCCESS", "ERROR", "CANCELLED"}

TypeOK ==
    /\ config \in [batch: BOOLEAN, min: MinItems]
    /\ batches \in Seq(Batch)
    /\ saved \in [batch: Nat, status: {"none", "submitted", "completed", "partial", "failed", "expired"}]
    /\ saved.batch <= Len(batches)
    /\ marks \subseteq Cases \cup StageMarks
    /\ rows \in [Keys -> Nat] /\ calls \in [Keys -> Nat] /\ events \in [Keys -> Nat]
    /\ ph \in Phase
    /\ wf \in [status: Statuses, done: 0..8]
    /\ running \in BOOLEAN
    /\ claim \in {"waiting", "claimed", "down", "completed"}
    /\ faults \in 0..MaxFaults

\* _run_stage_sequence.
Sequence ==
    (IF config.batch THEN <<"validate", "submit", "poll", "collect">>
     ELSE <<"validate", "compile">>) \o <<"baseline", "dbscan", "hdbscan", "aggregate">>

NoWorkflow == [status |-> "none", done |-> 0]

Init ==
    /\ config \in [batch: BOOLEAN, min: MinItems]
    /\ batches = <<>> /\ saved = [batch |-> 0, status |-> "none"] /\ marks = {}
    /\ rows = [k \in Keys |-> 0] /\ calls = [k \in Keys |-> 0] /\ events = [k \in Keys |-> 0]
    /\ ph = NoPhase
    /\ wf = NoWorkflow /\ running = FALSE /\ claim = "waiting" /\ faults = 0

-----------------------------------------------------------------------------
(* The worker and DBOS *)

\* Mutant: an ended workflow is started again under its id, which replays it.
StartsFreshOnlyFirst == wf.status = "none"

\* run_dbos_stage_workflow deletes a workflow that ended badly; any other status
\* makes start_workflow return the execution there is.
StartsFresh == wf.status \in {"none", "ERROR", "CANCELLED"}

\* A cancelled workflow whose step is still under way is not started again before the
\* step has ended: the operator's retry comes later than that.  One that comes earlier
\* makes two executions of the job, as in JobQueue and PipelineResume.
ClaimJob ==
    /\ claim = "waiting" /\ (wf.status = "CANCELLED" => ~running)
    /\ claim' = "claimed"
    /\ IF StartsFresh
       THEN wf' = [status |-> "PENDING", done |-> 0] /\ running' = TRUE
       ELSE UNCHANGED <<wf, running>>
    /\ UNCHANGED <<data, ph, faults>>

\* The handle returns, and complete_job; or it raises, and the job is claimed again:
\* by the failure policy, or by the retry of an operator.
ResultReturned ==
    /\ claim = "claimed" /\ ~running /\ wf.status # "PENDING"
    /\ claim' = IF wf.status = "SUCCESS" THEN "completed" ELSE "waiting"
    /\ UNCHANGED <<data, ph, wf, running, faults>>

\* The process dies: the phase and its collector with it; the lease runs out.
Crash ==
    /\ claim \in {"waiting", "claimed"} /\ faults < MaxFaults
    /\ faults' = faults + 1
    /\ ph' = NoPhase /\ running' = FALSE /\ claim' = "down"
    /\ UNCHANGED <<data, wf>>

\* A new process launches DBOS before it claims: a pending workflow is recovered.
Launch ==
    /\ claim = "down"
    /\ running' = (wf.status = "PENDING")
    /\ claim' = "waiting"
    /\ UNCHANGED <<data, ph, wf, faults>>

\* cancel_job_from_ui: the workflow stops where its next step would start.
CancelWorkflow ==
    /\ wf.status = "PENDING" /\ faults < MaxFaults
    /\ wf' = [wf EXCEPT !.status = "CANCELLED"]
    /\ faults' = faults + 1
    /\ UNCHANGED <<data, ph, running, claim>>

-----------------------------------------------------------------------------
(* The steps of the workflow *)

Idle == running /\ ph.at = "off"

EnterPhase ==
    /\ Idle /\ wf.status = "PENDING"
    /\ Sequence[wf.done + 1] # "poll"
    /\ ph' = [NoPhase EXCEPT !.name = Sequence[wf.done + 1], !.at = "enter"]
    /\ UNCHANGED <<data, wfvars>>

StopCancelled ==
    /\ Idle /\ wf.status = "CANCELLED"
    /\ running' = FALSE
    /\ UNCHANGED <<data, ph, wf, claim, faults>>

\* A step's outcome is recorded; after the last one the workflow has succeeded.
Recorded ==
    LET ends == wf.done + 1 = Len(Sequence) /\ wf.status = "PENDING"
    IN  /\ wf' = [status |-> IF ends THEN "SUCCESS" ELSE wf.status, done |-> wf.done + 1]
        /\ running' = (running /\ ~ends)

LeavePhase ==
    /\ running /\ At("end")
    /\ ph' = NoPhase
    /\ Recorded
    /\ UNCHANGED <<data, claim, faults>>

\* _poll_extraction_batch_once: no row, an ended batch, and an error count as done.
PollStep ==
    /\ Idle /\ wf.status = "PENDING" /\ Sequence[wf.done + 1] = "poll"
    /\ \/ (saved.batch > 0 => TheBatch.ended # "no") /\ UNCHANGED faults
       \/ faults < MaxFaults /\ faults' = faults + 1
    /\ Recorded
    /\ UNCHANGED <<data, ph, claim>>

\* An exception leaves the phase; the step and the workflow end in error.
Fail ==
    /\ ph' = NoPhase
    /\ wf' = [wf EXCEPT !.status = IF @ = "CANCELLED" THEN @ ELSE "ERROR"]
    /\ running' = FALSE

RaiseError ==
    /\ running /\ ph.at \notin {"off", "end"} /\ faults < MaxFaults
    /\ Fail
    /\ faults' = faults + 1
    /\ UNCHANGED <<data, claim>>

-----------------------------------------------------------------------------
(* The other phases *)

\* validating_project commits the cases of the request first ...
InsertCases ==
    /\ At("enter") /\ ph.name = "validate" /\ "validated" \notin marks /\ rows["cases"] = 0
    /\ rows' = [rows EXCEPT !["cases"] = 1]
    /\ Goto("validated")
    /\ UNCHANGED <<config, batches, saved, marks, calls, events>>

\* ... and its marker next.  compile_prompts looks at the marker too and, coming
\* after validate_project, always finds it (RecordedMeansMarked).
MarkValidated ==
    /\ At("validated")
    /\ marks' = marks \cup {"validated"}
    /\ Goto("end")
    /\ UNCHANGED <<config, batches, saved, rows, calls, events>>

SkipValidation ==
    /\ At("enter") /\ ph.name = "validate" /\ "validated" \in marks
    /\ Goto("end")
    /\ UNCHANGED data

\* A run that finds the cases without the marker inserts them a second time and
\* fails on their primary key.
DuplicateCases ==
    /\ running /\ At("enter") /\ ph.name = "validate"
    /\ "validated" \notin marks /\ rows["cases"] > 0
    /\ Fail
    /\ UNCHANGED <<data, claim, faults>>

\* An evaluation that is not marked asks for the cases without a result.
Evaluate ==
    /\ At("enter") /\ ph.name \in Evaluations
    /\ \/ ph.name \in marks /\ Goto("persist") /\ UNCHANGED calls
       \/ ph.name \notin marks /\ rows[ph.name] > 0 /\ Goto("evalmark") /\ UNCHANGED calls
       \/ /\ ph.name \notin marks /\ rows[ph.name] = 0
          /\ Record(ph.name)
          /\ ph' = [ph EXCEPT !.at = "evaluated", !.records = @ \cup {ph.name}]
    /\ UNCHANGED <<config, batches, tables, events>>

WriteResult ==
    /\ At("evaluated")
    /\ rows' = [rows EXCEPT ![ph.name] = 1]
    /\ Goto("evalmark")
    /\ UNCHANGED <<config, batches, saved, marks, calls, events>>

MarkEvaluated ==
    /\ At("evalmark")
    /\ marks' = marks \cup {ph.name}
    /\ Goto("persist")
    /\ UNCHANGED <<config, batches, saved, rows, calls, events>>

\* The aggregate phase sets no tracking context: its calls reach no collector
\* that is ever persisted.  Its own collector is empty.
Refine ==
    /\ At("enter") /\ ph.name = "aggregate" /\ "completed" \notin marks
    /\ Record("refine")
    /\ Goto("aggregate")
    /\ UNCHANGED <<config, batches, tables, events>>

Aggregate ==
    /\ ph.name = "aggregate" /\ (At("enter") \/ At("aggregate"))
    /\ marks' = marks \cup {"completed"}
    /\ Goto("end")
    /\ UNCHANGED <<config, batches, saved, rows, calls, events>>

Work ==
    \/ running /\ Extraction /\ UNCHANGED wfvars
    \/ running /\ (InsertCases \/ MarkValidated \/ SkipValidation) /\ UNCHANGED wfvars
    \/ running /\ (Evaluate \/ WriteResult \/ MarkEvaluated \/ Refine \/ Aggregate) /\ UNCHANGED wfvars

Provider == \E i \in DOMAIN batches : EndBatch(i) /\ UNCHANGED wfvars

System == Launch \/ ClaimJob \/ ResultReturned \/ EnterPhase \/ StopCancelled
              \/ LeavePhase \/ PollStep \/ DuplicateCases \/ Work

\* A job that is completed rests.
Next == System \/ Provider \/ Crash \/ CancelWorkflow \/ RaiseError

Spec == Init /\ [][Next]_vars

\* The process is restarted, claims and awaits; the provider ends its batches.
FairSpec == Spec /\ WF_vars(System) /\ WF_vars(Provider)

-----------------------------------------------------------------------------
(* Properties *)

\* Once extracting_rules is marked nobody asks for a case again, so each case has
\* its rules or its marker, or its item failed in the batch that was collected.
LeftOutOnlyFailed ==
    "extracting" \in marks =>
        \A c \in Cases : rows[c] > 0 \/ c \in marks
            \/ (saved.batch > 0 /\ c \in TheBatch.items \ Succeeded(TheBatch))

\* However often phases are repeated, a case is paid for, and its rules are
\* written, once more at most for each crash, error or cancellation; and of the
\* batches submitted the job keeps one.
RepeatsNeedFaults ==
    /\ \A c \in Cases : calls[c] <= 1 + faults /\ rows[c] <= 1 + faults
    /\ Len(batches) <= 1 + faults
    /\ rows["synth"] <= 1

\* DBOS's record and the stage markers, which are written by different
\* transactions, agree: a step DBOS will not run again has left its marker.
RecordedMeansMarked ==
    LET Done(name) == \E i \in 1..wf.done : Sequence[i] = name
    IN  /\ Done("validate") => "validated" \in marks
        /\ Done("submit") => "submitted" \in marks \/ "extracting" \in marks
        /\ Done("collect") \/ Done("compile") => {"extracting", "compiled"} \subseteq marks
        /\ \A e \in Evaluations : Done(e) => e \in marks
        /\ wf.status = "SUCCESS" => "completed" \in marks
        /\ claim = "completed" => wf.status = "SUCCESS"

\* Stored usage counts no call twice, and none that was not made.
UsageCountedOnce == \A k \in Keys : events[k] <= 1 /\ events[k] <= calls[k]

\* Without batching, a completed job that was never interrupted has the usage of
\* every phase but the aggregate one.
UsageLostOnlyByFaults ==
    claim = "completed" /\ faults = 0 /\ ~config.batch =>
        \A k \in Keys \ {"refine"} : (calls[k] > 0) = (events[k] > 0)

\* Every model call made for a job that ran without interruption is stored.
EveryCallStored ==
    claim = "completed" /\ faults = 0 => \A k \in Keys : calls[k] > 0 => events[k] > 0

\* A batch that failed as a whole is made up for case by case before the job ends.
FailedBatchMadeUp ==
    claim = "completed" /\ saved.status = "failed" =>
        \A c \in Cases : rows[c] > 0 \/ c \in marks

\* The cases are there and the marker of validating_project is not.
HalfValidated == rows["cases"] > 0 /\ "validated" \notin marks

\* A job is completed in the end, whatever failed on the way: unless a fault fell
\* between the two commits of validating_project, from which no rerun recovers.
JobCompletes == <>(claim = "completed") \/ <>[](HalfValidated /\ faults > 0)
=============================================================================
