------------------------------ MODULE JobQueue ------------------------------
(***************************************************************************)
(* The Postgres-backed job queue: rows of distillation_jobs, the worker    *)
(* processes that claim, renew, recover and settle them (dbos_worker.py,   *)
(* db/repositories/jobs.py), and the API/UI handlers that create, submit,  *)
(* cancel and retry them (api/routes, ui/routes.py).                       *)
(*                                                                         *)
(* Each action is one committed transaction, or one read whose result is   *)
(* used after an await.  Time is kept as remaining seconds: a row's lease  *)
(* and backoff, and a worker's sleep before its next renewal, count down   *)
(* with Tick.  The workflow a worker awaits is abstracted to what it does  *)
(* to the row: it writes status, and it returns or raises.                 *)
(***************************************************************************)
EXTENDS Integers

CONSTANTS
    NumJobs,        \* rows of distillation_jobs, numbered by created_at
    Workers,        \* worker processes (a restarted process reuses its slot)
    Operators,      \* concurrent UI requests
    OpKinds,        \* the kinds of UI request a run considers
    None,           \* SQL NULL in locked_by
    MaxAttempts,    \* settings.worker_max_attempts
    LeaseSeconds,   \* settings.worker_lease_seconds
    MinRenew,       \* the 10 of max(10, lease_seconds // 3)
    Backoff,        \* settings.worker_retry_backoff_seconds
    MaxCrashes,     \* bound on worker crashes
    MaxFaults,      \* bound on stalled or failed lease renewals
    MaxOps          \* bound on UI requests

Jobs == 1..NumJobs

RenewInterval ==
    IF LeaseSeconds \div 3 > MinRenew THEN LeaseSeconds \div 3 ELSE MinRenew

ASSUME JobQueueAssumption ==
    /\ NumJobs \in Nat
    /\ MaxAttempts \in Nat \ {0}
    /\ LeaseSeconds \in Nat
    /\ MinRenew \in Nat \ {0}
    /\ Backoff \in Nat
    /\ MaxCrashes \in Nat /\ MaxFaults \in Nat /\ MaxOps \in Nat
    /\ OpKinds \subseteq {"submit", "cancel", "retry"}
    /\ None \notin Workers

VARIABLES
    row,        \* the table: one record per job
    phase,      \* where each worker is in worker_loop
    job,        \* the job a worker executes
    verdict,    \* what a failing worker has decided to write
    renewer,    \* the worker's _lease_renewer task
    renewIn,    \* seconds until that task wakes up
    op,         \* UI requests between their read and their write
    budget      \* environment steps left: crashes, faults and requests

vars == <<row, phase, job, verdict, renewer, renewIn, op, budget>>
workerVars == <<phase, job, verdict, renewer, renewIn>>

-----------------------------------------------------------------------------
(* The row *)

NoLease == -2       \* lease_expires_at IS NULL
Expired == -1       \* lease_expires_at < now

QueueStatus == {"absent", "pending", "running", "completed", "failed"}
FailedStatus == {"failed_terminal", "failed_retryable"}
Status == FailedStatus \cup {"absent", "draft", "created", "pending", "running",
                             "waiting_for_retry", "completed"}
Verdict == FailedStatus \cup {"requeue", "retryable", "terminal"}

Row == [queue: QueueStatus, status: Status, lockedBy: Workers \cup {None},
        lease: NoLease..LeaseSeconds, attempts: Nat, next: 0..Backoff]

AbsentRow == [queue |-> "absent", status |-> "absent", lockedBy |-> None,
              lease |-> NoLease, attempts |-> 0, next |-> 0]

\* Mutant: a settling UPDATE that forgets locked_by.
ReleasedLocked(r, queue, status) ==
    [r EXCEPT !.queue = queue, !.status = status, !.lease = NoLease]

\* The columns every settling UPDATE writes together: it drops the lock.
Released(r, queue, status) ==
    [r EXCEPT !.queue = queue, !.status = status,
              !.lockedBy = None, !.lease = NoLease]

\* update_job_status: the row's status, whatever the rest of the row says.
WithStatus(r, status) == [r EXCEPT !.status = status]

Executing == {"run", "done", "failread", "failwrite"}
Phase == Executing \cup {"down", "recover", "claim"}
Executes(w, j) == phase[w] \in Executing /\ job[w] = j

Idle == [kind |-> "none", job |-> 0]
Request == [kind: OpKinds, job: Jobs] \cup {Idle}

TypeOK ==
    /\ row \in [Jobs -> Row]
    /\ phase \in [Workers -> Phase]
    /\ job \in [Workers -> Jobs \cup {0}]
    /\ \A w \in Workers : phase[w] \in Executing => job[w] \in Jobs
    /\ verdict \in [Workers -> Verdict]
    /\ \A w \in Workers : phase[w] = "failwrite" => verdict[w] \in FailedStatus \cup {"requeue"}
    /\ renewer \in [Workers -> {"off", "on", "stalled", "dead"}]
    /\ renewIn \in [Workers -> 0..RenewInterval]
    /\ op \in [Operators -> Request]
    /\ budget \in [crashes: 0..MaxCrashes, faults: 0..MaxFaults, ops: 0..MaxOps]

Init ==
    /\ row = [j \in Jobs |-> AbsentRow]
    /\ phase = [w \in Workers |-> "recover"]
    /\ job = [w \in Workers |-> 0]
    /\ verdict = [w \in Workers |-> "terminal"]
    /\ renewer = [w \in Workers |-> "off"]
    /\ renewIn = [w \in Workers |-> 0]
    /\ op = [o \in Operators |-> Idle]
    /\ budget = [crashes |-> MaxCrashes, faults |-> MaxFaults, ops |-> MaxOps]

-----------------------------------------------------------------------------
(* API and UI handlers *)

NextToCreate(j) ==
    /\ row[j].queue = "absent"
    /\ \A k \in 1..(j - 1) : row[k].queue # "absent"

QueuedRow(r, status) == [r EXCEPT !.queue = "pending", !.status = status]

\* POST /jobs: the row is queued at once.
CreateJob(j) ==
    /\ NextToCreate(j)
    /\ row' = [row EXCEPT ![j] = QueuedRow(@, "created")]
    /\ UNCHANGED <<workerVars, op, budget>>

\* POST /ui/jobs/preview: the draft row takes the column default of queue_status.
PreviewJob(j) ==
    /\ NextToCreate(j)
    /\ row' = [row EXCEPT ![j] = QueuedRow(@, "draft")]
    /\ UNCHANGED <<workerVars, op, budget>>

\* Mutant: a retry handler that does not look at the status.
AcceptsAnyRetry(kind, status) ==
    CASE kind = "submit" -> status = "draft"
      [] kind = "cancel" -> status \notin FailedStatus \cup {"completed"}
      [] kind = "retry"  -> TRUE

\* A UI handler reads the row, checks its status, and will write later.
Accepts(kind, status) ==
    CASE kind = "submit" -> status = "draft"
      [] kind = "cancel" -> status \notin FailedStatus \cup {"completed"}
      [] kind = "retry"  -> status \in FailedStatus

BeginRequest(o, kind, j) ==
    /\ op[o] = Idle
    /\ budget.ops > 0
    /\ row[j].queue # "absent"
    /\ Accepts(kind, row[j].status)
    /\ op' = [op EXCEPT ![o] = [kind |-> kind, job |-> j]]
    /\ budget' = [budget EXCEPT !.ops = @ - 1]
    /\ UNCHANGED <<row, workerVars>>

EndRequest(o, kind, newRow) ==
    /\ op[o].kind = kind
    /\ row' = [row EXCEPT ![op[o].job] = newRow]
    /\ op' = [op EXCEPT ![o] = Idle]
    /\ UNCHANGED <<workerVars, budget>>

SubmittedRow(r) == WithStatus(r, "pending")
CancelledRow(r) == Released(r, "failed", "failed_terminal")
RetriedRow(r) == [Released(r, "pending", "waiting_for_retry") EXCEPT !.next = 0]

SubmitDraft(o) == EndRequest(o, "submit", SubmittedRow(row[op[o].job]))
CancelJob(o) == EndRequest(o, "cancel", CancelledRow(row[op[o].job]))
RetryJob(o) == EndRequest(o, "retry", RetriedRow(row[op[o].job]))

-----------------------------------------------------------------------------
(* worker_loop *)

\* Mutants: a recovery without the lease condition, without the attempt
\* condition, and without its second UPDATE.
RecoveredRowUnexpired(r) ==
    IF r.queue # "running" THEN r
    ELSE IF r.attempts < MaxAttempts
         THEN Released(r, "pending", "waiting_for_retry")
         ELSE Released(r, "failed", "failed_retryable")

RecoveredRowUncounted(r) ==
    IF r.queue = "running" /\ r.lease = Expired
    THEN Released(r, "pending", "waiting_for_retry") ELSE r

RecoveredRowStuck(r) ==
    IF r.queue = "running" /\ r.lease = Expired /\ r.attempts < MaxAttempts
    THEN Released(r, "pending", "waiting_for_retry") ELSE r

\* recover_expired_leases: both UPDATEs and one commit.
RecoveredRow(r) ==
    IF r.queue # "running" \/ r.lease # Expired THEN r
    ELSE IF r.attempts < MaxAttempts
         THEN Released(r, "pending", "waiting_for_retry")
         ELSE Released(r, "failed", "failed_retryable")

RecoverLeases(w) ==
    /\ phase[w] = "recover"
    /\ row' = [j \in Jobs |-> RecoveredRow(row[j])]
    /\ phase' = [phase EXCEPT ![w] = "claim"]
    /\ UNCHANGED <<job, verdict, renewer, renewIn, op, budget>>

\* Mutant: a claim that takes running rows as well.
ClaimableRunning(j) == row[j].queue \in {"pending", "running"} /\ row[j].next = 0

Claimable(j) == row[j].queue = "pending" /\ row[j].next = 0

\* A transaction about to write the row may hold its lock: SKIP LOCKED passes
\* over it.  (A row that another worker's claim holds is that worker's next claim,
\* which is the same as claiming after it.)
Contended(j) ==
    \/ \E w \in Workers : Executes(w, j)
    \/ \E o \in Operators : op[o].job = j

ClaimedRow(r, w) ==
    [r EXCEPT !.queue = "running", !.status = "running", !.lockedBy = w,
              !.lease = LeaseSeconds, !.attempts = @ + 1]

\* claim_next_job: the oldest claimable row, and the renewer task is started.
ClaimJob(w, j) ==
    /\ phase[w] = "claim"
    /\ Claimable(j)
    /\ \A k \in 1..(j - 1) : Claimable(k) => Contended(k)
    /\ row' = [row EXCEPT ![j] = ClaimedRow(@, w)]
    /\ phase' = [phase EXCEPT ![w] = "run"]
    /\ job' = [job EXCEPT ![w] = j]
    /\ renewer' = [renewer EXCEPT ![w] = "on"]
    /\ renewIn' = [renewIn EXCEPT ![w] = RenewInterval]
    /\ UNCHANGED <<verdict, op, budget>>

\* Nothing to claim: sleep worker_poll_interval_seconds and loop.
ClaimNothing(w) ==
    /\ phase[w] = "claim"
    /\ \A j \in Jobs : ~Claimable(j)
    /\ phase' = [phase EXCEPT ![w] = "recover"]
    /\ UNCHANGED <<row, job, verdict, renewer, renewIn, op, budget>>

\* _set_stage: the pipeline writes status unconditionally at every stage.
PipelineStage(w) ==
    /\ phase[w] = "run" /\ renewer[w] # "stalled"
    /\ row' = [row EXCEPT ![job[w]] = WithStatus(@, "running")]
    /\ UNCHANGED <<workerVars, op, budget>>

\* The workflow returns: the aggregate phase has written status = completed.
WorkflowCompletes(w) ==
    /\ phase[w] = "run" /\ renewer[w] # "stalled"
    /\ row' = [row EXCEPT ![job[w]] = WithStatus(@, "completed")]
    /\ phase' = [phase EXCEPT ![w] = "done"]
    /\ UNCHANGED <<job, verdict, renewer, renewIn, op, budget>>

\* The workflow of an earlier attempt had succeeded: its recorded result is returned.
WorkflowReplays(w) ==
    /\ phase[w] = "run" /\ renewer[w] # "stalled"
    /\ row[job[w]].attempts > 1
    /\ phase' = [phase EXCEPT ![w] = "done"]
    /\ UNCHANGED <<row, job, verdict, renewer, renewIn, op, budget>>

\* An exception from the workflow or from complete_job, as classify_worker_error sees it.
WorkflowRaises(w, class) ==
    /\ phase[w] \in {"run", "done"} /\ renewer[w] # "stalled"
    /\ verdict' = [verdict EXCEPT ![w] = class]
    /\ phase' = [phase EXCEPT ![w] = "failread"]
    /\ UNCHANGED <<row, job, renewer, renewIn, op, budget>>

\* Mutants: the classification written as it is; the budget off by one.
ReadFailureBudgetRaw(w) ==
    /\ phase[w] = "failread"
    /\ phase' = [phase EXCEPT ![w] = "failwrite"]
    /\ UNCHANGED <<row, job, verdict, renewer, renewIn, op, budget>>

ReadFailureBudgetOffByOne(w) ==
    /\ phase[w] = "failread"
    /\ verdict' = [verdict EXCEPT ![w] =
          IF @ = "terminal" THEN "failed_terminal"
          ELSE IF row[job[w]].attempts <= MaxAttempts THEN "requeue"
          ELSE "failed_retryable"]
    /\ phase' = [phase EXCEPT ![w] = "failwrite"]
    /\ UNCHANGED <<row, job, renewer, renewIn, op, budget>>

\* apply_job_failure_policy, its read: the budget is compared here ...
ReadFailureBudget(w) ==
    /\ phase[w] = "failread"
    /\ verdict' = [verdict EXCEPT ![w] =
          IF @ = "terminal" THEN "failed_terminal"
          ELSE IF row[job[w]].attempts < MaxAttempts THEN "requeue"
          ELSE "failed_retryable"]
    /\ phase' = [phase EXCEPT ![w] = "failwrite"]
    /\ UNCHANGED <<row, job, renewer, renewIn, op, budget>>

\* The finally block: awaiting a renewer that died re-raises and ends the process.
LeaveJob(w) ==
    /\ phase' = [phase EXCEPT ![w] = IF renewer[w] = "dead" THEN "down" ELSE "recover"]
    /\ renewer' = [renewer EXCEPT ![w] = "off"]
    /\ renewIn' = [renewIn EXCEPT ![w] = 0]
    /\ UNCHANGED <<job, verdict, op, budget>>

FailedRow(r, v) ==
    IF v = "requeue"
    THEN [Released(r, "pending", "waiting_for_retry") EXCEPT !.next = Backoff]
    ELSE Released(r, "failed", v)

\* ... and used here, by an UPDATE that checks neither owner nor status.
WriteFailure(w) ==
    /\ phase[w] = "failwrite"
    /\ row' = [row EXCEPT ![job[w]] = FailedRow(@, verdict[w])]
    /\ LeaveJob(w)

\* complete_job: unconditional as well.
CompleteJob(w) ==
    /\ phase[w] = "done"
    /\ row' = [row EXCEPT ![job[w]] = Released(@, "completed", "completed")]
    /\ LeaveJob(w)

-----------------------------------------------------------------------------
(* _lease_renewer, and what can happen to it *)

\* Mutant: a renewal that does not check the owner.
RenewedRowUnowned(r, w) ==
    IF r.queue = "running" THEN [r EXCEPT !.lease = LeaseSeconds] ELSE r

\* renew_lease: only while the row is running and locked by this worker.
RenewedRow(r, w) ==
    IF r.lockedBy = w /\ r.queue = "running"
    THEN [r EXCEPT !.lease = LeaseSeconds] ELSE r

RenewLease(w) ==
    /\ renewer[w] = "on"
    /\ renewIn[w] = 0
    /\ row' = [row EXCEPT ![job[w]] = RenewedRow(@, w)]
    /\ renewIn' = [renewIn EXCEPT ![w] = RenewInterval]
    /\ UNCHANGED <<phase, job, verdict, renewer, op, budget>>

\* renew_lease raises: the task ends and nobody notices until the job is over.
RenewerDies(w) ==
    /\ renewer[w] = "on" /\ renewIn[w] = 0
    /\ budget.faults > 0
    /\ renewer' = [renewer EXCEPT ![w] = "dead"]
    /\ budget' = [budget EXCEPT !.faults = @ - 1]
    /\ UNCHANGED <<row, phase, job, verdict, renewIn, op>>

\* Blocking work in the pipeline keeps the event loop from the renewer task.
Stall(w) ==
    /\ renewer[w] = "on" /\ phase[w] = "run"
    /\ budget.faults > 0
    /\ renewer' = [renewer EXCEPT ![w] = "stalled"]
    /\ budget' = [budget EXCEPT !.faults = @ - 1]
    /\ UNCHANGED <<row, phase, job, verdict, renewIn, op>>

Resume(w) ==
    /\ renewer[w] = "stalled"
    /\ renewer' = [renewer EXCEPT ![w] = "on"]
    /\ UNCHANGED <<row, phase, job, verdict, renewIn, op, budget>>

-----------------------------------------------------------------------------
(* Processes and time *)

Crash(w) ==
    /\ phase[w] # "down"
    /\ budget.crashes > 0
    /\ phase' = [phase EXCEPT ![w] = "down"]
    /\ renewer' = [renewer EXCEPT ![w] = "off"]
    /\ renewIn' = [renewIn EXCEPT ![w] = 0]
    /\ budget' = [budget EXCEPT !.crashes = @ - 1]
    /\ UNCHANGED <<row, job, verdict, op>>

Restart(w) ==
    /\ phase[w] = "down"
    /\ phase' = [phase EXCEPT ![w] = "recover"]
    /\ UNCHANGED <<row, job, verdict, renewer, renewIn, op, budget>>

Less(n) == IF n > 0 THEN n - 1 ELSE 0

TickedRow(r) == [r EXCEPT !.lease = IF @ >= 0 THEN @ - 1 ELSE @, !.next = Less(@)]

\* One second.  A healthy renewer that is due runs before time goes on.
Tick ==
    /\ \A w \in Workers : renewer[w] = "on" => renewIn[w] > 0
    /\ \/ \E j \in Jobs : row[j].lease >= 0 \/ row[j].next > 0
       \/ \E w \in Workers : renewIn[w] > 0
    /\ row' = [j \in Jobs |-> TickedRow(row[j])]
    /\ renewIn' = [w \in Workers |-> Less(renewIn[w])]
    /\ UNCHANGED <<phase, job, verdict, renewer, op, budget>>

-----------------------------------------------------------------------------

Handlers ==
    \/ \E j \in Jobs : CreateJob(j) \/ PreviewJob(j)
    \/ \E o \in Operators :
          \/ \E kind \in OpKinds, j \in Jobs : BeginRequest(o, kind, j)
          \/ SubmitDraft(o) \/ CancelJob(o) \/ RetryJob(o)

WorkerStep(w) ==
    \/ RecoverLeases(w) \/ ClaimNothing(w)
    \/ \E j \in Jobs : ClaimJob(w, j)
    \/ WorkflowCompletes(w) \/ WorkflowReplays(w)
    \/ \E class \in {"retryable", "terminal"} : WorkflowRaises(w, class)
    \/ ReadFailureBudget(w) \/ WriteFailure(w) \/ CompleteJob(w)

Next ==
    \/ Handlers
    \/ \E w \in Workers :
          \/ WorkerStep(w) \/ PipelineStage(w)
          \/ RenewLease(w) \/ RenewerDies(w) \/ Stall(w) \/ Resume(w)
          \/ Crash(w) \/ Restart(w)
    \/ Tick

Spec == Init /\ [][Next]_vars

\* A process that is up takes its next step, the deployment restarts one that
\* is down, the workflow it awaits ends, and time passes.
Fairness ==
    /\ \A w \in Workers : WF_vars(WorkerStep(w)) /\ WF_vars(RenewLease(w))
                          /\ WF_vars(Resume(w)) /\ WF_vars(Restart(w))
    /\ WF_vars(Tick)

FairSpec == Spec /\ Fairness

-----------------------------------------------------------------------------
(* Properties *)

Locked(r) ==
    /\ r.queue = "running" <=> r.lockedBy # None
    /\ r.queue = "running" <=> r.lease # NoLease

\* The lock columns say one thing: a row is running exactly when it names an
\* owner and carries a lease, whichever UPDATE came last, so that recovery can
\* find every row a dead worker left behind.
LockConsistent == \A j \in Jobs : Locked(row[j])

\* A worker that is executing a job owns its row under an unexpired lease
\* (worker_loop runs complete_job and the failure policy without checking).
ExecutorHoldsLease ==
    \A w \in Workers : phase[w] \in Executing =>
        LET r == row[job[w]]
        IN  r.queue = "running" /\ r.lockedBy = w /\ r.lease >= 0

\* No job is executed by two workers at once.
OneExecutor ==
    \A v, w \in Workers, j \in Jobs : Executes(v, j) /\ Executes(w, j) => v = w

\* WORKER_MAX_ATTEMPTS bounds the claims of a row, one more round per UI retry.
ClaimBudget ==
    \A j \in Jobs : row[j].attempts <= MaxAttempts + (MaxOps - budget.ops)

\* A running row whose lease has not expired is released only by a worker
\* that executes it or by a UI request on it, never by another's recovery.
LiveLeaseRespected ==
    [][\A j \in Jobs :
          row[j].queue = "running" /\ row[j].lease >= 0 /\ row'[j].queue # "running"
          => \/ \E w \in Workers : Executes(w, j) /\ ~Executes(w, j)'
             \/ \E o \in Operators : op[o].job = j /\ op'[o] = Idle]_vars

\* A lease is prolonged only by a worker that executes the job and is named in
\* locked_by: a worker whose job was given to another cannot keep it alive.
OnlyOwnerRenews ==
    [][\A j \in Jobs :
          row[j].queue = "running" /\ row'[j].lease > row[j].lease
          => Executes(row[j].lockedBy, j) /\ renewIn[row[j].lockedBy] = 0]_vars

\* Every queued job is eventually settled, through crashes, stalled renewals
\* and UI requests: no row is left running for ever, or pending for ever.
EveryJobSettles ==
    \A j \in Jobs :
        row[j].queue = "pending" ~> row[j].queue \in {"completed", "failed"}

\* A row marked completed stays completed.
CompletedIsFinal ==
    [][\A j \in Jobs : row[j].queue = "completed" => row'[j].queue = "completed"]_vars

\* A cancelled job (failed with failed_terminal by the operator) goes back to the
\* queue only by the operator's retry.
CancelIsFinal ==
    [][\A j \in Jobs :
          row[j].queue = "failed" /\ row'[j].queue = "pending"
          => \E o \in Operators : op[o] = [kind |-> "retry", job |-> j] /\ op'[o] = Idle]_vars

\* A draft is not claimable: no worker executes a row before it is submitted.
DraftNotClaimed ==
    [][\A j \in Jobs : row[j].status = "draft" => row'[j].queue # "running"]_vars
=============================================================================
