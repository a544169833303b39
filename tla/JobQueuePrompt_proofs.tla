----------------------- MODULE JobQueuePrompt_proofs -----------------------
(***************************************************************************)
(* Exclusive execution under prompt renewals, and the refinement of        *)
(* JobLifecycle, for every instance that satisfies PromptAssumption.       *)
(***************************************************************************)
EXTENDS JobQueuePrompt, JobQueue_proofs

Inv == TypeOK /\ LockConsistent /\ PromptInv

\* An executing worker is the only executor of its job, whose row is running.
LEMMA HolderAlone ==
    ASSUME Inv, NEW w \in Workers, phase[w] \in Executing
    PROVE  /\ job[w] \in Jobs
           /\ row[job[w]].queue = "running"
           /\ \A v \in Workers \ {w} : phase[v] \in Executing => job[v] # job[w]
BY DEF Inv, TypeOK, PromptInv, ExecutorsHold, Held

\* The handlers touch rows that no worker executes, or only their status.
LEMMA HandlersPrompt == ASSUME Inv, Handlers PROVE PromptInv'
<1> USE DEF PromptInv, ExecutorsHold, IdleRenewersOff, FailedAgrees, RetriesOfFailed, Held
<1>1. ASSUME NEW j \in Jobs, CreateJob(j) \/ PreviewJob(j) PROVE PromptInv'
  <2>1. row[j].queue = "absent"
    BY <1>1 DEF CreateJob, PreviewJob, NextToCreate
  <2>2. \A k \in Jobs : k # j => row'[k] = row[k]
    BY <1>1 DEF CreateJob, PreviewJob, Inv, TypeOK
  <2>3. row'[j].status \notin FailedStatus
    <3>1. row[j] \in Row
      BY DEF Inv, TypeOK
    <3>2. /\ QueuedRow(row[j], "created").status = "created"
          /\ QueuedRow(row[j], "draft").status = "draft"
      BY <3>1 DEF QueuedRow, Row
    <3>3. row'[j] \in {QueuedRow(row[j], "created"), QueuedRow(row[j], "draft")}
      BY <1>1 DEF CreateJob, PreviewJob, Inv, TypeOK
    <3> QED
      BY <3>2, <3>3 DEF FailedStatus
  <2>4. UNCHANGED <<workerVars, op>>
    BY <1>1 DEF CreateJob, PreviewJob
  <2>5. \A o \in Operators : op[o].kind = "retry" => op[o].job \in Jobs
    BY DEF Inv, TypeOK, Request, Idle
  <2> QED
    BY <2>1, <2>2, <2>3, <2>4, <2>5, HolderAlone DEF Inv, workerVars
<1>2. ASSUME NEW o \in Operators, NEW kind \in OpKinds, NEW j \in Jobs,
             BeginRequest(o, kind, j)
      PROVE  PromptInv'
  <2>1. kind = "retry" => row[j].queue = "failed"
    BY <1>2 DEF BeginRequest, Accepts, Inv
  <2> QED
    BY <1>2, <2>1 DEF BeginRequest, workerVars, Inv, TypeOK
<1>3. ASSUME NEW o \in Operators, SubmitDraft(o) PROVE PromptInv'
  <2> DEFINE i == op[o].job
  <2>1. i \in Jobs
    BY <1>3 DEF SubmitDraft, EndRequest, Inv, TypeOK, Request, Idle
  <2>2. \A k \in Jobs : k # i => row'[k] = row[k]
    BY <1>3, <2>1 DEF SubmitDraft, EndRequest, Inv, TypeOK
  <2>3. row[i] \in Row /\ row'[i] = [row[i] EXCEPT !.status = "pending"]
    BY <1>3, <2>1 DEF SubmitDraft, EndRequest, SubmittedRow, WithStatus, Inv, TypeOK
  <2>4. /\ row'[i].status = "pending"
        /\ row'[i].queue = row[i].queue /\ row'[i].lockedBy = row[i].lockedBy
        /\ row'[i].lease = row[i].lease /\ row'[i].attempts = row[i].attempts
    BY <2>3 DEF Row
  <2>5. op' = [op EXCEPT ![o] = Idle] /\ UNCHANGED workerVars
    BY <1>3 DEF SubmitDraft, EndRequest
  <2>6. ExecutorsHold' /\ IdleRenewersOff'
    BY <2>2, <2>4, <2>5, HolderAlone DEF workerVars, Inv
  <2>7. FailedAgrees'
    BY <2>2, <2>4 DEF Inv, FailedStatus
  <2>8. RetriesOfFailed'
    BY <2>5, PromptAssumption DEF Inv, TypeOK, Idle
  <2> QED
    BY <2>6, <2>7, <2>8
<1>4. ASSUME NEW o \in Operators, RetryJob(o) PROVE PromptInv'
  <2> DEFINE i == op[o].job
  <2>1. i \in Jobs /\ row[i].queue = "failed"
    BY <1>4 DEF RetryJob, EndRequest, Inv, TypeOK, Request, Idle
  <2>2. row'[i] = RetriedRow(row[i]) /\ \A k \in Jobs : k # i => row'[k] = row[k]
    BY <1>4, <2>1 DEF RetryJob, EndRequest, Inv, TypeOK
  <2>3. row'[i].status \notin FailedStatus
    BY <2>1, <2>2 DEF RetriedRow, Released, Inv, TypeOK, Row, FailedStatus
  <2>4. op' = [op EXCEPT ![o] = Idle] /\ UNCHANGED workerVars
    BY <1>4 DEF RetryJob, EndRequest
  <2>5. ExecutorsHold' /\ IdleRenewersOff'
    BY <2>1, <2>2, <2>4, HolderAlone DEF workerVars, Inv
  <2>6. FailedAgrees'
    BY <2>2, <2>3 DEF Inv
  <2>7. RetriesOfFailed'
    BY <2>4, PromptAssumption DEF Inv, TypeOK, Idle
  <2> QED
    BY <2>5, <2>6, <2>7
<1>5. \A o \in Operators : ~CancelJob(o)
  BY PromptAssumption DEF Inv, TypeOK, Request, Idle, CancelJob, EndRequest
<1> QED
  BY <1>1, <1>2, <1>3, <1>4, <1>5 DEF Handlers

\* A worker that claims becomes the holder; the other holders keep their rows.
LEMMA ClaimPrompt ==
    ASSUME Inv, NEW w \in Workers, NEW j \in Jobs, ClaimJob(w, j)
    PROVE  PromptInv'
<1> USE DEF PromptInv, ExecutorsHold, IdleRenewersOff, FailedAgrees, RetriesOfFailed, Held
<1>1. row[j] \in Row /\ row[j].queue = "pending"
  BY DEF ClaimJob, Claimable, Inv, TypeOK
<1>2. \A k \in Jobs : k # j => row'[k] = row[k]
  BY DEF ClaimJob, Inv, TypeOK
<1>3. row'[j] = ClaimedRow(row[j], w)
  BY DEF ClaimJob, Inv, TypeOK
<1>4. /\ row'[j].queue = "running" /\ row'[j].status = "running"
      /\ row'[j].lockedBy = w /\ row'[j].lease = LeaseSeconds
  BY <1>1, <1>3 DEF ClaimedRow, Row
<1>5. Held(w)'
  BY <1>4, PromptAssumption DEF ClaimJob, Inv, TypeOK
<1>6. \A v \in Workers \ {w} : phase[v] \in Executing => Held(v)'
  BY <1>1, <1>2, HolderAlone DEF ClaimJob, Inv, TypeOK
<1>7. ExecutorsHold'
  BY <1>5, <1>6 DEF ClaimJob, Inv, TypeOK
<1>8. IdleRenewersOff'
  BY DEF ClaimJob, Inv, TypeOK, Executing
<1>9. FailedAgrees'
  BY <1>2, <1>4 DEF Inv, FailedStatus
<1>10. RetriesOfFailed'
  BY <1>1, <1>2 DEF ClaimJob, Inv, TypeOK, Request, Idle
<1> QED
  BY <1>7, <1>8, <1>9, <1>10

\* Recovery changes no row that an executor holds.
LEMMA RecoverPrompt ==
    ASSUME Inv, NEW w \in Workers, RecoverLeases(w)
    PROVE  PromptInv'
<1> USE DEF PromptInv, ExecutorsHold, IdleRenewersOff, FailedAgrees, RetriesOfFailed, Held
<1>1. \A j \in Jobs : row'[j] = RecoveredRow(row[j])
  BY DEF RecoverLeases
<1>2. \A v \in Workers : phase[v] \in Executing => row[job[v]].lease # Expired
  BY RenewIntervalNat DEF Inv, TypeOK, Expired, Row
<1>3. \A v \in Workers : phase[v] \in Executing => row'[job[v]] = row[job[v]]
  BY <1>1, <1>2 DEF RecoveredRow, Inv, TypeOK
<1>4. ExecutorsHold' /\ IdleRenewersOff'
  <2>1. /\ UNCHANGED <<job, verdict, renewer, renewIn>>
        /\ phase[w] \notin Executing /\ phase'[w] \notin Executing
        /\ \A v \in Workers \ {w} : phase'[v] = phase[v]
    BY DEF RecoverLeases, Inv, TypeOK, Executing
  <2>2. \A v \in Workers : phase'[v] \in Executing => Held(v)'
    BY <1>3, <2>1 DEF Inv
  <2> QED
    BY <2>1, <2>2 DEF Inv
<1>5. ASSUME NEW j \in Jobs, row'[j].status \in FailedStatus PROVE row'[j].queue = "failed"
  <2>1. row[j] \in Row
    BY DEF Inv, TypeOK
  <2>2. Released(row[j], "pending", "waiting_for_retry").status = "waiting_for_retry"
    BY <2>1 DEF Released, Row
  <2>3. Released(row[j], "failed", "failed_retryable").queue = "failed"
    BY <2>1 DEF Released, Row
  <2> QED
    BY <1>1, <1>5, <2>2, <2>3 DEF RecoveredRow, Inv, FailedStatus
<1>6. RetriesOfFailed'
  BY <1>1 DEF RecoverLeases, RecoveredRow, Inv, TypeOK, Request, Idle
<1> QED
  BY <1>4, <1>5, <1>6

\* The pipeline's writes change only the status of a running row.
LEMMA StatusPrompt ==
    ASSUME Inv, NEW w \in Workers, PipelineStage(w) \/ WorkflowCompletes(w)
    PROVE  PromptInv'
<1> USE DEF PromptInv, ExecutorsHold, IdleRenewersOff, FailedAgrees, RetriesOfFailed, Held
<1> DEFINE i == job[w]
<1>1. phase[w] = "run" /\ i \in Jobs
  BY DEF PipelineStage, WorkflowCompletes, Inv, TypeOK, Executing
<1>2. \A k \in Jobs : k # i => row'[k] = row[k]
  BY <1>1 DEF PipelineStage, WorkflowCompletes, Inv, TypeOK
<1>3. row[i] \in Row
  BY <1>1 DEF Inv, TypeOK
<1>4. row'[i] \in {WithStatus(row[i], "running"), WithStatus(row[i], "completed")}
  BY <1>1 DEF PipelineStage, WorkflowCompletes, Inv, TypeOK
<1>5. /\ row'[i].status \in {"running", "completed"}
      /\ row'[i].queue = row[i].queue /\ row'[i].lockedBy = row[i].lockedBy
      /\ row'[i].lease = row[i].lease /\ row'[i].attempts = row[i].attempts
  BY <1>3, <1>4 DEF WithStatus, Row
<1>6. /\ UNCHANGED <<job, verdict, renewer, renewIn, op>>
      /\ phase'[w] \in {"run", "done"} /\ \A v \in Workers \ {w} : phase'[v] = phase[v]
  BY <1>1 DEF PipelineStage, WorkflowCompletes, workerVars, Inv, TypeOK
<1>7. ExecutorsHold' /\ IdleRenewersOff'
  <2>1. phase[w] \in Executing /\ phase'[w] \in Executing /\ phase'[w] # "failwrite"
    BY <1>1, <1>6 DEF Executing
  <2>2. Held(w)'
    BY <1>5, <1>6, <2>1 DEF Inv
  <2>3. \A v \in Workers \ {w} : phase[v] \in Executing => Held(v)'
    BY <1>2, <1>6, <2>1, HolderAlone DEF Inv
  <2> QED
    BY <1>6, <2>1, <2>2, <2>3 DEF Inv
<1>8. FailedAgrees'
  BY <1>2, <1>5 DEF Inv, FailedStatus
<1>9. RetriesOfFailed'
  BY <1>2, <1>5, <1>6 DEF Inv, TypeOK, Request, Idle
<1> QED
  BY <1>7, <1>8, <1>9

\* A worker that settles its row held it, and was its only executor.
LEMMA SettlePrompt ==
    ASSUME Inv, NEW w \in Workers, WriteFailure(w) \/ CompleteJob(w)
    PROVE  PromptInv'
<1> USE DEF PromptInv, ExecutorsHold, IdleRenewersOff, FailedAgrees, RetriesOfFailed, Held
<1> DEFINE i == job[w]
<1>1. phase[w] \in {"done", "failwrite"} /\ phase[w] \in Executing
  BY DEF WriteFailure, CompleteJob, Executing
<1>2. i \in Jobs /\ row[i].queue = "running"
  BY <1>1, HolderAlone
<1>3. \A k \in Jobs : k # i => row'[k] = row[k]
  BY <1>2 DEF WriteFailure, CompleteJob, Inv, TypeOK
<1>4. /\ UNCHANGED <<job, verdict, op>>
      /\ phase'[w] \notin Executing /\ renewer'[w] = "off"
      /\ \A v \in Workers \ {w} : /\ phase'[v] = phase[v] /\ renewer'[v] = renewer[v]
                                  /\ renewIn'[v] = renewIn[v]
  BY DEF WriteFailure, CompleteJob, LeaveJob, Inv, TypeOK, Executing
<1>5. ExecutorsHold' /\ IdleRenewersOff'
  BY <1>1, <1>3, <1>4, HolderAlone DEF Inv
<1>6. row'[i].status \in FailedStatus => row'[i].queue = "failed"
  <2>1. row[i] \in Row
    BY <1>2 DEF Inv, TypeOK
  <2>2. CASE CompleteJob(w)
    <3>1. row'[i] = Released(row[i], "completed", "completed")
      BY <1>2, <2>2 DEF CompleteJob, Inv, TypeOK
    <3>2. row'[i].status = "completed"
      BY <2>1, <3>1 DEF Released, Row
    <3> QED
      BY <3>2 DEF FailedStatus
  <2>3. CASE WriteFailure(w)
    <3>1. row'[i] = FailedRow(row[i], verdict[w])
      BY <1>2, <2>3 DEF WriteFailure, Inv, TypeOK
    <3>2. Released(row[i], "pending", "waiting_for_retry") \in Row
      BY <2>1, ReleasedRow DEF Sound, QueueStatus, Status
    <3>3. [Released(row[i], "pending", "waiting_for_retry") EXCEPT !.next = Backoff].status
             = "waiting_for_retry"
      BY <2>1, <3>2 DEF Released, Row
    <3>4. Released(row[i], "failed", verdict[w]).queue = "failed"
      BY <2>1 DEF Released, Row
    <3> QED
      BY <3>1, <3>3, <3>4 DEF FailedRow, FailedStatus
  <2> QED
    BY <2>2, <2>3
<1>7. FailedAgrees'
  BY <1>3, <1>6 DEF Inv
<1>8. RetriesOfFailed'
  BY <1>2, <1>3, <1>4 DEF Inv, TypeOK, Request, Idle
<1> QED
  BY <1>5, <1>7, <1>8

\* A renewal gives the holder a full lease again.
LEMMA RenewPrompt ==
    ASSUME Inv, NEW w \in Workers, RenewLease(w)
    PROVE  PromptInv'
<1> USE DEF PromptInv, ExecutorsHold, IdleRenewersOff, FailedAgrees, RetriesOfFailed, Held
<1> DEFINE i == job[w]
<1>1. phase[w] \in Executing
  BY DEF RenewLease, Inv
<1>2. i \in Jobs /\ row[i] \in Row /\ row[i].queue = "running" /\ row[i].lockedBy = w
  BY <1>1 DEF Inv, TypeOK
<1>3. \A k \in Jobs : k # i => row'[k] = row[k]
  BY <1>2 DEF RenewLease, Inv, TypeOK
<1>4. row'[i] = [row[i] EXCEPT !.lease = LeaseSeconds]
  BY <1>2 DEF RenewLease, RenewedRow, Inv, TypeOK
<1>5. /\ row'[i].queue = "running" /\ row'[i].lockedBy = w /\ row'[i].lease = LeaseSeconds
      /\ row'[i].attempts = row[i].attempts /\ row'[i].status = row[i].status
  BY <1>2, <1>4 DEF Row
<1>6. /\ UNCHANGED <<phase, job, verdict, renewer, op>>
      /\ renewIn'[w] = RenewInterval
      /\ \A v \in Workers \ {w} : renewIn'[v] = renewIn[v]
  BY DEF RenewLease, Inv, TypeOK
<1>7. ExecutorsHold'
  <2>1. phase[w] = "failwrite" /\ verdict[w] = "requeue" => row[i].attempts < MaxAttempts
    BY <1>1 DEF Inv
  <2>2. Held(w)'
    BY <1>1, <1>5, <1>6, <2>1, PromptAssumption DEF Inv
  <2>3. \A v \in Workers \ {w} : phase[v] \in Executing => Held(v)'
    BY <1>1, <1>3, <1>6, HolderAlone DEF Inv
  <2> QED
    BY <1>6, <2>2, <2>3
<1>8. IdleRenewersOff'
  BY <1>6 DEF Inv
<1>9. FailedAgrees'
  BY <1>2, <1>3, <1>5 DEF Inv
<1>10. RetriesOfFailed'
  BY <1>2, <1>3, <1>6 DEF Inv, TypeOK, Request, Idle
<1> QED
  BY <1>7, <1>8, <1>9, <1>10

\* Time passes only while every renewal is early enough.
LEMMA TickPrompt == ASSUME Inv, Tick PROVE PromptInv'
<1> USE DEF PromptInv, ExecutorsHold, IdleRenewersOff, FailedAgrees, RetriesOfFailed, Held
<1>1. \A j \in Jobs : row'[j] = TickedRow(row[j]) /\ row[j] \in Row
  BY DEF Tick, Inv, TypeOK
<1>2. \A j \in Jobs : /\ row'[j].queue = row[j].queue /\ row'[j].lockedBy = row[j].lockedBy
                      /\ row'[j].attempts = row[j].attempts /\ row'[j].status = row[j].status
                      /\ row'[j].lease = IF row[j].lease >= 0 THEN row[j].lease - 1
                                         ELSE row[j].lease
  BY <1>1 DEF TickedRow, Row
<1>3. /\ UNCHANGED <<phase, job, verdict, renewer, op>>
      /\ \A w \in Workers : /\ renewer[w] = "on" => renewIn[w] > 0
                            /\ renewIn'[w] = Less(renewIn[w])
  BY DEF Tick
<1>4. ASSUME NEW w \in Workers, phase[w] \in Executing PROVE Held(w)'
  <2>1. job[w] \in Jobs /\ renewIn[w] \in Int /\ row[job[w]].lease \in Int
    BY <1>1, <1>4, RenewIntervalNat DEF Inv, TypeOK, Row, NoLease
  <2>2. renewIn[w] > 0 /\ row[job[w]].lease >= renewIn[w]
    BY <1>3, <1>4 DEF Inv
  <2>3. row'[job[w]].lease >= renewIn'[w]
    BY <1>2, <1>3, <2>1, <2>2 DEF Less
  <2> QED
    BY <1>2, <1>3, <1>4, <2>1, <2>3 DEF Inv
<1>5. ExecutorsHold' /\ IdleRenewersOff'
  BY <1>3, <1>4 DEF Inv
<1>6. FailedAgrees'
  BY <1>2 DEF Inv
<1>7. RetriesOfFailed'
  BY <1>2, <1>3 DEF Inv, TypeOK, Request, Idle
<1> QED
  BY <1>5, <1>6, <1>7

\* Steps of a worker that change no row.
LEMMA QuietPrompt ==
    ASSUME Inv, NEW w \in Workers,
           \/ ClaimNothing(w) \/ WorkflowReplays(w) \/ ReadFailureBudget(w)
           \/ \E class \in {"retryable", "terminal"} : WorkflowRaises(w, class)
           \/ Crash(w) \/ Restart(w)
    PROVE  PromptInv'
<1> USE DEF PromptInv, ExecutorsHold, IdleRenewersOff, FailedAgrees, RetriesOfFailed, Held
<1>1. FailedAgrees' /\ RetriesOfFailed'
  BY DEF ClaimNothing, WorkflowReplays, ReadFailureBudget, WorkflowRaises, Crash, Restart, Inv
<1>2. CASE ClaimNothing(w) \/ Restart(w)
  BY <1>1, <1>2 DEF ClaimNothing, Restart, Inv, TypeOK, Executing
<1>3. CASE Crash(w)
  BY <1>1, <1>3 DEF Crash, Inv, TypeOK, Executing
<1>4. CASE WorkflowReplays(w) \/ \E class \in {"retryable", "terminal"} : WorkflowRaises(w, class)
  BY <1>1, <1>4 DEF WorkflowReplays, WorkflowRaises, Inv, TypeOK, Executing
<1>5. CASE ReadFailureBudget(w)
  <2>1. phase[w] = "failread" /\ phase[w] \in Executing
    BY <1>5 DEF ReadFailureBudget, Executing
  <2>2. /\ UNCHANGED <<row, job, renewer, renewIn>>
        /\ phase'[w] = "failwrite"
        /\ \A v \in Workers \ {w} : phase'[v] = phase[v] /\ verdict'[v] = verdict[v]
    BY <1>5 DEF ReadFailureBudget, Inv, TypeOK
  <2>3. verdict'[w] = "requeue" => row[job[w]].attempts < MaxAttempts
    <3>1. verdict[w] \in Verdict /\ verdict'[w] =
            IF verdict[w] = "terminal" THEN "failed_terminal"
            ELSE IF row[job[w]].attempts < MaxAttempts THEN "requeue" ELSE "failed_retryable"
      BY <1>5 DEF ReadFailureBudget, Inv, TypeOK
    <3> QED
      BY <3>1
  <2> QED
    BY <1>1, <2>1, <2>2, <2>3 DEF Inv, Executing
<1> QED
  BY <1>2, <1>3, <1>4, <1>5

\* PromptInv is inductive, relative to the general invariants.
LEMMA PromptStep == ASSUME Inv, [Next]_vars PROVE PromptInv'
<1>1. CASE UNCHANGED vars
  BY <1>1 DEF vars, Inv, PromptInv, ExecutorsHold, IdleRenewersOff, FailedAgrees,
              RetriesOfFailed, Held
<1>2. ASSUME NEW w \in Workers PROVE ~RenewerDies(w) /\ ~Stall(w) /\ ~Resume(w)
  <2>1. ~RenewerDies(w) /\ ~Stall(w)
    BY PromptAssumption, JobQueueAssumption DEF Inv, TypeOK, RenewerDies, Stall
  <2>2. ~Resume(w)
    BY DEF Inv, PromptInv, ExecutorsHold, IdleRenewersOff, Held, Resume
  <2> QED
    BY <2>1, <2>2
<1> QED
  BY <1>1, <1>2, HandlersPrompt, ClaimPrompt, RecoverPrompt, StatusPrompt, SettlePrompt,
     RenewPrompt, TickPrompt, QuietPrompt
     DEF Next, WorkerStep

\* No worker executes, and no request is under way, initially.
LEMMA PromptInit == Init => Inv
BY InitSound DEF Init, Inv, PromptInv, ExecutorsHold, IdleRenewersOff, FailedAgrees,
                 RetriesOfFailed, Executing, AbsentRow, FailedStatus, Idle

\* The invariant of the prompt queue.
THEOREM PromptInvariant == Spec => []Inv
<1>1. Inv /\ [Next]_vars => Inv'
  BY PromptStep, RowStep, ControlStep DEF Inv
<1> QED
  BY PromptInit, <1>1, PTL DEF Spec

\* Executors hold their rows, a failed status is the queue's own, and a retry in flight
\* is of a failed row, whatever the UI and the crashes do in between.
THEOREM PromptQueueSound == Spec => []PromptInv
<1>1. Inv => PromptInv
  BY DEF Inv
<1> QED
  BY <1>1, PromptInvariant, PTL

\* A worker that executes a job owns its row under an unexpired lease, at every
\* moment between the claim and complete_job or the failure policy.
THEOREM ExecutorsHoldLeases == Spec => []ExecutorHoldsLease
<1>1. Inv => ExecutorHoldsLease
  <2> SUFFICES ASSUME Inv, NEW w \in Workers, phase[w] \in Executing
               PROVE  row[job[w]].queue = "running" /\ row[job[w]].lockedBy = w
                      /\ row[job[w]].lease >= 0
    BY DEF ExecutorHoldsLease
  <2>1. Held(w) /\ renewIn[w] \in 0..RenewInterval /\ row[job[w]] \in Row
    BY DEF Inv, TypeOK, PromptInv, ExecutorsHold
  <2>2. row[job[w]].lease \in Int
    BY <2>1, JobQueueAssumption DEF Row, NoLease
  <2> QED
    BY <2>1, <2>2, RenewIntervalNat DEF Held
<1> QED
  BY <1>1, PromptInvariant, PTL

\* Two workers never execute the same job: the row names one owner.
THEOREM ExclusiveExecution == Spec => []OneExecutor
<1>1. Inv => OneExecutor
  BY DEF Inv, PromptInv, ExecutorsHold, Held, OneExecutor, Executes
<1> QED
  BY <1>1, PromptInvariant, PTL

-----------------------------------------------------------------------------
(* The refinement of JobLifecycle *)

\* The lifecycle's transitions, read on two values of one row.
Moves(r, s) ==
    \/ s.queue = r.queue /\ s.attempts = r.attempts
    \/ r.queue = "pending" /\ s.queue = "running" /\ s.attempts = r.attempts + 1
    \/ /\ s.attempts = r.attempts
       /\ \/ r.queue = "absent" /\ s.queue = "pending"
          \/ r.queue = "running" /\ s.queue \in {"completed", "failed"}
          \/ r.queue = "running" /\ s.queue = "pending" /\ r.attempts < MaxAttempts
          \/ r.queue = "failed" /\ s.queue = "pending"

\* What each statement of the code does to queue_status and attempt_count.
LEMMA RowMoves ==
    ASSUME NEW r \in Row
    PROVE  /\ Moves(r, r)
           /\ \A s \in {"created", "draft"} : r.queue = "absent" => Moves(r, QueuedRow(r, s))
           /\ Moves(r, SubmittedRow(r))
           /\ r.queue = "failed" => Moves(r, RetriedRow(r))
           /\ Moves(r, RecoveredRow(r))
           /\ \A w \in Workers : r.queue = "pending" => Moves(r, ClaimedRow(r, w))
           /\ \A s \in Status : Moves(r, WithStatus(r, s))
           /\ \A v \in FailedStatus \cup {"requeue"} :
                 r.queue = "running" /\ (v = "requeue" => r.attempts < MaxAttempts)
                 => Moves(r, FailedRow(r, v))
           /\ r.queue = "running" => Moves(r, Released(r, "completed", "completed"))
           /\ \A w \in Workers : Moves(r, RenewedRow(r, w))
           /\ Moves(r, TickedRow(r))
<1> USE DEF Moves, Row
<1>1. \A q \in QueueStatus, s \in Status :
         Released(r, q, s).queue = q /\ Released(r, q, s).attempts = r.attempts
  BY DEF Released
<1>2. Moves(r, r)
  OBVIOUS
<1>3. \A s \in {"created", "draft"} : r.queue = "absent" => Moves(r, QueuedRow(r, s))
  BY DEF QueuedRow
<1>4. Moves(r, SubmittedRow(r)) /\ \A s \in Status : Moves(r, WithStatus(r, s))
  BY DEF SubmittedRow, WithStatus
<1>5. r.queue = "failed" => Moves(r, RetriedRow(r))
  BY DEF RetriedRow, Released
<1>6. Moves(r, RecoveredRow(r))
  BY DEF RecoveredRow, Released
<1>7. \A w \in Workers : r.queue = "pending" => Moves(r, ClaimedRow(r, w))
  BY DEF ClaimedRow
<1>8. \A v \in FailedStatus \cup {"requeue"} :
         r.queue = "running" /\ (v = "requeue" => r.attempts < MaxAttempts)
         => Moves(r, FailedRow(r, v))
  BY DEF FailedRow, Released
<1>9. r.queue = "running" => Moves(r, Released(r, "completed", "completed"))
  BY DEF Released
<1>10. (\A w \in Workers : Moves(r, RenewedRow(r, w))) /\ Moves(r, TickedRow(r))
  BY DEF RenewedRow, TickedRow
<1> QED
  BY <1>2, <1>3, <1>4, <1>5, <1>6, <1>7, <1>8, <1>9, <1>10

\* Every step of the queue moves every row along the lifecycle.
LEMMA StepMoves ==
    ASSUME Inv, Next, NEW j \in Jobs
    PROVE  Moves(row[j], row'[j])
<1>1. row[j] \in Row /\ row \in [Jobs -> Row]
  BY DEF Inv, TypeOK
<1>2. CASE row' = row
  BY <1>1, <1>2, RowMoves
<1>3. CASE Handlers
  <2>1. CASE \E k \in Jobs : CreateJob(k) \/ PreviewJob(k)
    BY <1>1, <2>1, RowMoves DEF CreateJob, PreviewJob, NextToCreate
  <2>2. CASE \E o \in Operators, kind \in OpKinds, k \in Jobs : BeginRequest(o, kind, k)
    BY <1>2, <2>2 DEF BeginRequest
  <2>3. CASE \E o \in Operators : SubmitDraft(o)
    BY <1>1, <2>3, RowMoves DEF SubmitDraft, EndRequest
  <2>4. CASE \E o \in Operators : RetryJob(o)
    BY <1>1, <2>4, RowMoves
       DEF RetryJob, EndRequest, Inv, PromptInv, RetriesOfFailed
  <2>5. \A o \in Operators : ~CancelJob(o)
    BY PromptAssumption DEF Inv, TypeOK, Request, Idle, CancelJob, EndRequest
  <2> QED
    BY <1>3, <2>1, <2>2, <2>3, <2>4, <2>5 DEF Handlers
<1>4. ASSUME NEW w \in Workers,
             \/ RecoverLeases(w) \/ RenewLease(w) \/ PipelineStage(w) \/ WorkflowCompletes(w)
             \/ \E k \in Jobs : ClaimJob(w, k)
      PROVE  Moves(row[j], row'[j])
  <2>1. CASE RecoverLeases(w)
    BY <1>1, <2>1, RowMoves DEF RecoverLeases
  <2>2. CASE RenewLease(w)
    BY <1>1, <2>2, RowMoves DEF RenewLease
  <2>3. CASE PipelineStage(w) \/ WorkflowCompletes(w)
    BY <1>1, <2>3, RowMoves DEF PipelineStage, WorkflowCompletes, Status
  <2>4. CASE \E k \in Jobs : ClaimJob(w, k)
    BY <1>1, <2>4, RowMoves DEF ClaimJob, Claimable
  <2> QED
    BY <1>4, <2>1, <2>2, <2>3, <2>4
<1>5. ASSUME NEW w \in Workers, WriteFailure(w) \/ CompleteJob(w)
      PROVE  Moves(row[j], row'[j])
  <2>1. phase[w] \in Executing /\ (WriteFailure(w) => phase[w] = "failwrite")
    BY <1>5 DEF WriteFailure, CompleteJob, Executing
  <2>2. /\ row[job[w]].queue = "running"
        /\ WriteFailure(w) => /\ verdict[w] \in FailedStatus \cup {"requeue"}
                              /\ verdict[w] = "requeue" => row[job[w]].attempts < MaxAttempts
    BY <2>1 DEF Inv, TypeOK, PromptInv, ExecutorsHold, Held
  <2> QED
    BY <1>1, <1>5, <2>2, RowMoves DEF WriteFailure, CompleteJob
<1>6. CASE Tick
  BY <1>1, <1>6, RowMoves DEF Tick
<1>7. ASSUME NEW w \in Workers,
             \/ ClaimNothing(w) \/ WorkflowReplays(w) \/ ReadFailureBudget(w)
             \/ \E class \in {"retryable", "terminal"} : WorkflowRaises(w, class)
             \/ RenewerDies(w) \/ Stall(w) \/ Resume(w) \/ Crash(w) \/ Restart(w)
      PROVE  row' = row
  BY <1>7 DEF ClaimNothing, WorkflowReplays, ReadFailureBudget, WorkflowRaises,
              RenewerDies, Stall, Resume, Crash, Restart
<1> QED
  BY <1>2, <1>3, <1>4, <1>5, <1>6, <1>7 DEF Next, WorkerStep

\* The queue implements the lifecycle: under prompt renewals no race of the workers'
\* and the handlers' unguarded UPDATEs makes a row move any other way.
THEOREM QueueImplementsLifecycle == Spec => ImplementsLifecycle
<1> USE DEF ImplementsLifecycle
<1>1. Init => Lifecycle!Init
  BY DEF Init, AbsentRow, Lifecycle!Init
<1>2. ASSUME Inv, Next PROVE Lifecycle!Next
  <2> SUFFICES ASSUME NEW j \in Jobs
               PROVE  \/ Lifecycle!Stays(j) \/ Lifecycle!Enqueue(j) \/ Lifecycle!Start(j)
                      \/ Lifecycle!Finish(j) \/ Lifecycle!Fail(j)
                      \/ Lifecycle!Requeue(j) \/ Lifecycle!Retry(j)
    BY DEF Lifecycle!Next
  <2>1. Moves(row[j], row'[j])
    BY <1>2, StepMoves
  <2> QED
    BY <2>1 DEF Moves, Lifecycle!Moves, Lifecycle!Stays, Lifecycle!Enqueue, Lifecycle!Start,
                Lifecycle!Finish, Lifecycle!Fail, Lifecycle!Requeue, Lifecycle!Retry
<1>3. Inv /\ [Next]_vars
      => [Lifecycle!Next]_<<[j \in Jobs |-> row[j].queue], [j \in Jobs |-> row[j].attempts]>>
  <2>1. UNCHANGED vars
        => UNCHANGED <<[j \in Jobs |-> row[j].queue], [j \in Jobs |-> row[j].attempts]>>
    BY DEF vars
  <2> QED
    BY <1>2, <2>1
<1> QED
  BY <1>1, <1>3, PromptInvariant, PTL DEF Spec, Lifecycle!Spec
=============================================================================
