--------------------------- MODULE JobQueue_proofs ---------------------------
(***************************************************************************)
(* Type correctness and the consistency of the lock columns, for every     *)
(* number of jobs, workers and UI requests, and every setting.  Each       *)
(* UPDATE of the repository is a function on rows: the lemmas of the first *)
(* part say what it preserves, the second part lifts them to Next.  The    *)
(* third part bounds the claims of a row.                                  *)
(***************************************************************************)
EXTENDS JobQueue, TLAPS

\* A row as the UPDATEs keep it: well typed, with its lock columns in agreement.
Sound(r) == r \in Row /\ Locked(r)

\* The renewal interval is a positive number of seconds.
LEMMA RenewIntervalNat == RenewInterval \in Nat \ {0}
BY JobQueueAssumption DEF RenewInterval

\* An UPDATE that drops the lock yields a sound row, unless it says "running".
LEMMA ReleasedRow ==
    ASSUME NEW r \in Row, NEW q \in QueueStatus \ {"running"}, NEW s \in Status
    PROVE  /\ Sound(Released(r, q, s))
           /\ Released(r, q, s).queue = q
           /\ Released(r, q, s).attempts = r.attempts
<1> DEFINE x == Released(r, q, s)
<1>1. x = [r EXCEPT !.queue = q, !.status = s, !.lockedBy = None, !.lease = NoLease]
  BY DEF Released
<1>2. NoLease \in NoLease..LeaseSeconds
  BY JobQueueAssumption DEF NoLease
<1>3. r \in [queue: QueueStatus, status: Status, lockedBy: Workers \cup {None},
             lease: NoLease..LeaseSeconds, attempts: Nat, next: 0..Backoff]
  BY DEF Row
<1>4. x \in Row
  BY <1>1, <1>2, <1>3 DEF Row
<1>5. x.queue = q /\ x.lockedBy = None /\ x.lease = NoLease /\ x.attempts = r.attempts
  BY <1>1, <1>3
<1> QED
  BY <1>4, <1>5 DEF Sound, Locked

\* An update_job_status keeps the row sound.
LEMMA StatusRow ==
    ASSUME NEW r, Sound(r), NEW s \in Status
    PROVE  Sound(WithStatus(r, s))
BY DEF WithStatus, Row, Sound, Locked

\* The insertion of a queued row yields a sound row.
LEMMA InsertedRow ==
    ASSUME NEW r, Sound(r), r.queue = "absent", NEW s \in Status
    PROVE  Sound(QueuedRow(r, s))
BY DEF QueuedRow, Row, QueueStatus, Sound, Locked

\* The backoff column can be set to any value of its range.
LEMMA DelayedRow ==
    ASSUME NEW r, Sound(r), NEW n \in 0..Backoff
    PROVE  Sound([r EXCEPT !.next = n])
BY DEF Row, Sound, Locked

\* A UI cancel or retry leaves a sound row.
LEMMA RequestedRow ==
    ASSUME NEW r, Sound(r)
    PROVE  Sound(CancelledRow(r)) /\ Sound(RetriedRow(r)) /\ Sound(SubmittedRow(r))
<1>1. Sound(CancelledRow(r))
  BY ReleasedRow DEF CancelledRow, Sound, QueueStatus, Status, FailedStatus
<1>2. Sound(Released(r, "pending", "waiting_for_retry"))
  BY ReleasedRow DEF Sound, QueueStatus, Status
<1>3. Sound(RetriedRow(r))
  BY <1>2, DelayedRow, JobQueueAssumption DEF RetriedRow
<1>4. Sound(SubmittedRow(r))
  BY StatusRow DEF SubmittedRow, Status
<1> QED
  BY <1>1, <1>3, <1>4

\* A claim yields a sound row, owned by the claiming worker under a full lease.
LEMMA ClaimRow ==
    ASSUME NEW r, Sound(r), NEW w \in Workers
    PROVE  Sound(ClaimedRow(r, w))
<1>1. LeaseSeconds \in NoLease..LeaseSeconds /\ LeaseSeconds # NoLease
  BY JobQueueAssumption DEF NoLease
<1>2. w # None
  BY JobQueueAssumption
<1>3. r.attempts + 1 \in Nat
  BY DEF Sound, Row
<1>4. ClaimedRow(r, w) = [r EXCEPT !.queue = "running", !.status = "running", !.lockedBy = w,
                                   !.lease = LeaseSeconds, !.attempts = r.attempts + 1]
  BY DEF ClaimedRow, Sound, Row
<1>5. ClaimedRow(r, w) \in Row
  BY <1>1, <1>3, <1>4 DEF Row, QueueStatus, Status, Sound
<1>6. /\ ClaimedRow(r, w).queue = "running" /\ ClaimedRow(r, w).lockedBy = w
      /\ ClaimedRow(r, w).lease = LeaseSeconds
  BY <1>4 DEF Row, Sound
<1> QED
  BY <1>1, <1>2, <1>5, <1>6 DEF Sound, Locked

\* Recovery leaves every row sound.
LEMMA RecoverRow ==
    ASSUME NEW r, Sound(r)
    PROVE  Sound(RecoveredRow(r))
<1>1. /\ Sound(Released(r, "pending", "waiting_for_retry"))
      /\ Sound(Released(r, "failed", "failed_retryable"))
  BY ReleasedRow DEF Sound, QueueStatus, Status, FailedStatus
<1> QED
  BY <1>1 DEF RecoveredRow

\* The failure policy leaves a sound row, whatever it has decided.
LEMMA FailRow ==
    ASSUME NEW r, Sound(r), NEW v \in FailedStatus \cup {"requeue"}
    PROVE  Sound(FailedRow(r, v))
<1>1. Sound(Released(r, "pending", "waiting_for_retry"))
  BY ReleasedRow DEF Sound, QueueStatus, Status
<1>2. Sound([Released(r, "pending", "waiting_for_retry") EXCEPT !.next = Backoff])
  BY <1>1, DelayedRow, JobQueueAssumption
<1>3. v # "requeue" => Sound(Released(r, "failed", v))
  BY ReleasedRow DEF Sound, QueueStatus, Status
<1> QED
  BY <1>2, <1>3 DEF FailedRow

\* A renewal leaves a sound row.
LEMMA RenewRow ==
    ASSUME NEW r, Sound(r), NEW w \in Workers
    PROVE  Sound(RenewedRow(r, w))
<1>1. LeaseSeconds \in NoLease..LeaseSeconds /\ LeaseSeconds # NoLease
  BY JobQueueAssumption DEF NoLease
<1> QED
  BY <1>1 DEF RenewedRow, Row, Sound, Locked

\* The passing of a second turns no lease into NULL.
LEMMA TickRow ==
    ASSUME NEW r, Sound(r)
    PROVE  Sound(TickedRow(r))
<1> DEFINE l == IF r.lease >= 0 THEN r.lease - 1 ELSE r.lease
<1> DEFINE n == Less(r.next)
<1>1. r.lease \in NoLease..LeaseSeconds /\ r.next \in 0..Backoff
  BY DEF Sound, Row
<1>2. l \in NoLease..LeaseSeconds /\ (l = NoLease <=> r.lease = NoLease)
  BY <1>1, JobQueueAssumption DEF NoLease
<1>3. n \in 0..Backoff
  BY <1>1, JobQueueAssumption DEF Less
<1>4. TickedRow(r) = [r EXCEPT !.lease = l, !.next = n]
  BY DEF TickedRow, Sound, Row
<1> QED
  BY <1>2, <1>3, <1>4 DEF Sound, Row, Locked

-----------------------------------------------------------------------------

\* Every step leaves every row sound.
LEMMA RowStep ==
    ASSUME TypeOK, LockConsistent, [Next]_vars
    PROVE  row' \in [Jobs -> Row] /\ LockConsistent'
<1> DEFINE Goal == row' \in [Jobs -> Row] /\ \A j \in Jobs : Locked(row'[j])
<1> SUFFICES Goal
  BY DEF LockConsistent
<1>1. \A j \in Jobs : Sound(row[j])
  BY DEF TypeOK, LockConsistent, Sound
<1>2. ASSUME NEW j \in Jobs, NEW x, Sound(x), row' = [row EXCEPT ![j] = x]
      PROVE  Goal
  BY <1>1, <1>2 DEF TypeOK, Sound
<1>3. row' = row => Goal
  BY DEF TypeOK, LockConsistent
<1>4. \A o \in Operators : op[o].kind \in {"submit", "cancel", "retry"} => op[o].job \in Jobs
  BY DEF TypeOK, Request, Idle
<1>5. \A w \in Workers : phase[w] \in Executing => job[w] \in Jobs
  BY DEF TypeOK
<1>6. CASE Handlers
  <2>1. ASSUME NEW j \in Jobs, CreateJob(j) \/ PreviewJob(j) PROVE Goal
    <3>1. Sound(QueuedRow(row[j], "created")) /\ Sound(QueuedRow(row[j], "draft"))
      BY <1>1, <2>1, InsertedRow DEF CreateJob, PreviewJob, NextToCreate, Status
    <3> QED
      BY <1>2, <2>1, <3>1 DEF CreateJob, PreviewJob
  <2>2. ASSUME NEW o \in Operators, NEW kind \in OpKinds, NEW j \in Jobs,
               BeginRequest(o, kind, j)
        PROVE  Goal
    BY <1>3, <2>2 DEF BeginRequest
  <2>3. ASSUME NEW o \in Operators, SubmitDraft(o) \/ CancelJob(o) \/ RetryJob(o)
        PROVE  Goal
    <3>1. op[o].job \in Jobs
      BY <1>4, <2>3 DEF SubmitDraft, CancelJob, RetryJob, EndRequest
    <3>2. /\ Sound(SubmittedRow(row[op[o].job]))
          /\ Sound(CancelledRow(row[op[o].job]))
          /\ Sound(RetriedRow(row[op[o].job]))
      BY <1>1, <3>1, RequestedRow
    <3> QED
      BY <1>2, <2>3, <3>1, <3>2 DEF SubmitDraft, CancelJob, RetryJob, EndRequest
  <2> QED
    BY <1>6, <2>1, <2>2, <2>3 DEF Handlers
<1>7. ASSUME NEW w \in Workers, RecoverLeases(w) PROVE Goal
  <2>1. \A j \in Jobs : Sound(RecoveredRow(row[j]))
    BY <1>1, RecoverRow
  <2> QED
    BY <1>7, <2>1 DEF RecoverLeases, Sound
<1>8. ASSUME NEW w \in Workers, NEW j \in Jobs, ClaimJob(w, j) PROVE Goal
  <2>1. Sound(ClaimedRow(row[j], w))
    BY <1>1, ClaimRow
  <2> QED
    BY <1>2, <1>8, <2>1 DEF ClaimJob
<1>9. ASSUME NEW w \in Workers, PipelineStage(w) \/ WorkflowCompletes(w) PROVE Goal
  <2>1. job[w] \in Jobs
    BY <1>5, <1>9 DEF PipelineStage, WorkflowCompletes, Executing
  <2>2. Sound(WithStatus(row[job[w]], "running")) /\ Sound(WithStatus(row[job[w]], "completed"))
    BY <1>1, <2>1, StatusRow DEF Status
  <2> QED
    BY <1>2, <1>9, <2>1, <2>2 DEF PipelineStage, WorkflowCompletes
<1>10. ASSUME NEW w \in Workers, WriteFailure(w) PROVE Goal
  <2>1. job[w] \in Jobs /\ verdict[w] \in FailedStatus \cup {"requeue"}
    BY <1>10 DEF WriteFailure, TypeOK, Executing
  <2>2. Sound(FailedRow(row[job[w]], verdict[w]))
    BY <1>1, <2>1, FailRow
  <2> QED
    BY <1>2, <1>10, <2>1, <2>2 DEF WriteFailure
<1>11. ASSUME NEW w \in Workers, CompleteJob(w) PROVE Goal
  <2>1. job[w] \in Jobs
    BY <1>5, <1>11 DEF CompleteJob, Executing
  <2>2. Sound(Released(row[job[w]], "completed", "completed"))
    BY <1>1, <2>1, ReleasedRow DEF Sound, QueueStatus, Status
  <2> QED
    BY <1>2, <1>11, <2>1, <2>2 DEF CompleteJob
<1>12. ASSUME NEW w \in Workers, RenewLease(w), job[w] \in Jobs PROVE Goal
  <2>1. Sound(RenewedRow(row[job[w]], w))
    BY <1>1, <1>12, RenewRow
  <2> QED
    BY <1>2, <1>12, <2>1 DEF RenewLease
<1>13. ASSUME NEW w \in Workers, RenewLease(w), job[w] \notin Jobs PROVE Goal
  <2>1. row' = row
    BY <1>13 DEF RenewLease, TypeOK
  <2> QED
    BY <1>3, <2>1
<1>14. CASE Tick
  <2>1. \A j \in Jobs : Sound(TickedRow(row[j]))
    BY <1>1, TickRow
  <2> QED
    BY <1>14, <2>1 DEF Tick, Sound
<1>15. ASSUME NEW w \in Workers,
              \/ ClaimNothing(w) \/ WorkflowReplays(w) \/ ReadFailureBudget(w)
              \/ \E class \in {"retryable", "terminal"} : WorkflowRaises(w, class)
              \/ RenewerDies(w) \/ Stall(w) \/ Resume(w) \/ Crash(w) \/ Restart(w)
       PROVE  Goal
  BY <1>3, <1>15 DEF ClaimNothing, WorkflowReplays, ReadFailureBudget, WorkflowRaises,
                     RenewerDies, Stall, Resume, Crash, Restart
<1>16. CASE UNCHANGED vars
  BY <1>3, <1>16 DEF vars
<1> QED
  BY <1>6, <1>7, <1>8, <1>9, <1>10, <1>11, <1>12, <1>13, <1>14, <1>15, <1>16
     DEF Next, WorkerStep

\* The variables of workers, requests and the environment keep their types.
LEMMA ControlStep ==
    ASSUME TypeOK, row' \in [Jobs -> Row], [Next]_vars
    PROVE  TypeOK'
<1> USE DEF TypeOK
<1>1. CASE Handlers
  <2>1. ASSUME NEW j \in Jobs, CreateJob(j) \/ PreviewJob(j) PROVE TypeOK'
    BY <2>1 DEF CreateJob, PreviewJob, workerVars
  <2>2. ASSUME NEW o \in Operators, NEW kind \in OpKinds, NEW j \in Jobs,
               BeginRequest(o, kind, j)
        PROVE  TypeOK'
    <3>1. op' \in [Operators -> Request]
      BY <2>2 DEF BeginRequest, Request
    <3>2. budget' \in [crashes: 0..MaxCrashes, faults: 0..MaxFaults, ops: 0..MaxOps]
      BY <2>2, JobQueueAssumption DEF BeginRequest
    <3> QED
      BY <2>2, <3>1, <3>2 DEF BeginRequest, workerVars
  <2>3. ASSUME NEW o \in Operators, SubmitDraft(o) \/ CancelJob(o) \/ RetryJob(o)
        PROVE  TypeOK'
    BY <2>3 DEF SubmitDraft, CancelJob, RetryJob, EndRequest, Request, workerVars
  <2> QED
    BY <1>1, <2>1, <2>2, <2>3 DEF Handlers
<1>2. ASSUME NEW w \in Workers, WorkerStep(w) \/ PipelineStage(w) PROVE TypeOK'
  <2>1. CASE RecoverLeases(w) \/ ClaimNothing(w)
    BY <2>1 DEF RecoverLeases, ClaimNothing, Phase, Executing
  <2>2. ASSUME NEW j \in Jobs, ClaimJob(w, j) PROVE TypeOK'
    BY <2>2, RenewIntervalNat DEF ClaimJob, Phase, Executing
  <2>3. CASE PipelineStage(w) \/ WorkflowCompletes(w) \/ WorkflowReplays(w)
    BY <2>3 DEF PipelineStage, WorkflowCompletes, WorkflowReplays, workerVars, Phase, Executing
  <2>4. ASSUME NEW class \in {"retryable", "terminal"}, WorkflowRaises(w, class)
        PROVE  TypeOK'
    BY <2>4 DEF WorkflowRaises, Phase, Executing, Verdict
  <2>5. CASE ReadFailureBudget(w)
    BY <2>5 DEF ReadFailureBudget, Phase, Executing, Verdict, FailedStatus
  <2>6. CASE WriteFailure(w) \/ CompleteJob(w)
    BY <2>6, RenewIntervalNat DEF WriteFailure, CompleteJob, LeaveJob, Phase, Executing
  <2> QED
    BY <1>2, <2>1, <2>2, <2>3, <2>4, <2>5, <2>6 DEF WorkerStep
<1>3. ASSUME NEW w \in Workers, RenewLease(w) PROVE TypeOK'
  BY <1>3, RenewIntervalNat DEF RenewLease
<1>4. ASSUME NEW w \in Workers, RenewerDies(w) \/ Stall(w) \/ Resume(w) PROVE TypeOK'
  <2>1. budget' \in [crashes: 0..MaxCrashes, faults: 0..MaxFaults, ops: 0..MaxOps]
    BY <1>4, JobQueueAssumption DEF RenewerDies, Stall, Resume
  <2> QED
    BY <1>4, <2>1 DEF RenewerDies, Stall, Resume
<1>5. ASSUME NEW w \in Workers, Crash(w) \/ Restart(w) PROVE TypeOK'
  <2>1. budget' \in [crashes: 0..MaxCrashes, faults: 0..MaxFaults, ops: 0..MaxOps]
    BY <1>5, JobQueueAssumption DEF Crash, Restart
  <2> QED
    BY <1>5, <2>1, RenewIntervalNat DEF Crash, Restart, Phase, Executing
<1>6. CASE Tick
  <2>1. \A n \in 0..RenewInterval : Less(n) \in 0..RenewInterval
    BY RenewIntervalNat DEF Less
  <2> QED
    BY <1>6, <2>1 DEF Tick
<1>7. CASE UNCHANGED vars
  BY <1>7 DEF vars
<1> QED
  BY <1>1, <1>2, <1>3, <1>4, <1>5, <1>6, <1>7 DEF Next

\* The queue starts empty and idle.
LEMMA InitSound == Init => TypeOK /\ LockConsistent
<1> SUFFICES ASSUME Init PROVE TypeOK /\ LockConsistent
  OBVIOUS
<1>1. Sound(AbsentRow)
  BY JobQueueAssumption
     DEF AbsentRow, Row, QueueStatus, Status, Sound, Locked, NoLease
<1>2. budget \in [crashes: 0..MaxCrashes, faults: 0..MaxFaults, ops: 0..MaxOps]
  BY JobQueueAssumption DEF Init
<1> QED
  BY <1>1, <1>2, RenewIntervalNat
     DEF Init, TypeOK, LockConsistent, Sound, Request, Phase, Executing, Verdict, FailedStatus

\* Every variable keeps its type: in particular a failing worker only ever writes one
\* of the statuses the failure policy returns, and a worker that is executing
\* names a job.
THEOREM TypeCorrect == Spec => []TypeOK
<1>1. TypeOK /\ LockConsistent /\ [Next]_vars => (TypeOK /\ LockConsistent)'
  BY RowStep, ControlStep
<1> QED
  BY InitSound, <1>1, PTL DEF Spec

\* A row is running exactly when it has an owner and a lease, after any
\* interleaving of claims, renewals, recoveries, stale completions, cancels and retries.
THEOREM LocksAgree == Spec => []LockConsistent
<1>1. TypeOK /\ LockConsistent /\ [Next]_vars => (TypeOK /\ LockConsistent)'
  BY RowStep, ControlStep
<1> QED
  BY InitSound, <1>1, PTL DEF Spec

-----------------------------------------------------------------------------
(* The budget of claims, with one worker and one UI request at a time.  A  *)
(* worker that has lost its row may requeue it on a count it read before   *)
(* another's claim, and requests in flight together are as many retries.   *)

Sole(S) == \A x, y \in S : x = y

\* The claim that a pending row will have, and the one a retry in flight will give it.
Due(j) == IF row[j].queue = "pending" THEN 1 ELSE 0
InFlight(j) == IF \E o \in Operators : op[o] = [kind |-> "retry", job |-> j] THEN 1 ELSE 0

ClaimsCovered ==
    \A j \in Jobs :
        row[j].attempts + Due(j) + InFlight(j) <= MaxAttempts + (MaxOps - budget.ops)

\* A row that is not there has not been claimed, a requeue has been decided within
\* the attempts, and a request in flight has been counted.
RequeuesCovered ==
    /\ \A j \in Jobs : row[j].queue = "absent" => row[j].attempts = 0
    /\ \A w \in Workers : phase[w] = "failwrite" /\ verdict[w] = "requeue" =>
          row[job[w]].attempts < MaxAttempts
    /\ \A o \in Operators : op[o] # Idle => budget.ops < MaxOps

\* The inductive invariant behind ClaimBudget.
BudgetInv == TypeOK /\ ClaimsCovered /\ RequeuesCovered

\* The types the arithmetic needs.
LEMMA BudgetTypes ==
    ASSUME TypeOK
    PROVE  /\ \A j \in Jobs : row[j] \in Row /\ row[j].attempts \in Nat
                              /\ Due(j) \in 0..1 /\ InFlight(j) \in 0..1
           /\ budget.ops \in 0..MaxOps /\ MaxOps \in Nat /\ MaxAttempts \in Nat \ {0}
<1>1. \A j \in Jobs : row[j] \in Row /\ row[j].attempts \in Nat
  BY DEF TypeOK, Row
<1>2. \A j \in Jobs : Due(j) \in 0..1 /\ InFlight(j) \in 0..1
  BY DEF Due, InFlight
<1>3. budget.ops \in 0..MaxOps /\ MaxOps \in Nat /\ MaxAttempts \in Nat \ {0}
  BY JobQueueAssumption DEF TypeOK
<1> QED
  BY <1>1, <1>2, <1>3

\* A step that claims nothing and has no request begin or end: it may put a row back in
\* the queue only if its attempts are not used up.
LEMMA NoClaim ==
    ASSUME BudgetInv, op' = op, budget'.ops = budget.ops, TypeOK',
           NEW J \in SUBSET Jobs,
           \A j \in Jobs \ J : row'[j] = row[j],
           \A j \in J : /\ row'[j].attempts = row[j].attempts
                        /\ row'[j].queue = "pending" =>
                              row[j].queue = "pending" \/ row[j].attempts < MaxAttempts
                        /\ row'[j].queue = "absent" => row[j].queue = "absent"
    PROVE  /\ ClaimsCovered'
           /\ \A j \in Jobs : row'[j].queue = "absent" => row'[j].attempts = 0
           /\ \A o \in Operators : op'[o] # Idle => budget'.ops < MaxOps
<1>1. \A j \in Jobs : InFlight(j)' = InFlight(j)
  BY DEF InFlight
<1>2. ASSUME NEW j \in Jobs
      PROVE  row'[j].attempts + Due(j)' + InFlight(j)' <= MaxAttempts + (MaxOps - budget'.ops)
  <2>1. /\ row[j].attempts \in Nat /\ Due(j) \in 0..1 /\ InFlight(j) \in 0..1
        /\ budget.ops \in 0..MaxOps /\ MaxOps \in Nat /\ MaxAttempts \in Nat \ {0}
    BY BudgetTypes DEF BudgetInv
  <2>2. row[j].attempts + Due(j) + InFlight(j) <= MaxAttempts + (MaxOps - budget.ops)
    BY DEF BudgetInv, ClaimsCovered
  <2>3. row'[j].attempts = row[j].attempts
    BY DEF BudgetInv
  <2>4. CASE row'[j].queue = "pending" => row[j].queue = "pending"
    <3>1. Due(j)' <= Due(j) /\ Due(j)' \in 0..1
      BY <2>4 DEF Due
    <3> QED
      BY <1>1, <2>1, <2>2, <2>3, <3>1
  <2>5. CASE row[j].attempts < MaxAttempts
    <3>1. Due(j)' \in 0..1
      BY DEF Due
    <3>2. InFlight(j) = 1 => budget.ops < MaxOps
      BY DEF InFlight, BudgetInv, RequeuesCovered, Idle
    <3> QED
      BY <1>1, <2>1, <2>3, <2>5, <3>1, <3>2
  <2> QED
    BY <2>4, <2>5
<1>3. \A j \in Jobs : row'[j].queue = "absent" => row'[j].attempts = 0
  BY DEF BudgetInv, RequeuesCovered
<1>4. \A o \in Operators : op'[o] # Idle => budget'.ops < MaxOps
  BY DEF BudgetInv, RequeuesCovered
<1> QED
  BY <1>2, <1>3, <1>4 DEF ClaimsCovered

\* The requeues that were decided stay within the attempts while these do not change.
LEMMA VerdictsKept ==
    ASSUME BudgetInv, TypeOK',
           \A j \in Jobs : row'[j].attempts = row[j].attempts,
           \A w \in Workers : phase'[w] = "failwrite" =>
               phase[w] = "failwrite" /\ verdict'[w] = verdict[w] /\ job'[w] = job[w]
    PROVE  \A w \in Workers : phase'[w] = "failwrite" /\ verdict'[w] = "requeue" =>
               row'[job'[w]].attempts < MaxAttempts
BY DEF BudgetInv, RequeuesCovered, TypeOK, Executing

\* What the UPDATEs do to the count and to the queue.
LEMMA SettledRow ==
    ASSUME NEW r \in Row
    PROVE  /\ \A s \in Status : WithStatus(r, s).queue = r.queue /\ WithStatus(r, s).attempts = r.attempts
           /\ CancelledRow(r).queue = "failed" /\ CancelledRow(r).attempts = r.attempts
           /\ RetriedRow(r).queue = "pending" /\ RetriedRow(r).attempts = r.attempts
           /\ RecoveredRow(r).attempts = r.attempts
           /\ RecoveredRow(r).queue = "pending" => r.queue = "pending" \/ r.attempts < MaxAttempts
           /\ RecoveredRow(r).queue = "absent" => r.queue = "absent"
           /\ \A v \in FailedStatus \cup {"requeue"} :
                 /\ FailedRow(r, v).attempts = r.attempts /\ FailedRow(r, v).queue # "absent"
                 /\ FailedRow(r, v).queue = "pending" => v = "requeue"
           /\ \A w \in Workers : RenewedRow(r, w).queue = r.queue
                                 /\ RenewedRow(r, w).attempts = r.attempts
           /\ TickedRow(r).queue = r.queue /\ TickedRow(r).attempts = r.attempts
<1>1. \A q \in {"pending", "failed"} : \A s :
          /\ Released(r, q, s).queue = q /\ Released(r, q, s).attempts = r.attempts
          /\ DOMAIN Released(r, q, s) = DOMAIN r
  BY DEF Released, Row
<1>2. \A s \in Status : WithStatus(r, s).queue = r.queue /\ WithStatus(r, s).attempts = r.attempts
  BY DEF WithStatus, Row
<1>3. CancelledRow(r).queue = "failed" /\ CancelledRow(r).attempts = r.attempts
  BY <1>1 DEF CancelledRow
<1>4. \A n : LET x == [Released(r, "pending", "waiting_for_retry") EXCEPT !.next = n]
             IN  x.queue = "pending" /\ x.attempts = r.attempts
  BY <1>1 DEF Row
<1>5. RetriedRow(r).queue = "pending" /\ RetriedRow(r).attempts = r.attempts
  BY <1>4 DEF RetriedRow
<1>6. /\ RecoveredRow(r).attempts = r.attempts
      /\ RecoveredRow(r).queue = "pending" => r.queue = "pending" \/ r.attempts < MaxAttempts
      /\ RecoveredRow(r).queue = "absent" => r.queue = "absent"
  BY <1>1 DEF RecoveredRow
<1>7. \A v \in FailedStatus \cup {"requeue"} :
          /\ FailedRow(r, v).attempts = r.attempts /\ FailedRow(r, v).queue # "absent"
          /\ FailedRow(r, v).queue = "pending" => v = "requeue"
  BY <1>1, <1>4 DEF FailedRow
<1>8. \A w \in Workers : RenewedRow(r, w).queue = r.queue /\ RenewedRow(r, w).attempts = r.attempts
  BY DEF RenewedRow, Row
<1>9. TickedRow(r).queue = r.queue /\ TickedRow(r).attempts = r.attempts
  BY DEF TickedRow, Row
<1> QED
  BY <1>2, <1>3, <1>5, <1>6, <1>7, <1>8, <1>9

\* Claiming trades the pending row for the attempt.
LEMMA ClaimCovered ==
    ASSUME BudgetInv, TypeOK', Sole(Workers),
           NEW w \in Workers, NEW j \in Jobs, ClaimJob(w, j)
    PROVE  BudgetInv'
<1>1. row[j] \in Row /\ row[j].attempts \in Nat /\ row[j].queue = "pending"
  BY BudgetTypes DEF BudgetInv, ClaimJob, Claimable
<1>2. row' = [row EXCEPT ![j] = ClaimedRow(row[j], w)] /\ UNCHANGED <<op, budget>>
  BY DEF ClaimJob
<1>3. row'[j].queue = "running" /\ row'[j].attempts = row[j].attempts + 1
  BY <1>1, <1>2 DEF ClaimedRow, Row, BudgetInv, TypeOK
<1>4. \A k \in Jobs \ {j} : row'[k] = row[k]
  BY <1>2 DEF BudgetInv, TypeOK
<1>5. ClaimsCovered'
  <2>1. SUFFICES ASSUME NEW k \in Jobs
                 PROVE  row'[k].attempts + Due(k)' + InFlight(k)'
                            <= MaxAttempts + (MaxOps - budget'.ops)
    BY DEF ClaimsCovered
  <2>2. row[k].attempts + Due(k) + InFlight(k) <= MaxAttempts + (MaxOps - budget.ops)
    BY DEF BudgetInv, ClaimsCovered
  <2>3. InFlight(k)' = InFlight(k) /\ InFlight(k) \in 0..1
    BY <1>2 DEF InFlight
  <2>4. CASE k = j
    <3>1. Due(j) = 1 /\ Due(j)' = 0
      BY <1>1, <1>3 DEF Due
    <3> QED
      BY <1>1, <1>2, <1>3, <2>2, <2>3, <2>4, <3>1
  <2>5. CASE k # j
    <3>1. Due(k)' = Due(k)
      BY <1>4, <2>5 DEF Due
    <3> QED
      BY <1>2, <1>4, <2>2, <2>3, <2>5, <3>1
  <2> QED
    BY <2>4, <2>5
<1>6. RequeuesCovered'
  <2>1. \A k \in Jobs : row'[k].queue = "absent" => row'[k].attempts = 0
    BY <1>3, <1>4 DEF BudgetInv, RequeuesCovered
  <2>2. \A v \in Workers : phase'[v] = "run"
    BY DEF Sole, ClaimJob, BudgetInv, TypeOK
  <2> QED
    BY <1>2, <2>1, <2>2 DEF RequeuesCovered, BudgetInv
<1> QED
  BY <1>5, <1>6 DEF BudgetInv

\* A request takes from the budget when it begins.
LEMMA RequestCounted ==
    ASSUME BudgetInv, TypeOK', Sole(Operators),
           NEW o \in Operators, NEW kind \in OpKinds, NEW j \in Jobs, BeginRequest(o, kind, j)
    PROVE  BudgetInv'
<1>1. /\ row' = row /\ UNCHANGED workerVars /\ op[o] = Idle /\ budget.ops > 0
      /\ budget'.ops = budget.ops - 1
  BY DEF BeginRequest, BudgetInv, TypeOK
<1>2. ClaimsCovered'
  <2>1. SUFFICES ASSUME NEW k \in Jobs
                 PROVE  row'[k].attempts + Due(k)' + InFlight(k)'
                            <= MaxAttempts + (MaxOps - budget'.ops)
    BY DEF ClaimsCovered
  <2>2. row[k].attempts + Due(k) + InFlight(k) <= MaxAttempts + (MaxOps - budget.ops)
    BY DEF BudgetInv, ClaimsCovered
  <2>3. InFlight(k) = 0
    BY <1>1 DEF InFlight, Sole, Idle
  <2>4. InFlight(k)' \in 0..1 /\ Due(k)' = Due(k)
    BY <1>1 DEF InFlight, Due
  <2> QED
    BY <1>1, <2>2, <2>3, <2>4, BudgetTypes DEF BudgetInv
<1>3. RequeuesCovered'
  <2>1. budget'.ops < MaxOps
    BY <1>1, BudgetTypes DEF BudgetInv
  <2> QED
    BY <1>1, <2>1 DEF BudgetInv, RequeuesCovered, workerVars
<1> QED
  BY <1>2, <1>3 DEF BudgetInv

\* When it ends, what it took covers the claim that it gives.
LEMMA RequestCovered ==
    ASSUME BudgetInv, TypeOK', Sole(Operators),
           NEW o \in Operators, SubmitDraft(o) \/ CancelJob(o) \/ RetryJob(o)
    PROVE  BudgetInv'
<1> DEFINE j == op[o].job
<1>1. j \in Jobs /\ op[o].kind \in {"submit", "cancel", "retry"} /\ UNCHANGED <<workerVars, budget>>
  BY DEF BudgetInv, TypeOK, Request, Idle, SubmitDraft, CancelJob, RetryJob, EndRequest
<1>2. row[j] \in Row /\ row \in [Jobs -> Row] /\ op \in [Operators -> Request]
  BY <1>1 DEF BudgetInv, TypeOK
<1>3. op' = [op EXCEPT ![o] = Idle]
  BY DEF SubmitDraft, CancelJob, RetryJob, EndRequest
<1>4. \A k \in Jobs \ {j} : row'[k] = row[k]
  BY <1>1, <1>2 DEF SubmitDraft, CancelJob, RetryJob, EndRequest
<1>5. /\ row'[j].attempts = row[j].attempts
      /\ op[o].kind # "retry" => row'[j].queue \in {row[j].queue, "failed"}
      /\ op[o].kind = "retry" => row'[j].queue = "pending"
  <2>1. "pending" \in Status
    BY DEF Status
  <2> QED
    BY <1>1, <1>2, <2>1, SettledRow DEF SubmitDraft, CancelJob, RetryJob, EndRequest, SubmittedRow
<1>6. \A k \in Jobs : InFlight(k)' = 0
  BY <1>2, <1>3 DEF InFlight, Sole, Idle
<1>7. op[o].kind = "retry" => InFlight(j) = 1
  <2>1. op[o].kind = "retry" => op[o] = [kind |-> "retry", job |-> j]
    BY <1>1, <1>2 DEF Request, Idle
  <2> QED
    BY <2>1 DEF InFlight
<1>8. ClaimsCovered'
  <2>1. SUFFICES ASSUME NEW k \in Jobs
                 PROVE  row'[k].attempts + Due(k)' + InFlight(k)'
                            <= MaxAttempts + (MaxOps - budget'.ops)
    BY DEF ClaimsCovered
  <2>2. row[k].attempts + Due(k) + InFlight(k) <= MaxAttempts + (MaxOps - budget.ops)
    BY DEF BudgetInv, ClaimsCovered
  <2>3. /\ row[k].attempts \in Nat /\ Due(k) \in 0..1 /\ InFlight(k) \in 0..1
        /\ budget.ops \in 0..MaxOps /\ MaxOps \in Nat /\ MaxAttempts \in Nat
    BY BudgetTypes DEF BudgetInv
  <2>4. row'[k].attempts = row[k].attempts
    BY <1>4, <1>5
  <2>5. Due(k)' <= Due(k) + InFlight(k) /\ Due(k)' \in 0..1
    BY <1>4, <1>5, <1>7, <2>3 DEF Due
  <2> QED
    BY <1>1, <1>6, <2>2, <2>3, <2>4, <2>5
<1>9. RequeuesCovered'
  <2>1. \A k \in Jobs : row'[k].queue = "absent" => row'[k].attempts = 0
    BY <1>4, <1>5 DEF BudgetInv, RequeuesCovered
  <2>2. \A k \in Jobs : row'[k].attempts = row[k].attempts
    BY <1>4, <1>5
  <2>3. \A w \in Workers : phase'[w] = "failwrite" /\ verdict'[w] = "requeue" =>
            row'[job'[w]].attempts < MaxAttempts
    BY <1>1, <2>2, VerdictsKept DEF workerVars
  <2>4. \A q \in Operators : op'[q] = Idle
    BY <1>2, <1>3 DEF Sole
  <2> QED
    BY <2>1, <2>3, <2>4 DEF RequeuesCovered
<1> QED
  BY <1>8, <1>9 DEF BudgetInv

\* A row inserted has a claim to come and none behind it.
LEMMA InsertCovered ==
    ASSUME BudgetInv, TypeOK', NEW j \in Jobs, CreateJob(j) \/ PreviewJob(j)
    PROVE  BudgetInv'
<1>1. /\ row[j] \in Row /\ row[j].queue = "absent" /\ UNCHANGED <<workerVars, op, budget>>
      /\ row \in [Jobs -> Row]
  BY DEF CreateJob, PreviewJob, NextToCreate, BudgetInv, TypeOK
<1>2. row[j].attempts = 0
  BY <1>1 DEF BudgetInv, RequeuesCovered
<1>3. row'[j].attempts = row[j].attempts /\ row'[j].queue = "pending"
  BY <1>1 DEF CreateJob, PreviewJob, QueuedRow, Row
<1>4. \A k \in Jobs \ {j} : row'[k] = row[k]
  BY <1>1 DEF CreateJob, PreviewJob
<1>5. row[j].attempts < MaxAttempts
  BY <1>2, JobQueueAssumption
<1>6. /\ ClaimsCovered'
      /\ \A k \in Jobs : row'[k].queue = "absent" => row'[k].attempts = 0
      /\ \A o \in Operators : op'[o] # Idle => budget'.ops < MaxOps
  <2>1. {j} \in SUBSET Jobs /\ op' = op /\ budget'.ops = budget.ops
    BY <1>1
  <2> QED
    BY <1>3, <1>4, <1>5, <2>1, NoClaim
<1>7. \A k \in Jobs : row'[k].attempts = row[k].attempts
  BY <1>3, <1>4
<1>8. \A w \in Workers : phase'[w] = "failwrite" /\ verdict'[w] = "requeue" =>
          row'[job'[w]].attempts < MaxAttempts
  BY <1>1, <1>7, VerdictsKept DEF workerVars
<1> QED
  BY <1>6, <1>8 DEF BudgetInv, RequeuesCovered

\* A worker that settles its job requeues it within the attempts only.
LEMMA SettleCovered ==
    ASSUME BudgetInv, TypeOK', NEW w \in Workers, WriteFailure(w) \/ CompleteJob(w)
    PROVE  BudgetInv'
<1> DEFINE j == job[w]
<1>1. /\ j \in Jobs /\ row[j] \in Row /\ row \in [Jobs -> Row] /\ phase[w] \in {"done", "failwrite"}
      /\ phase[w] = "failwrite" => verdict[w] \in FailedStatus \cup {"requeue"}
      /\ phase \in [Workers -> Phase]
  BY DEF WriteFailure, CompleteJob, BudgetInv, TypeOK, Executing
<1>2. UNCHANGED <<job, verdict, op, budget>>
  BY DEF WriteFailure, CompleteJob, LeaveJob
<1>3. \A k \in Jobs \ {j} : row'[k] = row[k]
  BY <1>1 DEF WriteFailure, CompleteJob
<1>4. /\ row'[j].attempts = row[j].attempts /\ row'[j].queue # "absent"
      /\ row'[j].queue = "pending" => row[j].attempts < MaxAttempts
  <2>1. CASE CompleteJob(w)
    <3>1. row'[j] = Released(row[j], "completed", "completed")
      BY <1>1, <2>1 DEF CompleteJob
    <3> QED
      BY <1>1, <3>1 DEF Released, Row
  <2>2. CASE WriteFailure(w)
    <3>1. row'[j] = FailedRow(row[j], verdict[w]) /\ phase[w] = "failwrite"
      BY <1>1, <2>2 DEF WriteFailure
    <3>2. verdict[w] = "requeue" => row[j].attempts < MaxAttempts
      BY <3>1 DEF BudgetInv, RequeuesCovered
    <3> QED
      BY <1>1, <3>1, <3>2, SettledRow
  <2> QED
    BY <2>1, <2>2
<1>5. /\ ClaimsCovered'
      /\ \A k \in Jobs : row'[k].queue = "absent" => row'[k].attempts = 0
      /\ \A o \in Operators : op'[o] # Idle => budget'.ops < MaxOps
  <2>1. {j} \in SUBSET Jobs /\ op' = op /\ budget'.ops = budget.ops
    BY <1>1, <1>2
  <2> QED
    BY <1>3, <1>4, <2>1, NoClaim
<1>6. \A v \in Workers : phase'[v] = "failwrite" => phase[v] = "failwrite"
  BY <1>1 DEF WriteFailure, CompleteJob, LeaveJob
<1>7. \A k \in Jobs : row'[k].attempts = row[k].attempts
  BY <1>3, <1>4
<1>8. \A v \in Workers : phase'[v] = "failwrite" /\ verdict'[v] = "requeue" =>
          row'[job'[v]].attempts < MaxAttempts
  BY <1>2, <1>6, <1>7, VerdictsKept
<1> QED
  BY <1>5, <1>8 DEF BudgetInv, RequeuesCovered

\* Recovery looks at the attempts itself; status, renewals and time count nothing.
LEMMA RowsCovered ==
    ASSUME BudgetInv, TypeOK', op' = op, budget'.ops = budget.ops,
           \A j \in Jobs :
              /\ row'[j].attempts = row[j].attempts
              /\ row'[j].queue = "pending" => row[j].queue = "pending" \/ row[j].attempts < MaxAttempts
              /\ row'[j].queue = "absent" => row[j].queue = "absent",
           \A w \in Workers : phase'[w] = "failwrite" =>
               phase[w] = "failwrite" /\ verdict'[w] = verdict[w] /\ job'[w] = job[w]
    PROVE  BudgetInv'
<1>1. /\ ClaimsCovered'
      /\ \A k \in Jobs : row'[k].queue = "absent" => row'[k].attempts = 0
      /\ \A o \in Operators : op'[o] # Idle => budget'.ops < MaxOps
  <2>1. Jobs \in SUBSET Jobs /\ Jobs \ Jobs = {}
    OBVIOUS
  <2> QED
    BY <2>1, NoClaim
<1>2. \A w \in Workers : phase'[w] = "failwrite" /\ verdict'[w] = "requeue" =>
          row'[job'[w]].attempts < MaxAttempts
  BY VerdictsKept
<1> QED
  BY <1>1, <1>2 DEF BudgetInv, RequeuesCovered

\* Every step keeps the budget.
LEMMA BudgetStep ==
    ASSUME Sole(Workers), Sole(Operators), BudgetInv, TypeOK', [Next]_vars
    PROVE  BudgetInv'
<1>1. \A j \in Jobs : row[j] \in Row
  BY BudgetTypes DEF BudgetInv
<1>2. row \in [Jobs -> Row] /\ phase \in [Workers -> Phase] /\ verdict \in [Workers -> Verdict]
      /\ \A w \in Workers : phase[w] \in Executing => job[w] \in Jobs
  BY DEF BudgetInv, TypeOK
<1>3. CASE Handlers
  BY <1>3, InsertCovered, RequestCounted, RequestCovered DEF Handlers
<1>4. ASSUME NEW w \in Workers, RecoverLeases(w) PROVE BudgetInv'
  <2>1. \A j \in Jobs : row'[j] = RecoveredRow(row[j])
    BY <1>4 DEF RecoverLeases
  <2>2. \A v \in Workers : phase'[v] = "failwrite" => phase[v] = "failwrite"
    BY <1>2, <1>4 DEF RecoverLeases
  <2>3. UNCHANGED <<job, verdict, op, budget>>
    BY <1>4 DEF RecoverLeases
  <2> QED
    BY <1>1, <2>1, <2>2, <2>3, SettledRow, RowsCovered
<1>5. ASSUME NEW w \in Workers, NEW j \in Jobs, ClaimJob(w, j) PROVE BudgetInv'
  BY <1>5, ClaimCovered
<1>6. ASSUME NEW w \in Workers, PipelineStage(w) \/ WorkflowCompletes(w) PROVE BudgetInv'
  <2>1. job[w] \in Jobs /\ {"running", "completed"} \subseteq Status
    BY <1>2, <1>6 DEF PipelineStage, WorkflowCompletes, Executing, Status
  <2>2. \E s \in Status : row' = [row EXCEPT ![job[w]] = WithStatus(row[job[w]], s)]
    BY <1>6, <2>1 DEF PipelineStage, WorkflowCompletes
  <2>3. \A j \in Jobs : row'[j].attempts = row[j].attempts /\ row'[j].queue = row[j].queue
    BY <1>1, <1>2, <2>1, <2>2, SettledRow
  <2>4. \A v \in Workers : phase'[v] = "failwrite" => phase[v] = "failwrite"
    BY <1>2, <1>6 DEF PipelineStage, WorkflowCompletes, workerVars
  <2>5. UNCHANGED <<job, verdict, op, budget>>
    BY <1>6 DEF PipelineStage, WorkflowCompletes, workerVars
  <2> QED
    BY <2>3, <2>4, <2>5, RowsCovered
<1>7. ASSUME NEW w \in Workers, ReadFailureBudget(w) PROVE BudgetInv'
  <2>1. /\ UNCHANGED <<row, job, op, budget>> /\ job[w] \in Jobs
        /\ phase' = [phase EXCEPT ![w] = "failwrite"]
    BY <1>2, <1>7 DEF ReadFailureBudget, Executing
  <2>2. \A v \in Workers \ {w} : verdict'[v] = verdict[v]
    BY <1>2, <1>7 DEF ReadFailureBudget
  <2>3. verdict'[w] = "requeue" => row[job[w]].attempts < MaxAttempts
    BY <1>2, <1>7 DEF ReadFailureBudget
  <2>4. \A v \in Workers : phase'[v] = "failwrite" /\ verdict'[v] = "requeue" =>
            row'[job'[v]].attempts < MaxAttempts
    BY <1>2, <2>1, <2>2, <2>3 DEF BudgetInv, RequeuesCovered
  <2>5. ClaimsCovered'
    BY <2>1 DEF BudgetInv, ClaimsCovered, Due, InFlight
  <2> QED
    BY <2>1, <2>4, <2>5 DEF BudgetInv, RequeuesCovered
<1>8. ASSUME NEW w \in Workers, WriteFailure(w) \/ CompleteJob(w) PROVE BudgetInv'
  BY <1>8, SettleCovered
<1>9. ASSUME NEW w \in Workers, RenewLease(w) PROVE BudgetInv'
  <2>1. \A j \in Jobs : row'[j].attempts = row[j].attempts /\ row'[j].queue = row[j].queue
    BY <1>1, <1>2, <1>9, SettledRow DEF RenewLease
  <2> QED
    BY <1>9, <2>1, RowsCovered DEF RenewLease
<1>10. CASE Tick
  <2>1. \A j \in Jobs : row'[j].attempts = row[j].attempts /\ row'[j].queue = row[j].queue
    BY <1>1, <1>10, SettledRow DEF Tick
  <2> QED
    BY <1>10, <2>1, RowsCovered DEF Tick
<1>11. ASSUME NEW w \in Workers,
              \/ ClaimNothing(w) \/ WorkflowReplays(w)
              \/ \E class \in {"retryable", "terminal"} : WorkflowRaises(w, class)
       PROVE  BudgetInv'
  <2>1. /\ UNCHANGED <<row, job, op, budget>>
        /\ \A v \in Workers : phase'[v] = "failwrite" =>
              phase[v] = "failwrite" /\ verdict'[v] = verdict[v]
    BY <1>2, <1>11 DEF ClaimNothing, WorkflowReplays, WorkflowRaises
  <2> QED
    BY <2>1, RowsCovered
<1>12. ASSUME NEW w \in Workers,
              RenewerDies(w) \/ Stall(w) \/ Resume(w) \/ Crash(w) \/ Restart(w)
       PROVE  BudgetInv'
  <2>1. /\ UNCHANGED <<row, job, verdict, op>> /\ budget'.ops = budget.ops
        /\ \A v \in Workers : phase'[v] = "failwrite" => phase[v] = "failwrite"
    BY <1>2, <1>12 DEF RenewerDies, Stall, Resume, Crash, Restart, BudgetInv, TypeOK
  <2> QED
    BY <2>1, RowsCovered
<1>13. CASE UNCHANGED vars
  BY <1>13, RowsCovered DEF vars
<1> QED
  BY <1>3, <1>4, <1>5, <1>6, <1>7, <1>8, <1>9, <1>10, <1>11, <1>12, <1>13 DEF Next, WorkerStep

\* While one worker and one UI request at a time act on the queue, a row is claimed
\* max_attempts times at most, and once more for each request: the three statements that
\* enforce the budget (recovery twice, the failure policy) leave no way around it.
THEOREM ClaimsBounded ==
    Sole(Workers) /\ Sole(Operators) => (Spec => []ClaimBudget)
<1> SUFFICES ASSUME Sole(Workers), Sole(Operators) PROVE Spec => []ClaimBudget
  OBVIOUS
<1>1. Init => TypeOK /\ LockConsistent /\ BudgetInv
  <2> SUFFICES ASSUME Init PROVE TypeOK /\ LockConsistent /\ BudgetInv
    OBVIOUS
  <2>1. TypeOK /\ LockConsistent
    BY InitSound
  <2>2. \A j \in Jobs : row[j].attempts = 0 /\ Due(j) = 0 /\ InFlight(j) = 0
    BY DEF Init, AbsentRow, Due, InFlight, Idle
  <2>3. budget.ops = MaxOps /\ MaxOps \in Nat /\ MaxAttempts \in Nat
    BY JobQueueAssumption DEF Init
  <2>4. ClaimsCovered
    BY <2>2, <2>3 DEF ClaimsCovered
  <2>5. RequeuesCovered
    BY <2>2 DEF RequeuesCovered, Init
  <2> QED
    BY <2>1, <2>4, <2>5 DEF BudgetInv
<1>2. TypeOK /\ LockConsistent /\ BudgetInv /\ [Next]_vars
          => (TypeOK /\ LockConsistent /\ BudgetInv)'
  BY RowStep, ControlStep, BudgetStep
<1>3. BudgetInv => ClaimBudget
  <2> SUFFICES ASSUME BudgetInv, NEW j \in Jobs
               PROVE  row[j].attempts <= MaxAttempts + (MaxOps - budget.ops)
    BY DEF ClaimBudget
  <2>1. row[j].attempts + Due(j) + InFlight(j) <= MaxAttempts + (MaxOps - budget.ops)
    BY DEF BudgetInv, ClaimsCovered
  <2> QED
    BY <2>1, BudgetTypes DEF BudgetInv
<1> QED
  BY <1>1, <1>2, <1>3, PTL DEF Spec

-----------------------------------------------------------------------------
(* What may happen to a running row *)

\* A worker that settles its job executes it no more.
LeavesJob(w, j) == Executes(w, j) /\ ~Executes(w, j)'

\* What a step does to a running row: it keeps its lease and its status in the queue, lets
\* it lapse by a second, drops it, or renews it.
LEMMA RunningRow ==
    ASSUME TypeOK, [Next]_vars, NEW j \in Jobs, row[j].queue = "running"
    PROVE  \/ row'[j].queue = "running" /\ row'[j].lease \in {row[j].lease, row[j].lease - 1}
           \/ row[j].lease = Expired /\ row'[j].lease = NoLease
           \/ (\E w \in Workers : LeavesJob(w, j)) /\ row'[j].lease = NoLease
           \/ (\E o \in Operators : op[o].job = j /\ op'[o] = Idle) /\ row'[j].lease = NoLease
           \/ /\ row'[j].queue = "running"
              /\ \E w \in Workers : /\ renewer[w] = "on" /\ renewIn[w] = 0 /\ job[w] = j
                                    /\ row[j].lockedBy = w
<1> DEFINE r == row[j]
           Goal == \/ row'[j].queue = "running" /\ row'[j].lease \in {r.lease, r.lease - 1}
                   \/ r.lease = Expired /\ row'[j].lease = NoLease
                   \/ (\E w \in Workers : LeavesJob(w, j)) /\ row'[j].lease = NoLease
                   \/ /\ \E o \in Operators : op[o].job = j /\ op'[o] = Idle
                      /\ row'[j].lease = NoLease
                   \/ /\ row'[j].queue = "running"
                      /\ \E w \in Workers : /\ renewer[w] = "on" /\ renewIn[w] = 0
                                            /\ job[w] = j /\ r.lockedBy = w
<1> SUFFICES Goal
  OBVIOUS
<1>0. /\ row \in [Jobs -> Row] /\ phase \in [Workers -> Phase] /\ op \in [Operators -> Request]
      /\ \A w \in Workers : phase[w] \in Executing => job[w] \in Jobs
      /\ row[j] \in Row
  BY DEF TypeOK
<1>1. row'[j] = row[j] => Goal
  OBVIOUS
<1> HIDE DEF Goal
<1>2. CASE Handlers
  <2>1. ASSUME NEW k \in Jobs, CreateJob(k) \/ PreviewJob(k) PROVE row'[j] = row[j]
    BY <1>0, <2>1 DEF CreateJob, PreviewJob, NextToCreate
  <2>2. ASSUME NEW o \in Operators, NEW kind \in OpKinds, NEW k \in Jobs,
               BeginRequest(o, kind, k)
        PROVE  row'[j] = row[j]
    BY <2>2 DEF BeginRequest
  <2>3. ASSUME NEW o \in Operators, SubmitDraft(o) \/ CancelJob(o) \/ RetryJob(o) PROVE Goal
    <3>1. CASE op[o].job # j
      BY <1>0, <1>1, <2>3, <3>1 DEF SubmitDraft, CancelJob, RetryJob, EndRequest
    <3>2. CASE op[o].job = j /\ SubmitDraft(o)
      <4>1. row'[j] = WithStatus(row[j], "pending")
        BY <1>0, <3>2 DEF SubmitDraft, EndRequest, SubmittedRow
      <4>2. row'[j].queue = "running" /\ row'[j].lease = row[j].lease
        BY <1>0, <4>1 DEF WithStatus, Row
      <4> QED
        BY <4>2 DEF Goal
    <3>3. CASE op[o].job = j /\ (CancelJob(o) \/ RetryJob(o))
      <4>1. /\ row'[j] = CancelledRow(row[j]) \/ row'[j] = RetriedRow(row[j])
            /\ op'[o] = Idle
        BY <1>0, <3>3 DEF CancelJob, RetryJob, EndRequest
      <4>2. CancelledRow(row[j]).lease = NoLease /\ RetriedRow(row[j]).lease = NoLease
        BY <1>0 DEF Released, CancelledRow, RetriedRow, Row
      <4>3. row'[j].lease = NoLease
        BY <4>1, <4>2
      <4> QED
        BY <3>3, <4>1, <4>3 DEF Goal
    <3> QED
      BY <2>3, <3>1, <3>2, <3>3
  <2> QED
    BY <1>1, <1>2, <2>1, <2>2, <2>3 DEF Handlers
<1>3. ASSUME NEW w \in Workers, RecoverLeases(w) PROVE Goal
  <2>1. row'[j] = RecoveredRow(row[j])
    BY <1>3 DEF RecoverLeases
  <2>2. row'[j] = row[j] \/ (row[j].lease = Expired /\ row'[j].lease = NoLease)
    BY <1>0, <2>1 DEF RecoveredRow, Released, Row
  <2> QED
    BY <1>1, <2>2 DEF Goal
<1>4. ASSUME NEW w \in Workers, NEW k \in Jobs, ClaimJob(w, k) PROVE Goal
  <2>1. row'[j] = row[j]
    BY <1>0, <1>4 DEF ClaimJob, Claimable
  <2> QED
    BY <1>1, <2>1
<1>5. ASSUME NEW w \in Workers, PipelineStage(w) \/ WorkflowCompletes(w) PROVE Goal
  <2>1. job[w] \in Jobs
    BY <1>0, <1>5 DEF PipelineStage, WorkflowCompletes, Executing
  <2>2. row'[j] = row[j] \/ (\E s \in Status : row'[j] = WithStatus(row[j], s))
    BY <1>0, <1>5, <2>1 DEF PipelineStage, WorkflowCompletes, Status
  <2>3. \A s \in Status : /\ WithStatus(row[j], s).queue = "running"
                          /\ WithStatus(row[j], s).lease = row[j].lease
    BY <1>0 DEF WithStatus, Row
  <2> QED
    BY <1>1, <2>2, <2>3 DEF Goal
<1>6. ASSUME NEW w \in Workers, WriteFailure(w) \/ CompleteJob(w) PROVE Goal
  <2>1. job[w] \in Jobs /\ phase[w] \in Executing
    BY <1>0, <1>6 DEF WriteFailure, CompleteJob, Executing
  <2>2. CASE job[w] # j
    BY <1>0, <1>1, <1>6, <2>2 DEF WriteFailure, CompleteJob
  <2>3. CASE job[w] = j
    <3>1. phase'[w] \notin Executing
      BY <1>0, <1>6 DEF WriteFailure, CompleteJob, LeaveJob, Executing
    <3>2. LeavesJob(w, j)
      BY <2>1, <2>3, <3>1 DEF LeavesJob, Executes
    <3>3. row'[j] = FailedRow(row[j], verdict[w])
              \/ row'[j] = Released(row[j], "completed", "completed")
      BY <1>0, <1>6, <2>3 DEF WriteFailure, CompleteJob
    <3>4. row'[j].lease = NoLease
      BY <1>0, <3>3 DEF FailedRow, Released, Row
    <3> QED
      BY <3>2, <3>4 DEF Goal
  <2> QED
    BY <2>2, <2>3
<1>7. ASSUME NEW w \in Workers, RenewLease(w) PROVE Goal
  <2>1. renewer[w] = "on" /\ renewIn[w] = 0
        /\ row' = [row EXCEPT ![job[w]] = RenewedRow(@, w)]
    BY <1>7 DEF RenewLease
  <2>2. CASE job[w] # j
    BY <1>0, <1>1, <2>1, <2>2
  <2>3. CASE job[w] = j
    <3>1. row'[j] = RenewedRow(row[j], w)
      BY <1>0, <2>1, <2>3
    <3>2. row'[j].queue = "running" /\ (row[j].lockedBy = w \/ row'[j] = row[j])
      BY <1>0, <3>1 DEF RenewedRow, Row
    <3> QED
      BY <1>1, <2>1, <2>3, <3>2 DEF Goal
  <2> QED
    BY <2>2, <2>3
<1>8. CASE Tick
  <2>1. row'[j] = TickedRow(row[j])
    BY <1>8 DEF Tick
  <2>2. row'[j].queue = "running" /\ row'[j].lease \in {row[j].lease, row[j].lease - 1}
    BY <1>0, <2>1 DEF TickedRow, Row
  <2> QED
    BY <2>2 DEF Goal
<1>9. ASSUME NEW w \in Workers,
             \/ ClaimNothing(w) \/ WorkflowReplays(w) \/ ReadFailureBudget(w)
             \/ \E class \in {"retryable", "terminal"} : WorkflowRaises(w, class)
             \/ RenewerDies(w) \/ Stall(w) \/ Resume(w) \/ Crash(w) \/ Restart(w)
      PROVE  row'[j] = row[j]
  BY <1>9 DEF ClaimNothing, WorkflowReplays, ReadFailureBudget, WorkflowRaises, RenewerDies,
              Stall, Resume, Crash, Restart
<1>10. CASE UNCHANGED vars
  BY <1>1, <1>10 DEF vars
<1> QED
  BY <1>1, <1>2, <1>3, <1>4, <1>5, <1>6, <1>7, <1>8, <1>9, <1>10 DEF Next, WorkerStep

\* A live lease ends only with the worker that executes the job or with an operator's
\* request: recovery by another worker leaves it alone, whatever has happened before.
THEOREM LiveLeasesKept == Spec => LiveLeaseRespected
<1> DEFINE Kept(j) ==
      row[j].queue = "running" /\ row[j].lease >= 0 /\ row'[j].queue # "running"
      => \/ \E w \in Workers : Executes(w, j) /\ ~Executes(w, j)'
         \/ \E o \in Operators : op[o].job = j /\ op'[o] = Idle
<1>1. ASSUME TypeOK, [Next]_vars, NEW j \in Jobs PROVE Kept(j)
  BY <1>1, RunningRow DEF LeavesJob, Expired
<1>2. TypeOK /\ [Next]_vars => [\A j \in Jobs : Kept(j)]_vars
  BY <1>1
<1> QED
  BY <1>2, TypeCorrect, PTL DEF Spec, LiveLeaseRespected

\* A renewer task runs only while its worker has a job.
RenewersExecute == \A w \in Workers : renewer[w] # "off" => phase[w] \in Executing

LEMMA RenewersStep ==
    ASSUME TypeOK, RenewersExecute, [Next]_vars
    PROVE  RenewersExecute'
<1>0. phase \in [Workers -> Phase] /\ renewer \in [Workers -> {"off", "on", "stalled", "dead"}]
  BY DEF TypeOK
<1>1. CASE Handlers \/ Tick \/ UNCHANGED vars
  BY <1>1 DEF Handlers, CreateJob, PreviewJob, BeginRequest, SubmitDraft, CancelJob, RetryJob,
              EndRequest, Tick, vars, workerVars, RenewersExecute
<1>2. ASSUME NEW w \in Workers,
             RecoverLeases(w) \/ ClaimNothing(w) \/ Restart(w)
      PROVE  RenewersExecute'
  BY <1>0, <1>2 DEF RecoverLeases, ClaimNothing, Restart, RenewersExecute, Executing
<1>3. ASSUME NEW w \in Workers, NEW j \in Jobs, ClaimJob(w, j) PROVE RenewersExecute'
  BY <1>0, <1>3 DEF ClaimJob, RenewersExecute, Executing
<1>4. ASSUME NEW w \in Workers,
             \/ PipelineStage(w) \/ WorkflowCompletes(w) \/ WorkflowReplays(w)
             \/ ReadFailureBudget(w)
             \/ \E class \in {"retryable", "terminal"} : WorkflowRaises(w, class)
      PROVE  RenewersExecute'
  BY <1>0, <1>4 DEF PipelineStage, WorkflowCompletes, WorkflowReplays, ReadFailureBudget,
                    WorkflowRaises, workerVars, RenewersExecute, Executing
<1>5. ASSUME NEW w \in Workers, WriteFailure(w) \/ CompleteJob(w) \/ Crash(w)
      PROVE  RenewersExecute'
  BY <1>0, <1>5 DEF WriteFailure, CompleteJob, LeaveJob, Crash, RenewersExecute
<1>6. ASSUME NEW w \in Workers, RenewLease(w) \/ RenewerDies(w) \/ Stall(w) \/ Resume(w)
      PROVE  RenewersExecute'
  BY <1>0, <1>6 DEF RenewLease, RenewerDies, Stall, Resume, RenewersExecute
<1> QED
  BY <1>1, <1>2, <1>3, <1>4, <1>5, <1>6 DEF Next, WorkerStep

\* A lease that gets longer is that of a worker that executes the job, named in locked_by
\* and due: a worker whose row was given to another never keeps the row alive.
THEOREM OwnersRenew == Spec => OnlyOwnerRenews
<1> DEFINE Renewed(j) ==
      row[j].queue = "running" /\ row'[j].lease > row[j].lease
      => Executes(row[j].lockedBy, j) /\ renewIn[row[j].lockedBy] = 0
<1>1. ASSUME TypeOK, RenewersExecute, [Next]_vars, NEW j \in Jobs PROVE Renewed(j)
  <2>1. row[j].lease \in NoLease..LeaseSeconds /\ LeaseSeconds \in Nat
    BY <1>1, JobQueueAssumption DEF TypeOK, Row
  <2> SUFFICES ASSUME row[j].queue = "running", row'[j].lease > row[j].lease
               PROVE  Executes(row[j].lockedBy, j) /\ renewIn[row[j].lockedBy] = 0
    OBVIOUS
  <2>2. \E w \in Workers : /\ renewer[w] = "on" /\ renewIn[w] = 0 /\ job[w] = j
                           /\ row[j].lockedBy = w
    BY <1>1, <2>1, RunningRow DEF NoLease, Expired
  <2> QED
    BY <1>1, <2>2 DEF RenewersExecute, Executes
<1>2. TypeOK /\ RenewersExecute /\ [Next]_vars => [\A j \in Jobs : Renewed(j)]_vars
  BY <1>1
<1>3. Init => RenewersExecute
  BY DEF Init, RenewersExecute
<1>4. TypeOK /\ RenewersExecute /\ [Next]_vars => RenewersExecute'
  BY RenewersStep
<1>5. Spec => []RenewersExecute
  BY <1>3, <1>4, TypeCorrect, PTL DEF Spec
<1> QED
  BY <1>2, <1>5, TypeCorrect, PTL DEF Spec, OnlyOwnerRenews
=============================================================================
