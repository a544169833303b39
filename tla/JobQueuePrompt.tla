--------------------------- MODULE JobQueuePrompt ---------------------------
(***************************************************************************)
(* The queue under the conditions its design relies on: a live worker      *)
(* renews on time, the renewal interval fits in the lease, nobody cancels, *)
(* and UI requests come one at a time.  Workers still crash at any step.   *)
(* Under these conditions a claim is exclusive and the queue implements    *)
(* JobLifecycle; JobQueue's other runs show what each condition is for.    *)
(***************************************************************************)
EXTENDS JobQueue

ASSUME PromptAssumption ==
    /\ MaxFaults = 0
    /\ RenewInterval <= LeaseSeconds
    /\ "cancel" \notin OpKinds
    /\ \A o, q \in Operators : o = q

\* The row is the abstract job: queue_status is its state, attempt_count its starts.
Lifecycle == INSTANCE JobLifecycle WITH
    state <- [j \in Jobs |-> row[j].queue],
    attempts <- [j \in Jobs |-> row[j].attempts]

\* Every executor owns its row, and its lease outlasts the sleep before the
\* next renewal.
Held(w) ==
    LET r == row[job[w]]
    IN  /\ r.queue = "running" /\ r.lockedBy = w
        /\ r.lease >= renewIn[w]
        /\ renewer[w] = "on"
        /\ phase[w] = "failwrite" /\ verdict[w] = "requeue" => r.attempts < MaxAttempts

ExecutorsHold == \A w \in Workers : phase[w] \in Executing => Held(w)

IdleRenewersOff == \A w \in Workers : phase[w] \notin Executing => renewer[w] = "off"

FailedAgrees == \A j \in Jobs : row[j].status \in FailedStatus => row[j].queue = "failed"

RetriesOfFailed ==
    \A o \in Operators : op[o].kind = "retry" => row[op[o].job].queue = "failed"

\* The inductive invariant behind exclusive execution and the refinement: executors
\* hold their rows, a failed status is the queue's own, and a retry in flight
\* is of a row that is still failed.
PromptInv == ExecutorsHold /\ IdleRenewersOff /\ FailedAgrees /\ RetriesOfFailed

\* The queue's row-level transitions are exactly the lifecycle's.
ImplementsLifecycle == Lifecycle!Spec
=============================================================================
