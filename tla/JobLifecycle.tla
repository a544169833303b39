---------------------------- MODULE JobLifecycle ----------------------------
(***************************************************************************)
(* What the queue promises about a job, as the README and the backend      *)
(* design adjustment spec state it: a queued job is started by a claim, an *)
(* active one is completed, failed, or put back automatically while its    *)
(* claims are below the maximum; a completed job is final and a failed one *)
(* is put back only by a manual retry.  Several jobs may move in one step  *)
(* (one recovery pass settles every expired lease).                        *)
(***************************************************************************)
EXTENDS Naturals

CONSTANTS Jobs, MaxAttempts

VARIABLES state, attempts

State == {"absent", "pending", "running", "completed", "failed"}

Init ==
    /\ state = [j \in Jobs |-> "absent"]
    /\ attempts = [j \in Jobs |-> 0]

Moves(j, from, to) == state[j] = from /\ state'[j] = to

Stays(j)   == state'[j] = state[j] /\ attempts'[j] = attempts[j]
Enqueue(j) == Moves(j, "absent", "pending") /\ attempts'[j] = attempts[j]
Start(j)   == Moves(j, "pending", "running") /\ attempts'[j] = attempts[j] + 1
Finish(j)  == Moves(j, "running", "completed") /\ attempts'[j] = attempts[j]
Fail(j)    == Moves(j, "running", "failed") /\ attempts'[j] = attempts[j]
Retry(j)   == Moves(j, "failed", "pending") /\ attempts'[j] = attempts[j]
Requeue(j) == /\ Moves(j, "running", "pending")
              /\ attempts[j] < MaxAttempts
              /\ attempts'[j] = attempts[j]

Next ==
    \A j \in Jobs :
        Stays(j) \/ Enqueue(j) \/ Start(j) \/ Finish(j) \/ Fail(j) \/ Requeue(j) \/ Retry(j)

Spec == Init /\ [][Next]_<<state, attempts>>
=============================================================================
