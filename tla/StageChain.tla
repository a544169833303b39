----------------------------- MODULE StageChain -----------------------------
(***************************************************************************)
(* What a resumable pipeline promises (backend design adjustment spec, 7,  *)
(* and the README's section on resuming): stages complete one at a time    *)
(* and in order, a model's answer is recorded while its stage is the next  *)
(* one to complete, and what is complete or recorded stays so.             *)
(***************************************************************************)
EXTENDS Naturals

CONSTANTS Stages, Items, Cases, CaseStages

VARIABLES complete, answered

Init == complete = {} /\ answered = {}

IsNext(k) == k \notin complete /\ \A j \in Stages : j < k => j \in complete

\* A stage over cases completes when each of its cases has been answered.
Complete(k) ==
    /\ IsNext(k)
    /\ k \in CaseStages => \A c \in Cases : <<k, c>> \in answered
    /\ complete' = complete \cup {k}
    /\ UNCHANGED answered

Answer(k, i) ==
    /\ IsNext(k)
    /\ <<k, i>> \notin answered
    /\ answered' = answered \cup {<<k, i>>}
    /\ UNCHANGED complete

Next == \E k \in Stages : Complete(k) \/ \E i \in Items : Answer(k, i)

Spec == Init /\ [][Next]_<<complete, answered>>
=============================================================================
