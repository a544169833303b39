--------------------------- MODULE RefinementLoop ---------------------------
(***************************************************************************)
(* The closed loop that refines the selected rules (_run_refinement_loop   *)
(* in workers/distillation_worker.py): analyse, ask the teacher, prune,    *)
(* compile, evaluate, until the metric no longer rises.  Each iteration    *)
(* leaves a file; the rest is memory.  A set of rules is known by where it *)
(* comes from: 0 for the rules of the database, i + 1 for those of         *)
(* iteration i.  Metrics are numbers of equal steps.                       *)
(***************************************************************************)
EXTENDS Integers

CONSTANTS
    MaxIterations,  \* task.refinement_max_iterations
    Epsilon,        \* task.refinement_epsilon, in steps of the metric
    MaxScore        \* bound on the metric

ASSUME LoopAssumption == MaxIterations \in Nat /\ Epsilon \in Nat /\ MaxScore \in Nat

VARIABLES
    files,      \* refinement_iter_{n}.json
    bestFile,   \* the rules refinement_best_rules.json has, 0 if there is none
    loop        \* the loop in memory

Scores == 0..MaxScore
Versions == 0..MaxIterations
Iterations == 0..(MaxIterations - 1)

StopReasons == {"regression", "converged", "continue"}

IterationFile == [prior: Scores, new: Scores, stop: StopReasons]
NoFile == [prior |-> -1, new |-> -1, stop |-> "none"]

\* An evaluation: the rules the prompt was compiled from, and their metric.
Evaluation == [rules: Versions, score: Scores]

LoopPlaces == {"off", "iterate", "scored", "written", "end"}

Loop == [at: LoopPlaces, it: 0..MaxIterations, current: Scores, best: Evaluation,
         improved: BOOLEAN, new: Scores]

NoEvaluation == [rules |-> 0, score |-> 0]

NoLoop == [at |-> "off", it |-> 0, current |-> 0, best |-> NoEvaluation,
           improved |-> FALSE, new |-> 0]

\* The loop starts from the evaluation of the selected rules.
Started(eval) ==
    [at |-> "iterate", it |-> 0, current |-> eval.score, best |-> eval,
     improved |-> FALSE, new |-> 0]

LoopAt(place) == loop.at = place
LoopGoto(place) == loop' = [loop EXCEPT !.at = place]

HasFile(i) == files[i] # NoFile

\* No signals, no answer of the teacher, no actions, nothing left by pruning, a
\* prompt that does not compile or an evaluation that fails; or no iteration left.
Break ==
    /\ LoopAt("iterate")
    /\ loop.it < MaxIterations => ~HasFile(loop.it)
    /\ LoopGoto("end")
    /\ UNCHANGED <<files, bestFile>>

\* The revised and pruned rules are evaluated; but an iteration that has its file is
\* passed over: its metric is taken, its rules and its stop_reason are not.
Evaluate(s) ==
    /\ LoopAt("iterate") /\ loop.it < MaxIterations
    /\ loop' = IF HasFile(loop.it)
               THEN [loop EXCEPT !.it = @ + 1, !.current = files[loop.it].new]
               ELSE [loop EXCEPT !.at = "scored", !.new = s]
    /\ UNCHANGED <<files, bestFile>>

StopReason(new, current) ==
    IF new < current THEN "regression"
    ELSE IF new - current < Epsilon THEN "converged"
    ELSE "continue"

Verdict == StopReason(loop.new, loop.current)

WriteIteration ==
    /\ LoopAt("scored")
    /\ files' = [files EXCEPT ![loop.it] =
                     [prior |-> loop.current, new |-> loop.new, stop |-> Verdict]]
    /\ LoopGoto("written")
    /\ UNCHANGED bestFile

\* Mutant: off by one.
NextVersion == loop.it + 2

\* The rules of this iteration.
Version == loop.it + 1

\* Mutant: a regression stops the loop, and its rules are taken first.
JudgeTaken ==
    /\ LoopAt("written")
    /\ loop' = [loop EXCEPT !.at = IF Verdict = "continue" THEN "iterate" ELSE "end",
                            !.it = @ + 1, !.current = loop.new, !.improved = TRUE,
                            !.best = [rules |-> Version, score |-> loop.new]]
    /\ UNCHANGED <<files, bestFile>>

\* A regression ends the loop without its rules; else they are the best so far.
Judge ==
    /\ LoopAt("written")
    /\ IF Verdict = "regression" THEN LoopGoto("end")
       ELSE loop' = [loop EXCEPT !.at = IF Verdict = "continue" THEN "iterate" ELSE "end",
                                 !.it = @ + 1, !.current = loop.new, !.improved = TRUE,
                                 !.best = [rules |-> Version, score |-> loop.new]]
    /\ UNCHANGED <<files, bestFile>>

Iterate == Break \/ WriteIteration \/ Judge \/ \E s \in Scores : Evaluate(s)
=============================================================================
