--------------------------- MODULE PipelineResume ---------------------------
(***************************************************************************)
(* One job's pipeline from validating_project to the evaluation of its two *)
(* distilled prompts (workers/distillation_worker.py, _run), as it is run, *)
(* interrupted at any await, and run again from the top by the next claim. *)
(* What survives an interruption is what was committed: the rows a stage   *)
(* writes and its stage_markers.  Everything else is local to a run.       *)
(*                                                                         *)
(* Stages are numbered in the order of _run; the per-strategy stages are   *)
(* two stages each (dbscan, then hdbscan).  One item stands for a case of  *)
(* a split, or for a cluster and the rules synthesized from it; one row    *)
(* for all the rules one model answer yields.  Clustering is taken to give *)
(* the same clusters to the same rules.  The baseline variants that ask    *)
(* the student are the same loop one after another under one marker: they  *)
(* are one stage, and the embedding variants, which rewrite their rows     *)
(* without a call per case, are one pass of the embedding model and part   *)
(* of its writes.  No embedding is stored: a run computes them again.      *)
(***************************************************************************)
EXTENDS Integers

CONSTANTS
    Executors,          \* runs of the pipeline that may overlap
    NumCases,           \* cases of the extraction split, and of the evaluation split
    NumClusters,        \* clusters each algorithm finds when there are rules
    LastStage,          \* the stage a run ends with: 15, or fewer for overlapping runs
    MaxInterruptions    \* bound on crashes and provider errors

Cases == 1..NumCases

ASSUME PipelineAssumption ==
    /\ NumCases \in Nat \ {0}
    /\ NumClusters \in Nat
    /\ LastStage \in 1..15
    /\ MaxInterruptions \in Nat

Validating == 1
Extracting == 2
Embedding == 3
Clustering == 4
Synthesizing == {5, 6}
Reviewing == {7, 8}
Pruning == {9, 10}
Compiling == {11, 12}
Baseline == 13
Evaluating == {13, 14, 15}
Stages == 1..15

\* Overlapping runs are modelled up to clustering_rules.
ASSUME OverlapAssumption ==
    (\A e, f \in Executors : e = f) \/ LastStage <= Clustering

\* The stages that commit one model answer at a time, and mark each of them.
AnswerStages == {Extracting} \cup Synthesizing \cup Reviewing

Items == 1..(IF NumCases > NumClusters THEN NumCases ELSE NumClusters)

\* <<k, 0>> is stage k itself, <<k, i>> its item i.
Units == Stages \X (Items \cup {0})

VARIABLES
    marks,      \* rows of stage_markers, per unit
    rows,       \* rows written for a unit
    calls,      \* model calls made for an item, embedding passes made in a stage
    run,        \* each executor's run of the pipeline
    error,      \* the error of a run that failed on what an earlier one left
    budget      \* interruptions left

vars == <<marks, rows, calls, run, error, budget>>
tables == <<marks, rows, calls>>

-----------------------------------------------------------------------------

Steps == {"off", "embedrules", "check", "items", "called", "embedcases", "evalrun",
          "write", "markread", "markinsert", "done"}

\* todo is the list of items a run computed on entering its stage.
Run == [step: Steps, stage: Stages, todo: SUBSET Items, item: Items \cup {0}]

NoRun == [step |-> "off", stage |-> Validating, todo |-> {}, item |-> 0]

TypeOK ==
    /\ marks \in [Units -> Nat]
    /\ rows \in [Units -> Nat]
    /\ calls \in [Units -> Nat]
    /\ run \in [Executors -> Run]
    /\ error \in {"none", "duplicate_key", "multiple_markers"}
    /\ budget \in 0..MaxInterruptions

Init ==
    /\ marks = [u \in Units |-> 0]
    /\ rows = [u \in Units |-> 0]
    /\ calls = [u \in Units |-> 0]
    /\ run = [e \in Executors |-> NoRun]
    /\ error = "none"
    /\ budget = MaxInterruptions

\* The unit a run is at: its stage, or the item in hand.
At(e) == <<run[e].stage, run[e].item>>

Goto(e, step) == run' = [run EXCEPT ![e].step = step]

\* get_micro_rules_for_job finds rules.
HasRules == \E c \in Cases : rows[<<Extracting, c>>] > 0

\* cluster_dbscan and cluster_hdbscan: no micro rules, no clusters.
Clusters == IF HasRules THEN 1..NumClusters ELSE {}

\* Mutant: a resume that does not read the rows of earlier runs.
ToDoFromMarkers(k) ==
    IF k = Extracting THEN Cases
    ELSE IF k \in Synthesizing THEN Clusters
    ELSE IF k \in Reviewing THEN {i \in Clusters : rows[<<k - 2, i>>] > 0}
    ELSE IF k \in Evaluating THEN {c \in Cases : rows[<<k, c>>] = 0}
    ELSE {}

\* The items a run takes up on entering stage k: extraction and evaluation leave
\* out what has rows already, the review reads the synthesized rules.
ToDo(k) ==
    IF k = Extracting \/ k \in Evaluating THEN {c \in Cases : rows[<<k, c>>] = 0}
    ELSE IF k \in Synthesizing THEN Clusters
    ELSE IF k \in Reviewing THEN {i \in Clusters : rows[<<k - 2, i>>] > 0}
    ELSE {}

-----------------------------------------------------------------------------
(* A run *)

Begin(e) ==
    /\ run[e].step = "off"
    /\ run' = [run EXCEPT ![e] = [NoRun EXCEPT !.step = "check"]]
    /\ UNCHANGED <<tables, error, budget>>

Fail(e, reason) ==
    /\ run' = [run EXCEPT ![e] = NoRun]
    /\ error' = reason
    /\ UNCHANGED <<tables, budget>>

\* The rules are embedded before the marker of embedding_rules is looked at.
FirstStep(k) == IF k = Embedding THEN "embedrules" ELSE "check"

\* Mutant: the end of the chain off by one.
AdvancedPast(r) ==
    IF r.stage > LastStage THEN [r EXCEPT !.step = "done"]
    ELSE [r EXCEPT !.stage = @ + 1, !.step = FirstStep(r.stage + 1)]

Advanced(r) ==
    IF r.stage >= LastStage THEN [r EXCEPT !.step = "done"]
    ELSE [r EXCEPT !.stage = @ + 1, !.step = FirstStep(r.stage + 1)]

\* Mutant: break instead of continue in the loops over the two strategies.
SkippedByBreak(r) ==
    IF r.stage \in {5, 7, 9, 11} THEN [r EXCEPT !.stage = @ + 2] ELSE Advanced(r)

\* A stage that is complete is passed over.
Skipped(r) == Advanced(r)

\* The count of passes stops where it exceeds one for each run there can be.
Embed(e, next) ==
    /\ calls' = [calls EXCEPT ![At(e)] = IF @ > 1 + MaxInterruptions THEN @ ELSE @ + 1]
    /\ Goto(e, next)
    /\ UNCHANGED <<marks, rows, error, budget>>

\* embed_texts over the rules: every run that gets past extraction calls it, the
\* stage marked or not, and keeps the answer to itself.
EmbedRules(e) ==
    /\ run[e].step = "embedrules"
    /\ \/ HasRules /\ Embed(e, "check")
       \/ ~HasRules /\ Goto(e, "check") /\ UNCHANGED <<tables, error, budget>>

\* is_stage_complete of a stage: scalar_one_or_none raises on two markers.
CheckStage(e) ==
    LET k == run[e].stage
        n == marks[<<k, 0>>]
    IN  /\ run[e].step = "check"
        /\ \/ n > 1 /\ Fail(e, "multiple_markers")
           \/ /\ n <= 1
              /\ run' = [run EXCEPT ![e] =
                    IF n = 1 THEN Skipped(@)
                    ELSE [@ EXCEPT !.step = "items", !.todo = ToDo(k)]]
              /\ UNCHANGED <<tables, error, budget>>

IsFirst(i, S) == i \in S /\ \A j \in S : i <= j

\* Mutant: a skip that takes a missing marker for a present one.
SkipAny(e, i) ==
    /\ run[e].step = "items" /\ IsFirst(i, run[e].todo)
    /\ run' = [run EXCEPT ![e].todo = @ \ {i}]
    /\ UNCHANGED <<tables, error, budget>>

\* The next item is skipped if it is marked ...
SkipItem(e, i) ==
    LET n == marks[<<run[e].stage, i>>]
    IN  /\ run[e].step = "items" /\ IsFirst(i, run[e].todo)
        /\ \/ n > 1 /\ Fail(e, "multiple_markers")
           \/ /\ n = 1
              /\ run' = [run EXCEPT ![e].todo = @ \ {i}]
              /\ UNCHANGED <<tables, error, budget>>

Call(e, i) ==
    /\ run[e].step = "items" /\ IsFirst(i, run[e].todo)
    /\ calls' = [calls EXCEPT ![<<run[e].stage, i>>] = @ + 1]
    /\ run' = [run EXCEPT ![e].step = "called", ![e].item = i]
    /\ UNCHANGED <<marks, rows, error, budget>>

\* Mutant: the item markers are written but not read.
CallUnchecked(e, i) == Call(e, i)

\* ... and costs a model call if it is not.
CallItem(e, i) == marks[<<run[e].stage, i>>] = 0 /\ Call(e, i)

NextItem(r) == [r EXCEPT !.step = "items", !.todo = @ \ {r.item}, !.item = 0]

\* Extraction commits the rules of a case, if it has any, before its marker.
WriteMicroRules(e, n) ==
    /\ run[e].step = "called" /\ run[e].stage = Extracting
    /\ rows' = [rows EXCEPT ![At(e)] = @ + n]
    /\ Goto(e, "markread")
    /\ UNCHANGED <<marks, calls, error, budget>>

\* Mutant: a synthesis that commits its rules before the marker.
WriteRulesFirst(e, n) ==
    /\ run[e].step = "called" /\ run[e].stage \in Synthesizing \cup Reviewing
    /\ rows' = [rows EXCEPT ![At(e)] = @ + n]
    /\ Goto(e, "markread")
    /\ UNCHANGED <<marks, calls, error, budget>>

\* Synthesis and review write their rows in the transaction of the marker.
WriteWithMarker(e, n) ==
    /\ run[e].step = "called" /\ run[e].stage \in Synthesizing \cup Reviewing
    /\ run[e].stage \in Reviewing => n = 1
    /\ rows' = [rows EXCEPT ![At(e)] = @ + n]
    /\ marks' = [marks EXCEPT ![At(e)] = @ + 1]
    /\ run' = [run EXCEPT ![e] = NextItem(@)]
    /\ UNCHANGED <<calls, error, budget>>

\* upsert_eval_case_result: the row of a case is inserted, or updated.
UpsertCaseResult(e) ==
    /\ run[e].step = "called" /\ run[e].stage \in Evaluating
    /\ rows' = [rows EXCEPT ![At(e)] = 1]
    /\ run' = [run EXCEPT ![e] = NextItem(@)]
    /\ UNCHANGED <<marks, calls, error, budget>>

\* No item is left.
EndItems(e) ==
    LET k == run[e].stage
    IN  /\ run[e].step = "items" /\ run[e].todo = {}
        /\ Goto(e, IF k \in AnswerStages THEN "markread"
                   ELSE IF k = Baseline THEN "embedcases"
                   ELSE IF k \in Evaluating THEN "evalrun" ELSE "write")
        /\ UNCHANGED <<tables, error, budget>>

\* embed_texts over the labelled training cases, if there are any, and the evaluation
\* cases, for centroid and kNN: a pass of every run that finds the baseline unmarked.
EmbedCases(e) ==
    /\ run[e].step = "embedcases"
    /\ \/ Embed(e, "evalrun")
       \/ Goto(e, "evalrun") /\ UNCHANGED <<tables, error, budget>>

\* _insert_eval_run_if_missing, its read.
CheckEvalRun(e) ==
    /\ run[e].step = "evalrun"
    /\ Goto(e, IF rows[At(e)] > 0 THEN "markread" ELSE "write")
    /\ UNCHANGED <<tables, error, budget>>

\* The rows of a stage without items.  The cases have keys made from their ids,
\* the clusters and prompts fresh uuids; pruning rewrites columns.
Written(k) ==
    IF k = Embedding \/ (k = Clustering /\ Clusters = {}) THEN rows[<<k, 0>>]
    ELSE IF k \in Pruning THEN 1
    ELSE rows[<<k, 0>>] + 1

\* Mutant: clusters that are keyed by their content.
KeyExistsClusters(e) == run[e].stage \in {Validating, Clustering} /\ rows[At(e)] > 0

KeyExists(e) == run[e].stage = Validating /\ rows[At(e)] > 0

WriteArtifact(e) ==
    /\ run[e].step = "write"
    /\ \/ KeyExists(e) /\ Fail(e, "duplicate_key")
       \/ /\ ~KeyExists(e)
          /\ rows' = [rows EXCEPT ![At(e)] = Written(run[e].stage)]
          /\ Goto(e, "markread")
          /\ UNCHANGED <<marks, calls, error, budget>>

\* mark_stage_complete has handled the unit: the next item, or the next stage.
Marked(r) == IF r.item = 0 THEN Advanced(r) ELSE NextItem(r)

\* mark_stage_complete: the select ...
MarkRead(e) ==
    LET n == marks[At(e)]
    IN  /\ run[e].step = "markread"
        /\ \/ n > 1 /\ Fail(e, "multiple_markers")
           \/ /\ n <= 1
              /\ run' = [run EXCEPT ![e] =
                    IF n = 1 THEN Marked(@) ELSE [@ EXCEPT !.step = "markinsert"]]
              /\ UNCHANGED <<tables, error, budget>>

\* ... and the insert.  A NULL in strategy or artifact_type, which every marker
\* written here has, exempts the row from uq_stage_marker.
MarkInsert(e) ==
    /\ run[e].step = "markinsert"
    /\ marks' = [marks EXCEPT ![At(e)] = @ + 1]
    /\ run' = [run EXCEPT ![e] = Marked(@)]
    /\ UNCHANGED <<rows, calls, error, budget>>

\* A crash, a provider error, a cancelled task: the open transaction is lost.
Interrupt(e) ==
    /\ run[e].step \notin {"off", "done"}
    /\ budget > 0
    /\ budget' = budget - 1
    /\ run' = [run EXCEPT ![e] = NoRun]
    /\ UNCHANGED <<tables, error>>

-----------------------------------------------------------------------------

Step(e) ==
    \/ Begin(e) \/ EmbedRules(e) \/ CheckStage(e) \/ EmbedCases(e)
    \/ \E i \in Items : SkipItem(e, i) \/ CallItem(e, i)
    \/ \E n \in {0, 1} : WriteMicroRules(e, n) \/ WriteWithMarker(e, n)
    \/ UpsertCaseResult(e) \/ EndItems(e) \/ CheckEvalRun(e)
    \/ WriteArtifact(e) \/ MarkRead(e) \/ MarkInsert(e)

Next == \E e \in Executors : Step(e) \/ Interrupt(e)

Spec == Init /\ [][Next]_vars

\* An interrupted job is claimed again (JobQueue), and a run goes on.
FairSpec == Spec /\ \A e \in Executors : WF_vars(Step(e))

-----------------------------------------------------------------------------
(* Properties *)

Settled(u) == rows[u] > 0 \/ marks[u] > 0

\* A marked stage has left nothing out: every case has its rules or its marker,
\* every cluster its synthesis, every synthesized rule its review, every case
\* of the evaluation its result, and the rows of the stage itself are there.
\* No later run looks again at a stage that is marked.
MarkedMeansComplete ==
    \A k \in Stages : marks[<<k, 0>>] > 0 =>
        /\ k = Extracting \/ k \in Evaluating => \A c \in Cases : Settled(<<k, c>>)
        /\ k \in Synthesizing => \A i \in Clusters : marks[<<k, i>>] > 0
        /\ k \in Reviewing =>
              \A i \in Clusters : rows[<<k - 2, i>>] > 0 => marks[<<k, i>>] > 0
        /\ k \in {Validating} \cup Pruning \cup Compiling \cup Evaluating => rows[<<k, 0>>] > 0

\* Every stage is safe to rerun: no run fails on what an earlier one has left.
RerunsAreSafe == error = "none"

\* A retry leaves no duplicate records: a stage writes its clusters, its prompt
\* version or its eval run once.
NoDuplicateRecords == \A k \in Stages : rows[<<k, 0>>] <= 1

\* A stage or an item has one marker.
MarkersUnique == \A u \in Units : marks[u] <= 1
=============================================================================
