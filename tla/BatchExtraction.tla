--------------------------- MODULE BatchExtraction ---------------------------
(***************************************************************************)
(* The extraction of a job in one call of _run (workers/                   *)
(* distillation_worker.py), by a provider batch or case by case, and the   *)
(* usage records it leaves.  A phase of the pipeline is one such call; it  *)
(* keeps its place, its work list and its collector in memory.  What it    *)
(* has committed is in the tables, and the batch is at the provider.       *)
(* StageWorkflow runs the phases one after another.                        *)
(***************************************************************************)
EXTENDS Integers, Sequences, FiniteSets

CONSTANTS
    Cases,          \* cases of the extraction split
    MinItems        \* the values of batch_min_items looked at

ASSUME BatchAssumption == IsFiniteSet(Cases) /\ MinItems \subseteq Nat

Evaluations == {"baseline", "dbscan", "hdbscan"}

\* What is paid for and recorded: a case, or the one call that stands for the
\* calls of a later stage; "cases" stands for the rows of the request's cases.
Keys == Cases \cup {"cases", "embed", "synth", "refine"} \cup Evaluations

StageMarks == {"validated", "submitted", "collected", "extracting", "compiled", "completed"}
                  \cup Evaluations

ASSUME NamesAssumption == Cases \cap ({"cases", "embed", "synth", "refine"} \cup StageMarks) = {}

VARIABLES
    config,     \* batching on or off, and batch_min_items
    batches,    \* batches at the provider, in order of submission
    saved,      \* the row of batch_jobs: its batch, 0 if there is none, and its status
    marks,      \* stage_markers; a case is marked under extracting_rules
    rows,       \* rows committed for a key
    calls,      \* model calls paid for, per key
    events,     \* rows of model_call_events, per key
    ph          \* the phase under way

tables == <<saved, marks, rows>>

Phases == {"validate", "submit", "poll", "collect", "compile", "aggregate"} \cup Evaluations

Places == {"off", "enter", "validated", "submit", "save", "inline", "collect", "item", "itemmark",
           "marked", "sequential", "answered", "casemark", "embed", "synth",
           "synthesized", "evaluate", "evaluated", "evalmark", "aggregate", "persist", "end"}

Phase == [name: Phases, at: Places, todo: SUBSET Cases, item: SUBSET Cases,
          records: SUBSET Keys]

NoPhase == [name |-> "validate", at |-> "off", todo |-> {}, item |-> {}, records |-> {}]

\* An item comes back with rules or without, in error, or not at all.
Outcomes == {"rules", "empty", "errored", "missing"}

Batch == [items: SUBSET Cases, ended: {"no", "completed", "failed", "expired"},
          outcome: [Cases -> Outcomes]]

-----------------------------------------------------------------------------
(* The provider's side of a batch *)

Submitted(S) == [items |-> S, ended |-> "no", outcome |-> [c \in Cases |-> "missing"]]

\* The provider finishes the batch the job knows of; one whose id was lost is not
\* looked at again.  A batch that failed or expired may lack any item.
EndBatch(i) ==
    /\ i = saved.batch /\ batches[i].ended = "no"
    /\ \E how \in {"completed", "failed", "expired"}, out \in [Cases -> Outcomes] :
          /\ \A c \in Cases : c \notin batches[i].items => out[c] = "missing"
          /\ how = "completed" => \A c \in batches[i].items : out[c] # "missing"
          /\ how = "failed" => \A c \in Cases : out[c] = "missing"
          /\ batches' = [batches EXCEPT ![i].ended = how, ![i].outcome = out]
    /\ UNCHANGED <<config, tables, calls, events, ph>>

\* collect_batch: the items of the output file and of the error file.
Returned(b) == {c \in b.items : b.outcome[c] # "missing"}
Succeeded(b) == {c \in b.items : b.outcome[c] \in {"rules", "empty"}}

\* The status collect_batch gives the result.
ResultStatus(b) ==
    IF b.ended \in {"expired", "failed"} THEN b.ended
    ELSE IF Returned(b) # Succeeded(b) THEN "partial" ELSE "completed"

-----------------------------------------------------------------------------
(* The phase *)

At(place) == ph.at = place
Goto(place) == ph' = [ph EXCEPT !.at = place]

TheBatch == batches[saved.batch]

\* Cases with neither micro rules nor a marker.
Pending == {c \in Cases : rows[c] = 0 /\ c \notin marks}

\* _use_extraction_batch after the threshold has been looked at.
UseBatch == config.batch /\ ("submitted" \in marks \/ Cardinality(Pending) >= config.min)

\* Mutant: both phases of a batch return after extraction.
AfterExtractionReturn == IF ph.name \in {"submit", "collect"} THEN "end" ELSE "embed"

\* Where extraction leads: the submit phase returns, the others go on to embedding.
AfterExtraction == IF ph.name = "submit" THEN "end" ELSE "embed"

EnterSequential ==
    /\ ~UseBatch /\ "extracting" \notin marks
    /\ ph' = [ph EXCEPT !.at = "sequential", !.todo = {c \in Cases : rows[c] = 0}]

\* Mutant: the marker of the submission is not read.
EnterSubmitUnmarked ==
    /\ UseBatch
    /\ ph' = [ph EXCEPT !.at = "submit", !.todo = Pending]

EnterSubmit ==
    /\ UseBatch /\ "submitted" \notin marks
    /\ ph' = [ph EXCEPT !.at = "submit", !.todo = Pending]

EnterCollect ==
    /\ UseBatch /\ "submitted" \in marks /\ "collected" \notin marks
    /\ ph.name # "submit"
    /\ Goto(IF saved.batch = 0 THEN "embed" ELSE "inline")

\* Nothing to do, or a submit phase that finds the batch submitted.
PassExtraction ==
    /\ \/ ~UseBatch /\ "extracting" \in marks
       \/ UseBatch /\ "submitted" \in marks /\ (ph.name = "submit" \/ "collected" \in marks)
    /\ Goto(AfterExtraction)

EnterExtraction ==
    /\ At("enter") /\ ph.name \in {"submit", "collect", "compile"}
    /\ EnterSequential \/ EnterSubmit \/ EnterCollect \/ PassExtraction
    /\ UNCHANGED <<config, batches, tables, calls, events>>

\* submit_batch returns the id of a batch that will be paid for ...
SubmitBatch ==
    /\ At("submit")
    /\ batches' = Append(batches, Submitted(ph.todo))
    /\ calls' = [k \in Keys |-> IF k \in ph.todo THEN calls[k] + 1 ELSE calls[k]]
    /\ Goto("save")
    /\ UNCHANGED <<config, tables, events>>

\* Mutant: off by one.
NextBatch == Len(batches) + 1

\* The batch that was submitted last.
LatestBatch == Len(batches)

\* ... and its row is committed with the marker.
SaveBatch ==
    /\ At("save")
    /\ saved' = [batch |-> LatestBatch, status |-> "submitted"]
    /\ marks' = marks \cup {"submitted"}
    /\ ph' = [ph EXCEPT !.at = IF ph.name = "submit" THEN "end" ELSE "inline", !.todo = {}]
    /\ UNCHANGED <<config, batches, rows, calls, events>>

\* The poll loop of the collect path itself.
PollInline ==
    /\ At("inline") /\ TheBatch.ended # "no"
    /\ Goto("collect")
    /\ UNCHANGED <<config, batches, tables, calls, events>>

Collect ==
    /\ At("collect")
    /\ ph' = [ph EXCEPT !.at = "item", !.todo = Returned(TheBatch)]
    /\ UNCHANGED <<config, batches, tables, calls, events>>

\* Micro rules are committed before the marker of their case, and neither is read.
CollectItem(c) ==
    /\ At("item") /\ c \in ph.todo
    /\ IF c \in Succeeded(TheBatch)
       THEN ph' = [ph EXCEPT !.at = "itemmark", !.item = {c}]
       ELSE ph' = [ph EXCEPT !.todo = @ \ {c}]
    /\ rows' = [rows EXCEPT ![c] = @ + IF TheBatch.outcome[c] = "rules" THEN 1 ELSE 0]
    /\ UNCHANGED <<config, batches, saved, marks, calls, events>>

MarkItem ==
    /\ At("itemmark")
    /\ marks' = marks \cup ph.item
    /\ ph' = [ph EXCEPT !.at = "item", !.todo = @ \ ph.item, !.item = {}]
    /\ UNCHANGED <<config, batches, saved, rows, calls, events>>

\* Mutant: the stage is marked inside the loop over the items.
MarkExtractedEarly ==
    /\ At("item")
    /\ saved' = [saved EXCEPT !.status = ResultStatus(TheBatch)]
    /\ marks' = marks \cup {"extracting"}
    /\ Goto("marked")
    /\ UNCHANGED <<config, batches, rows, calls, events>>

\* The marker of extracting_rules commits the flushed row of the batch.
MarkExtracted ==
    /\ At("item") /\ ph.todo = {}
    /\ saved' = [saved EXCEPT !.status = ResultStatus(TheBatch)]
    /\ marks' = marks \cup {"extracting"}
    /\ Goto("marked")
    /\ UNCHANGED <<config, batches, rows, calls, events>>

MarkCollected ==
    /\ At("marked")
    /\ marks' = marks \cup {"collected"}
    /\ Goto(AfterExtraction)
    /\ UNCHANGED <<config, batches, saved, rows, calls, events>>

\* The sequential path: a case with rules or a marker is left out.
SkipCase(c) ==
    /\ At("sequential") /\ c \in ph.todo \cap marks
    /\ ph' = [ph EXCEPT !.todo = @ \ {c}]
    /\ UNCHANGED <<config, batches, tables, calls, events>>

\* A paid call under a tracking context: its record is in memory.
Record(k) == calls' = [calls EXCEPT ![k] = @ + 1]

ExtractCase(c) ==
    /\ At("sequential") /\ c \in ph.todo \ marks
    /\ Record(c)
    /\ ph' = [ph EXCEPT !.at = "answered", !.item = {c}, !.records = @ \cup {c}]
    /\ UNCHANGED <<config, batches, tables, events>>

WriteAnswer(n) ==
    /\ At("answered")
    /\ rows' = [k \in Keys |-> IF k \in ph.item THEN rows[k] + n ELSE rows[k]]
    /\ Goto("casemark")
    /\ UNCHANGED <<config, batches, saved, marks, calls, events>>

MarkCase ==
    /\ At("casemark")
    /\ marks' = marks \cup ph.item
    /\ ph' = [ph EXCEPT !.at = "sequential", !.todo = @ \ ph.item, !.item = {}]
    /\ UNCHANGED <<config, batches, saved, rows, calls, events>>

EndSequential ==
    /\ At("sequential") /\ ph.todo = {}
    /\ marks' = marks \cup {"extracting"}
    /\ Goto(AfterExtraction)
    /\ UNCHANGED <<config, batches, saved, rows, calls, events>>

\* Embeddings are asked for whenever there are rules, markers or not.
Embed ==
    /\ At("embed")
    /\ IF \E c \in Cases : rows[c] > 0
       THEN /\ Record("embed")
            /\ ph' = [ph EXCEPT !.at = "synth", !.records = @ \cup {"embed"}]
       ELSE Goto("synth") /\ UNCHANGED calls
    /\ UNCHANGED <<config, batches, tables, events>>

\* Mutant: the collector is not persisted when the compile phase ends.
AfterCompilingEnd == "end"

\* Only the phase compile_prompts persists its collector; the collect phase ends.
AfterCompiling == IF ph.name = "compile" THEN "persist" ELSE "end"

\* The stages from clustering to compiled prompts, as one answer (PipelineResume).
Synthesize ==
    /\ At("synth")
    /\ IF "compiled" \in marks
       THEN Goto(AfterCompiling) /\ UNCHANGED calls
       ELSE /\ Record("synth")
            /\ ph' = [ph EXCEPT !.at = "synthesized", !.records = @ \cup {"synth"}]
    /\ UNCHANGED <<config, batches, tables, events>>

WriteSynthesis ==
    /\ At("synthesized")
    /\ rows' = [rows EXCEPT !["synth"] = @ + 1]
    /\ marks' = marks \cup {"compiled"}
    /\ Goto(AfterCompiling)
    /\ UNCHANGED <<config, batches, saved, calls, events>>

\* Mutant: the records of a phase are inserted whatever is stored.
InsertableAll(R) == R

\* bulk_insert_model_call_events: records whose key is stored already are dropped.
Insertable(R) == {k \in R : events[k] = 0}

\* _persist_collector_records.
Persist ==
    /\ At("persist")
    /\ events' = [k \in Keys |-> IF k \in Insertable(ph.records) THEN events[k] + 1 ELSE events[k]]
    /\ ph' = [ph EXCEPT !.at = "end", !.records = {}]
    /\ UNCHANGED <<config, batches, tables, calls>>

Extraction ==
    \/ EnterExtraction \/ SubmitBatch \/ SaveBatch \/ PollInline \/ Collect
    \/ \E c \in Cases : CollectItem(c) \/ SkipCase(c) \/ ExtractCase(c)
    \/ MarkItem \/ MarkExtracted \/ MarkCollected
    \/ \E n \in {0, 1} : WriteAnswer(n)
    \/ MarkCase \/ EndSequential \/ Embed \/ Synthesize \/ WriteSynthesis \/ Persist
=============================================================================
