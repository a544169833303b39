------------------------ MODULE StageWorkflow_proofs ------------------------
(***************************************************************************)
(* What the run of StageWorkflow shows, for any number of cases, of batch  *)
(* sizes and of faults.                                                    *)
(***************************************************************************)
EXTENDS StageWorkflow, FiniteSetTheorems, TLAPS

Extracting == {"submit", "collect", "compile"}

\* Names and places of a phase belong together, and DBOS's next step is the phase.
PhaseSound ==
    /\ wf.status = "PENDING" => wf.done < Len(Sequence)
    /\ ph.at # "off" =>
          running /\ wf.done < Len(Sequence) /\ ph.name = Sequence[wf.done + 1] /\ ph.name # "poll"
    /\ running => wf.status \in {"PENDING", "CANCELLED"} /\ claim # "down"
    /\ ph.at \in {"submit", "save", "inline", "collect", "item", "itemmark", "marked",
                  "sequential", "answered", "casemark"} => ph.name \in Extracting
    /\ ph.at \in {"embed", "synth", "synthesized"} => ph.name \in {"collect", "compile"}
    /\ ph.at \in {"inline", "collect", "item", "itemmark", "marked"} => ph.name # "submit"
    /\ ph.at \in {"evaluated", "evalmark"} => ph.name \in Evaluations
    /\ At("aggregate") => ph.name = "aggregate"
    /\ At("validated") => ph.name = "validate"
    /\ At("persist") => ph.name \in Evaluations \cup {"compile"}
    /\ \A k \in ph.records : calls[k] > 0

\* What a phase has marked where it is.
Progress ==
    /\ "collected" \in marks => "extracting" \in marks
    /\ ph.at \in {"embed", "synth", "synthesized", "marked"} => "extracting" \in marks
    /\ At("persist") /\ ph.name = "compile" => {"extracting", "compiled"} \subseteq marks
    /\ At("persist") /\ ph.name \in Evaluations => ph.name \in marks
    /\ At("end") =>
          /\ ph.name = "validate" => "validated" \in marks
          /\ ph.name = "submit" => "submitted" \in marks \/ "extracting" \in marks
          /\ ph.name \in {"collect", "compile"} => {"extracting", "compiled"} \subseteq marks
          /\ ph.name \in Evaluations => ph.name \in marks
          /\ ph.name = "aggregate" => "completed" \in marks

\* The row of batch_jobs, its marker and the batch at the provider.
BatchSound ==
    /\ "submitted" \in marks <=> saved.batch > 0
    /\ saved.batch > 0 => config.batch
    /\ saved.batch > 0 =>
          \A c \in Cases : c \in TheBatch.items \/ rows[c] > 0 \/ c \in marks
    /\ "collected" \in marks => saved.batch > 0
    /\ ph.at \in {"submit", "save"} => saved.batch = 0 /\ config.batch
    /\ At("submit") => ph.todo = Pending
    /\ At("save") => Len(batches) > 0 /\ batches[Len(batches)].items = Pending
    /\ ph.at \in {"inline", "collect", "item", "itemmark", "marked"} =>
          saved.batch > 0 /\ "collected" \notin marks
    /\ ph.at \in {"collect", "item", "itemmark", "marked"} => TheBatch.ended # "no"
    /\ ph.at \in {"item", "itemmark"} =>
          /\ \A c \in Succeeded(TheBatch) : c \in ph.todo \/ c \in marks
          /\ ph.todo \subseteq TheBatch.items
    /\ At("itemmark") => ph.item \subseteq ph.todo

\* The work list of the sequential path.
SequentialSound ==
    /\ ph.at \in {"sequential", "answered", "casemark"} =>
          /\ saved.batch = 0
          /\ \A c \in Cases : c \in ph.todo \/ rows[c] > 0 \/ c \in marks
          /\ \A c \in ph.todo \ ph.item : rows[c] = 0
          /\ ph.item \subseteq ph.todo \ marks
    /\ ph.at \notin {"answered", "casemark", "itemmark"} => ph.item = {}
    /\ At("answered") => \A c \in ph.item : rows[c] = 0

\* A case is left out by a finished extraction only when its item failed.
ExtractionSound ==
    "extracting" \in marks =>
        \/ Pending = {}
        \/ /\ saved.batch > 0 /\ TheBatch.ended # "no"
           /\ \A c \in Pending : c \in TheBatch.items \ Succeeded(TheBatch)

\* Paid for, or about to be recorded as paid for.
Bought(c) ==
    \/ rows[c] > 0 \/ c \in marks \/ saved.batch > 0
    \/ ph.at \in {"answered", "casemark"} /\ c \in ph.item
    \/ At("save") /\ c \in Pending

\* Rules of an item that the run at work, or the next one, will write.
ToCollect(c) ==
    /\ saved.batch > 0 /\ "collected" \notin marks /\ c \in TheBatch.items
    /\ ~At("marked") /\ (At("item") => c \in ph.todo) /\ (At("itemmark") => c \in ph.todo \ ph.item)

\* Each repetition has its fault.
RepeatSound ==
    /\ \A c \in Cases :
          /\ calls[c] <= faults + (IF Bought(c) THEN 1 ELSE 0)
          /\ rows[c] <= faults + (IF ToCollect(c) THEN 0 ELSE 1)
          /\ saved.batch = 0 => rows[c] <= 1
    /\ Len(batches) <= faults + (IF saved.batch > 0 \/ At("save") THEN 1 ELSE 0)
    /\ rows["synth"] <= (IF "compiled" \in marks THEN 1 ELSE 0)
    /\ At("synthesized") => "compiled" \notin marks

\* The inductive invariant.
WorkflowInv ==
    /\ TypeOK /\ PhaseSound /\ Progress /\ RecordedMeansMarked /\ UsageCountedOnce
    /\ BatchSound /\ SequentialSound /\ ExtractionSound /\ RepeatSound

-----------------------------------------------------------------------------
(* Sequences and types *)

\* The steps of a workflow with and without batching.
LEMMA SequenceFacts ==
    /\ config.batch => /\ Len(Sequence) = 8 /\ Sequence[1] = "validate" /\ Sequence[2] = "submit"
                       /\ Sequence[3] = "poll" /\ Sequence[4] = "collect"
                       /\ Sequence[5] = "baseline" /\ Sequence[6] = "dbscan"
                       /\ Sequence[7] = "hdbscan" /\ Sequence[8] = "aggregate"
    /\ ~config.batch => /\ Len(Sequence) = 6 /\ Sequence[1] = "validate" /\ Sequence[2] = "compile"
                        /\ Sequence[3] = "baseline" /\ Sequence[4] = "dbscan"
                        /\ Sequence[5] = "hdbscan" /\ Sequence[6] = "aggregate"
BY DEF Sequence

LEMMA SequenceType ==
    ASSUME TypeOK
    PROVE  /\ Len(Sequence) \in 1..8
           /\ \A i \in 1..Len(Sequence) : Sequence[i] \in Phases \cup {"poll"}
<1>1. CASE config.batch
  <2>1. \A i \in 1..8 : \/ i = 1 \/ i = 2 \/ i = 3 \/ i = 4
                          \/ i = 5 \/ i = 6 \/ i = 7 \/ i = 8
    OBVIOUS
  <2>2. Len(Sequence) = 8
    BY <1>1, SequenceFacts
  <2>3. ASSUME NEW i \in 1..8 PROVE Sequence[i] \in Phases \cup {"poll"}
    BY <1>1, <2>1, <2>3, SequenceFacts DEF Phases, Evaluations
  <2>4. QED BY <2>2, <2>3
<1>2. CASE ~config.batch
  BY <1>2, SequenceFacts DEF Phases, Evaluations
<1>3. QED BY <1>1, <1>2

LEMMA InvInit == Init => WorkflowInv
<1> SUFFICES ASSUME Init PROVE WorkflowInv
  OBVIOUS
<1>1. NoPhase \in Phase
  BY DEF NoPhase, Phase, Phases, Places
<1>2. /\ ph.at = "off" /\ ph.item = {} /\ ph.records = {} /\ wf.status = "none" /\ wf.done = 0
      /\ ~running /\ saved.batch = 0 /\ marks = {} /\ Len(batches) = 0
  BY DEF Init, NoPhase, NoWorkflow
<1>3. TypeOK
  <2>1. faults \in 0..MaxFaults /\ saved.batch <= Len(batches)
    BY <1>2, FaultAssumption DEF Init
  <2>2. wf \in [status: Statuses, done: 0..8] /\ running \in BOOLEAN
    <3>1. [status |-> "none", done |-> 0] \in [status: Statuses, done: 0..8]
      BY DEF Statuses
    <3>2. QED BY <3>1 DEF Init, NoWorkflow
  <2>3. batches \in Seq(Batch) /\ ph \in Phase
    BY <1>1 DEF Init
  <2>4. saved \in [batch: Nat, status: {"none", "submitted", "completed", "partial", "failed", "expired"}]
    BY DEF Init
  <2>5. rows \in [Keys -> Nat] /\ calls \in [Keys -> Nat] /\ events \in [Keys -> Nat]
    BY DEF Init
  <2>6. QED BY <2>1, <2>2, <2>3, <2>4, <2>5 DEF Init, TypeOK
<1>4. PhaseSound /\ Progress
  BY <1>2 DEF PhaseSound, Progress, At
<1>5. RecordedMeansMarked /\ UsageCountedOnce
  BY <1>2 DEF Init, RecordedMeansMarked, UsageCountedOnce
<1>6. BatchSound /\ SequentialSound /\ ExtractionSound
  BY <1>2 DEF BatchSound, SequentialSound, ExtractionSound, At
<1>7. RepeatSound
  <2>1. \A c \in Cases : calls[c] = 0 /\ rows[c] = 0
    BY DEF Init, Keys
  <2>2. rows["synth"] = 0 /\ faults = 0
    BY DEF Init, Keys
  <2>3. QED BY <1>2, <2>1, <2>2 DEF RepeatSound, At
<1>8. QED BY <1>3, <1>4, <1>5, <1>6, <1>7 DEF WorkflowInv

-----------------------------------------------------------------------------
(* What the steps of a phase have in common *)

\* The workflow waits for its phase.
InPhase == running /\ UNCHANGED <<config, wfvars>>

LEMMA RecordedFrame ==
    ASSUME WorkflowInv, UNCHANGED <<config, wfvars>>, marks \subseteq marks'
    PROVE  RecordedMeansMarked'
<1>1. Sequence' = Sequence
  BY DEF Sequence
<1>2. QED BY <1>1 DEF WorkflowInv, RecordedMeansMarked, wfvars

LEMMA UsageFrame ==
    ASSUME WorkflowInv, events' = events, \A k \in Keys : calls'[k] >= calls[k],
           calls' \in [Keys -> Nat]
    PROVE  UsageCountedOnce'
BY DEF WorkflowInv, TypeOK, UsageCountedOnce

\* Names and places, when a phase stays in the workflow under its name.
LEMMA PhaseFrame ==
    ASSUME WorkflowInv, InPhase, ph.at # "off", ph'.name = ph.name,
           ph'.at \in {"submit", "save", "inline", "collect", "item", "itemmark", "marked",
                       "sequential", "answered", "casemark"} => ph.name \in Extracting,
           ph'.at \in {"embed", "synth", "synthesized"} => ph.name \in {"collect", "compile"},
           ph'.at \in {"inline", "collect", "item", "itemmark", "marked"} => ph.name # "submit",
           ph'.at \in {"evaluated", "evalmark"} => ph.name \in Evaluations,
           ph'.at = "aggregate" => ph.name = "aggregate",
           ph'.at = "validated" => ph.name = "validate",
           ph'.at = "persist" => ph.name \in Evaluations \cup {"compile"},
           \A k \in ph'.records : calls'[k] > 0
    PROVE  PhaseSound'
<1>1. Sequence' = Sequence
  BY DEF Sequence, InPhase
<1>2. QED BY <1>1 DEF WorkflowInv, PhaseSound, InPhase, wfvars, At

\* Repetitions, when a step neither pays nor writes.
LEMMA RepeatFrame ==
    ASSUME WorkflowInv, UNCHANGED <<batches, saved, marks, rows, calls, faults>>,
           \A c \in Cases : Bought(c) => Bought(c)',
           \A c \in Cases : ToCollect(c)' => ToCollect(c),
           At("save") => At("save")', At("synthesized")' => "compiled" \notin marks
    PROVE  RepeatSound'
<1>1. \A c \in Cases : calls[c] \in Nat /\ rows[c] \in Nat
  BY DEF WorkflowInv, TypeOK, Keys
<1>2. faults \in Nat /\ Len(batches) \in Nat
  BY FaultAssumption DEF WorkflowInv, TypeOK
<1>3. QED BY <1>1, <1>2 DEF WorkflowInv, RepeatSound

LEMMA BatchType ==
    ASSUME TypeOK
    PROVE  /\ Pending \subseteq Cases
           /\ saved.batch > 0 =>
                 /\ TheBatch \in Batch /\ TheBatch.items \subseteq Cases
                 /\ TheBatch.outcome \in [Cases -> Outcomes]
                 /\ Returned(TheBatch) \subseteq TheBatch.items
                 /\ Succeeded(TheBatch) \subseteq Returned(TheBatch)
<1>1. Pending \subseteq Cases
  BY DEF Pending
<1>2. ASSUME saved.batch > 0 PROVE TheBatch \in Batch
  BY <1>2 DEF TypeOK, TheBatch
<1>3. QED BY <1>1, <1>2 DEF Batch, Returned, Succeeded

\* The tables as they were.
LEMMA TablesFrame ==
    ASSUME WorkflowInv, UNCHANGED <<config, batches, saved, marks, rows>>
    PROVE  Pending' = Pending /\ TheBatch' = TheBatch /\ ExtractionSound' /\ UseBatch' = UseBatch
<1>1. Pending' = Pending /\ TheBatch' = TheBatch
  BY DEF Pending, TheBatch
<1>2. UseBatch' = UseBatch
  BY <1>1 DEF UseBatch
<1>3. ExtractionSound'
  BY <1>1 DEF WorkflowInv, ExtractionSound, Succeeded
<1>4. QED BY <1>1, <1>2, <1>3

\* A step of memory alone.
LEMMA MemoryFrame ==
    ASSUME WorkflowInv, InPhase, UNCHANGED data, ph' \in Phase
    PROVE  /\ TypeOK' /\ RecordedMeansMarked' /\ UsageCountedOnce' /\ ExtractionSound'
           /\ Pending' = Pending /\ TheBatch' = TheBatch
<1>1. TypeOK'
  BY DEF WorkflowInv, TypeOK, InPhase, data, wfvars
<1>2. \A k \in Keys : calls'[k] >= calls[k]
  BY DEF WorkflowInv, TypeOK, data
<1>3. UsageCountedOnce'
  BY <1>1, <1>2, UsageFrame DEF TypeOK, data
<1>4. QED BY <1>1, <1>3, RecordedFrame, TablesFrame DEF InPhase, data

-----------------------------------------------------------------------------
(* The extraction *)

LEMMA InvEnterSequential ==
    ASSUME WorkflowInv, InPhase, EnterExtraction, EnterSequential
    PROVE  WorkflowInv'
<1>0. ph \in Phase /\ UNCHANGED data /\ faults' = faults
  BY DEF WorkflowInv, TypeOK, EnterExtraction, data, tables, InPhase, wfvars
<1>1. /\ ph.at = "enter" /\ ph.name \in Extracting /\ ph' \in Phase /\ ph'.at = "sequential"
      /\ ph'.name = ph.name /\ ph'.item = ph.item /\ ph'.records = ph.records
      /\ ph'.todo = {c \in Cases : rows[c] = 0}
  BY <1>0 DEF EnterExtraction, EnterSequential, At, Extracting, Phase, Places
<1>2. /\ TypeOK' /\ RecordedMeansMarked' /\ UsageCountedOnce' /\ ExtractionSound'
      /\ Pending' = Pending /\ TheBatch' = TheBatch
  BY <1>0, <1>1, MemoryFrame
<1>3. saved.batch = 0 /\ ph.item = {}
  <2>1. ~config.batch \/ "submitted" \notin marks
    BY DEF EnterSequential, UseBatch
  <2>2. saved.batch \in Nat
    BY DEF WorkflowInv, TypeOK
  <2>3. QED BY <1>1, <2>1, <2>2 DEF WorkflowInv, BatchSound, SequentialSound
<1>4. PhaseSound'
  BY <1>0, <1>1, PhaseFrame DEF WorkflowInv, PhaseSound, data
<1>5. Progress' /\ BatchSound'
  BY <1>0, <1>1, <1>2, <1>3 DEF WorkflowInv, Progress, BatchSound, data, At
<1>6. SequentialSound'
  <2>1. \A c \in Cases : rows[c] \in Nat
    BY DEF WorkflowInv, TypeOK, Keys
  <2>2. QED BY <1>0, <1>1, <1>3, <2>1 DEF SequentialSound, data, At
<1>7. RepeatSound'
  <2>1. \A c \in Cases : (Bought(c) => Bought(c)') /\ (ToCollect(c)' => ToCollect(c))
    BY <1>0, <1>1, <1>2, <1>3 DEF Bought, ToCollect, data, At
  <2>2. QED BY <1>0, <1>1, <2>1, RepeatFrame DEF data, At
<1>8. QED BY <1>2, <1>4, <1>5, <1>6, <1>7 DEF WorkflowInv

LEMMA InvEnterSubmit ==
    ASSUME WorkflowInv, InPhase, EnterExtraction, EnterSubmit
    PROVE  WorkflowInv'
<1>0. ph \in Phase /\ UNCHANGED data /\ faults' = faults
  BY DEF WorkflowInv, TypeOK, EnterExtraction, EnterSubmit, data, tables, InPhase, wfvars
<1>t. Pending \subseteq Cases
  BY BatchType DEF WorkflowInv
<1>1. /\ ph.at = "enter" /\ ph.name \in Extracting /\ ph' \in Phase /\ ph'.at = "submit"
      /\ ph'.name = ph.name /\ ph'.item = ph.item /\ ph'.records = ph.records
      /\ ph'.todo = Pending /\ "submitted" \notin marks /\ config.batch
  BY <1>0, <1>t DEF WorkflowInv, PhaseSound, EnterExtraction, EnterSubmit, At, Goto, UseBatch, Extracting, Phase,
              Places, AfterExtraction, AfterCompiling, Evaluations
<1>2. /\ TypeOK' /\ RecordedMeansMarked' /\ UsageCountedOnce' /\ ExtractionSound'
      /\ Pending' = Pending /\ TheBatch' = TheBatch
  BY <1>0, <1>1, MemoryFrame
<1>3. saved.batch = 0
  <2>1. saved.batch \in Nat
    BY DEF WorkflowInv, TypeOK
  <2>2. QED BY <1>1, <2>1 DEF WorkflowInv, BatchSound
<1>4. PhaseSound'
  BY <1>0, <1>1, <1>3, PhaseFrame DEF WorkflowInv, PhaseSound, data, Evaluations, Extracting
<1>5. Progress' /\ BatchSound'
  BY <1>0, <1>1, <1>2, <1>3
  DEF WorkflowInv, Progress, BatchSound, data, At, Evaluations, Extracting, Returned, Succeeded
<1>6. SequentialSound'
  BY <1>0, <1>1, <1>3 DEF WorkflowInv, SequentialSound, data, At
<1>7. RepeatSound'
  <2>1. \A c \in Cases : (Bought(c) => Bought(c)') /\ (ToCollect(c)' => ToCollect(c))
    BY <1>0, <1>1, <1>2, <1>3 DEF Bought, ToCollect, data, At, Returned
  <2>2. QED BY <1>0, <1>1, <1>3, <2>1, RepeatFrame DEF data, At
<1>8. QED BY <1>2, <1>4, <1>5, <1>6, <1>7 DEF WorkflowInv

LEMMA InvEnterCollect ==
    ASSUME WorkflowInv, InPhase, EnterExtraction, EnterCollect
    PROVE  WorkflowInv'
<1>0. ph \in Phase /\ UNCHANGED data /\ faults' = faults
  BY DEF WorkflowInv, TypeOK, EnterExtraction, EnterCollect, data, tables, InPhase, wfvars
<1>1. /\ ph.at = "enter" /\ ph.name \in Extracting /\ ph.name # "submit" /\ ph' \in Phase
      /\ ph'.at = (IF saved.batch = 0 THEN "embed" ELSE "inline")
      /\ ph'.name = ph.name /\ ph'.item = ph.item /\ ph'.records = ph.records
      /\ ph'.todo = ph.todo /\ "submitted" \in marks /\ "collected" \notin marks
  BY <1>0 DEF WorkflowInv, PhaseSound, EnterExtraction, EnterCollect, At, Goto, Extracting, Phase,
              Places, Returned, AfterExtraction, AfterCompiling, Evaluations
<1>2. /\ TypeOK' /\ RecordedMeansMarked' /\ UsageCountedOnce' /\ ExtractionSound'
      /\ Pending' = Pending /\ TheBatch' = TheBatch
  BY <1>0, <1>1, MemoryFrame
<1>3. saved.batch > 0 /\ ph'.at = "inline"
  BY <1>1 DEF WorkflowInv, BatchSound
<1>4. PhaseSound'
  BY <1>0, <1>1, <1>3, PhaseFrame DEF WorkflowInv, PhaseSound, data, Evaluations, Extracting
<1>5. Progress' /\ BatchSound'
  BY <1>0, <1>1, <1>2, <1>3
  DEF WorkflowInv, Progress, BatchSound, data, At, Evaluations, Extracting, Returned, Succeeded
<1>6. SequentialSound'
  BY <1>0, <1>1, <1>3 DEF WorkflowInv, SequentialSound, data, At
<1>7. RepeatSound'
  <2>1. \A c \in Cases : (Bought(c) => Bought(c)') /\ (ToCollect(c)' => ToCollect(c))
    BY <1>0, <1>1, <1>2, <1>3 DEF Bought, ToCollect, data, At, Returned
  <2>2. QED BY <1>0, <1>1, <1>3, <2>1, RepeatFrame DEF data, At
<1>8. QED BY <1>2, <1>4, <1>5, <1>6, <1>7 DEF WorkflowInv

LEMMA InvPassExtraction ==
    ASSUME WorkflowInv, InPhase, EnterExtraction, PassExtraction
    PROVE  WorkflowInv'
<1>0. ph \in Phase /\ UNCHANGED data /\ faults' = faults
  BY DEF WorkflowInv, TypeOK, EnterExtraction, PassExtraction, data, tables, InPhase, wfvars
<1>1. /\ ph.at = "enter" /\ ph.name \in Extracting /\ ph' \in Phase
      /\ ph'.at = (IF ph.name = "submit" THEN "end" ELSE "embed")
      /\ ph'.name = ph.name /\ ph'.item = ph.item /\ ph'.records = ph.records
      /\ ph'.todo = ph.todo
  BY <1>0 DEF WorkflowInv, PhaseSound, EnterExtraction, PassExtraction, At, Goto, Extracting, Phase,
              Places, Returned, AfterExtraction, AfterCompiling, Evaluations
<1>2. /\ TypeOK' /\ RecordedMeansMarked' /\ UsageCountedOnce' /\ ExtractionSound'
      /\ Pending' = Pending /\ TheBatch' = TheBatch
  BY <1>0, <1>1, MemoryFrame
<1>3. /\ ph.name = "submit" => "submitted" \in marks \/ "extracting" \in marks
      /\ ph.name # "submit" => "extracting" \in marks
  BY DEF PassExtraction, WorkflowInv, Progress
<1>4. PhaseSound'
  BY <1>0, <1>1, <1>3, PhaseFrame DEF WorkflowInv, PhaseSound, data, Evaluations, Extracting
<1>5. Progress' /\ BatchSound'
  BY <1>0, <1>1, <1>2, <1>3
  DEF WorkflowInv, Progress, BatchSound, data, At, Evaluations, Extracting, Returned, Succeeded
<1>6. SequentialSound'
  BY <1>0, <1>1, <1>3 DEF WorkflowInv, SequentialSound, data, At
<1>7. RepeatSound'
  <2>1. \A c \in Cases : (Bought(c) => Bought(c)') /\ (ToCollect(c)' => ToCollect(c))
    BY <1>0, <1>1, <1>2, <1>3 DEF Bought, ToCollect, data, At, Returned
  <2>2. QED BY <1>0, <1>1, <1>3, <2>1, RepeatFrame DEF data, At
<1>8. QED BY <1>2, <1>4, <1>5, <1>6, <1>7 DEF WorkflowInv

LEMMA InvPollInline ==
    ASSUME WorkflowInv, InPhase, PollInline
    PROVE  WorkflowInv'
<1>0. ph \in Phase /\ UNCHANGED data /\ faults' = faults
  BY DEF WorkflowInv, TypeOK, PollInline, data, tables, InPhase, wfvars
<1>1. /\ ph.at = "inline" /\ ph.name \in Extracting /\ ph.name # "submit" /\ ph' \in Phase
      /\ ph'.at = "collect" /\ ph'.name = ph.name /\ ph'.item = ph.item
      /\ ph'.records = ph.records /\ ph'.todo = ph.todo /\ TheBatch.ended # "no"
  BY <1>0 DEF WorkflowInv, PhaseSound, PollInline, At, Goto, Extracting, Phase,
              Places, Returned, AfterExtraction, AfterCompiling, Evaluations
<1>2. /\ TypeOK' /\ RecordedMeansMarked' /\ UsageCountedOnce' /\ ExtractionSound'
      /\ Pending' = Pending /\ TheBatch' = TheBatch
  BY <1>0, <1>1, MemoryFrame
<1>3. saved.batch > 0
  BY <1>1 DEF WorkflowInv, BatchSound
<1>4. PhaseSound'
  BY <1>0, <1>1, <1>3, PhaseFrame DEF WorkflowInv, PhaseSound, data, Evaluations, Extracting
<1>5. Progress' /\ BatchSound'
  BY <1>0, <1>1, <1>2, <1>3
  DEF WorkflowInv, Progress, BatchSound, data, At, Evaluations, Extracting, Returned, Succeeded
<1>6. SequentialSound'
  BY <1>0, <1>1, <1>3 DEF WorkflowInv, SequentialSound, data, At
<1>7. RepeatSound'
  <2>1. \A c \in Cases : (Bought(c) => Bought(c)') /\ (ToCollect(c)' => ToCollect(c))
    BY <1>0, <1>1, <1>2, <1>3 DEF Bought, ToCollect, data, At, Returned
  <2>2. QED BY <1>0, <1>1, <1>3, <2>1, RepeatFrame DEF data, At
<1>8. QED BY <1>2, <1>4, <1>5, <1>6, <1>7 DEF WorkflowInv

LEMMA InvCollect ==
    ASSUME WorkflowInv, InPhase, Collect
    PROVE  WorkflowInv'
<1>0. ph \in Phase /\ UNCHANGED data /\ faults' = faults
  BY DEF WorkflowInv, TypeOK, Collect, data, tables, InPhase, wfvars
<1>t. Returned(TheBatch) \subseteq Cases
  BY BatchType DEF WorkflowInv, BatchSound, Collect, At
<1>1. /\ ph.at = "collect" /\ ph.name \in Extracting /\ ph.name # "submit" /\ ph' \in Phase
      /\ ph'.at = "item" /\ ph'.name = ph.name /\ ph'.item = ph.item
      /\ ph'.records = ph.records /\ ph'.todo = Returned(TheBatch)
  BY <1>0, <1>t DEF WorkflowInv, PhaseSound, Collect, At, Goto, Extracting, Phase,
              Places, AfterExtraction, AfterCompiling, Evaluations
<1>2. /\ TypeOK' /\ RecordedMeansMarked' /\ UsageCountedOnce' /\ ExtractionSound'
      /\ Pending' = Pending /\ TheBatch' = TheBatch
  BY <1>0, <1>1, MemoryFrame
<1>3. /\ saved.batch > 0 /\ TheBatch.ended # "no" /\ ph.item = {}
      /\ Succeeded(TheBatch) \subseteq Returned(TheBatch) /\ Returned(TheBatch) \subseteq TheBatch.items
  BY <1>1 DEF WorkflowInv, BatchSound, SequentialSound, Succeeded, Returned
<1>4. PhaseSound'
  BY <1>0, <1>1, <1>3, PhaseFrame DEF WorkflowInv, PhaseSound, data, Evaluations, Extracting
<1>5. Progress' /\ BatchSound'
  BY <1>0, <1>1, <1>2, <1>3
  DEF WorkflowInv, Progress, BatchSound, data, At, Evaluations, Extracting, Returned, Succeeded
<1>6. SequentialSound'
  BY <1>0, <1>1, <1>3 DEF WorkflowInv, SequentialSound, data, At
<1>7. RepeatSound'
  <2>1. \A c \in Cases : (Bought(c) => Bought(c)') /\ (ToCollect(c)' => ToCollect(c))
    BY <1>0, <1>1, <1>2, <1>3 DEF Bought, ToCollect, data, At, Returned
  <2>2. QED BY <1>0, <1>1, <1>3, <2>1, RepeatFrame DEF data, At
<1>8. QED BY <1>2, <1>4, <1>5, <1>6, <1>7 DEF WorkflowInv

LEMMA InvSkipCase ==
    ASSUME WorkflowInv, InPhase, NEW c \in Cases, SkipCase(c)
    PROVE  WorkflowInv'
<1>0. ph \in Phase /\ UNCHANGED data /\ faults' = faults
  BY DEF WorkflowInv, TypeOK, SkipCase, data, tables, InPhase, wfvars
<1>1. /\ ph.at = "sequential" /\ ph' \in Phase /\ ph'.at = "sequential" /\ ph'.name = ph.name
      /\ ph'.item = ph.item /\ ph'.records = ph.records /\ ph'.todo = ph.todo \ {c}
      /\ c \in marks
  BY <1>0 DEF WorkflowInv, PhaseSound, SkipCase, At, Goto, Extracting, Phase,
              Places, Returned, AfterExtraction, AfterCompiling, Evaluations
<1>2. /\ TypeOK' /\ RecordedMeansMarked' /\ UsageCountedOnce' /\ ExtractionSound'
      /\ Pending' = Pending /\ TheBatch' = TheBatch
  BY <1>0, <1>1, MemoryFrame
<1>3. ph.item = {} /\ ph.name \in Extracting
  BY <1>1 DEF WorkflowInv, SequentialSound, PhaseSound
<1>4. PhaseSound'
  BY <1>0, <1>1, <1>3, PhaseFrame DEF WorkflowInv, PhaseSound, data, Evaluations, Extracting
<1>5. Progress' /\ BatchSound'
  BY <1>0, <1>1, <1>2, <1>3
  DEF WorkflowInv, Progress, BatchSound, data, At, Evaluations, Extracting, Returned, Succeeded
<1>6. SequentialSound'
  BY <1>0, <1>1, <1>3 DEF WorkflowInv, SequentialSound, data, At
<1>7. RepeatSound'
  <2>1. \A d \in Cases : (Bought(d) => Bought(d)') /\ (ToCollect(d)' => ToCollect(d))
    BY <1>0, <1>1, <1>2, <1>3 DEF Bought, ToCollect, data, At, Returned
  <2>2. QED BY <1>0, <1>1, <1>3, <2>1, RepeatFrame DEF data, At
<1>8. QED BY <1>2, <1>4, <1>5, <1>6, <1>7 DEF WorkflowInv

LEMMA InvSkipValidation ==
    ASSUME WorkflowInv, InPhase, SkipValidation
    PROVE  WorkflowInv'
<1>0. ph \in Phase /\ UNCHANGED data /\ faults' = faults
  BY DEF WorkflowInv, TypeOK, SkipValidation, data, tables, InPhase, wfvars
<1>1. /\ ph.at = "enter" /\ ph.name = "validate" /\ ph' \in Phase /\ ph'.at = "end"
      /\ ph'.name = ph.name /\ ph'.item = ph.item /\ ph'.records = ph.records
      /\ ph'.todo = ph.todo /\ "validated" \in marks
  BY <1>0 DEF WorkflowInv, PhaseSound, SkipValidation, At, Goto, Extracting, Phase,
              Places, Returned, AfterExtraction, AfterCompiling, Evaluations
<1>2. /\ TypeOK' /\ RecordedMeansMarked' /\ UsageCountedOnce' /\ ExtractionSound'
      /\ Pending' = Pending /\ TheBatch' = TheBatch
  BY <1>0, <1>1, MemoryFrame
<1>3. ph.item = {}
  BY <1>1 DEF WorkflowInv, SequentialSound
<1>4. PhaseSound'
  BY <1>0, <1>1, <1>3, PhaseFrame DEF WorkflowInv, PhaseSound, data, Evaluations, Extracting
<1>5. Progress' /\ BatchSound'
  BY <1>0, <1>1, <1>2, <1>3
  DEF WorkflowInv, Progress, BatchSound, data, At, Evaluations, Extracting, Returned, Succeeded
<1>6. SequentialSound'
  BY <1>0, <1>1, <1>3 DEF WorkflowInv, SequentialSound, data, At
<1>7. RepeatSound'
  <2>1. \A c \in Cases : (Bought(c) => Bought(c)') /\ (ToCollect(c)' => ToCollect(c))
    BY <1>0, <1>1, <1>2, <1>3 DEF Bought, ToCollect, data, At, Returned
  <2>2. QED BY <1>0, <1>1, <1>3, <2>1, RepeatFrame DEF data, At
<1>8. QED BY <1>2, <1>4, <1>5, <1>6, <1>7 DEF WorkflowInv

-----------------------------------------------------------------------------
(* Calls for no case, and what they lead to *)

\* A call that is not for a case, with its record.
LEMMA CallFrame ==
    ASSUME WorkflowInv, InPhase, UNCHANGED <<config, batches, saved, marks, rows, events>>,
           NEW k \in Keys \ Cases, Record(k), ph' \in Phase,
           ph'.records = ph.records \cup {k}
    PROVE  /\ TypeOK' /\ RecordedMeansMarked' /\ UsageCountedOnce' /\ ExtractionSound'
           /\ Pending' = Pending /\ TheBatch' = TheBatch
           /\ \A c \in Cases : calls'[c] = calls[c]
           /\ \A r \in ph'.records : calls'[r] > 0
<1>0. calls \in [Keys -> Nat] /\ \A r \in ph.records : r \in Keys /\ calls[r] > 0
  BY DEF WorkflowInv, TypeOK, PhaseSound, Phase
<1>1. calls' = [calls EXCEPT ![k] = calls[k] + 1]
  BY DEF Record
<1>2. calls' \in [Keys -> Nat] /\ \A r \in Keys : calls'[r] >= calls[r]
  BY <1>0, <1>1
<1>3. TypeOK'
  BY <1>2 DEF WorkflowInv, TypeOK, InPhase, wfvars
<1>4. UsageCountedOnce'
  BY <1>2, UsageFrame
<1>5. \A c \in Cases : calls'[c] = calls[c]
  BY <1>0, <1>1 DEF Keys
<1>6. \A r \in ph'.records : calls'[r] > 0
  BY <1>0, <1>1
<1>7. QED BY <1>3, <1>4, <1>5, <1>6, RecordedFrame, TablesFrame DEF InPhase

\* Repetitions, when the calls for the cases stay as they are.
LEMMA RepeatCalls ==
    ASSUME WorkflowInv, UNCHANGED <<batches, saved, marks, rows, faults>>,
           \A c \in Cases : calls'[c] = calls[c],
           \A c \in Cases : Bought(c) => Bought(c)',
           \A c \in Cases : ToCollect(c)' => ToCollect(c),
           At("save") => At("save")', At("synthesized")' => "compiled" \notin marks
    PROVE  RepeatSound'
<1>1. \A c \in Cases : calls[c] \in Nat /\ rows[c] \in Nat
  BY DEF WorkflowInv, TypeOK, Keys
<1>2. faults \in Nat /\ Len(batches) \in Nat
  BY FaultAssumption DEF WorkflowInv, TypeOK
<1>3. QED BY <1>1, <1>2 DEF WorkflowInv, RepeatSound

\* From one place outside extraction to another, with a call or without.
LEMMA PlainMove ==
    ASSUME WorkflowInv, InPhase, UNCHANGED <<config, batches, saved, marks, rows, events>>,
           ph' \in Phase, ph'.name = ph.name, ph'.item = ph.item,
           ph.at \in {"enter", "embed", "synth"},
           ph'.at \in {"synth", "synthesized", "evaluated", "evalmark", "aggregate", "persist", "end"},
           \/ calls' = calls /\ ph'.records = ph.records
           \/ \E k \in Keys \ Cases : Record(k) /\ ph'.records = ph.records \cup {k},
           ph'.at \in {"synth", "synthesized"} =>
               /\ ph.name \in {"collect", "compile"} /\ "extracting" \in marks
               /\ ph'.at = "synthesized" => "compiled" \notin marks,
           ph'.at \in {"evaluated", "evalmark"} => ph.name \in Evaluations,
           ph'.at = "aggregate" => ph.name = "aggregate",
           ph'.at = "persist" =>
               \/ ph.name \in Evaluations /\ ph.name \in marks
               \/ ph.name = "compile" /\ {"extracting", "compiled"} \subseteq marks,
           ph'.at = "end" => ph.name = "collect" /\ {"extracting", "compiled"} \subseteq marks
    PROVE  WorkflowInv'
<1>1. /\ TypeOK' /\ RecordedMeansMarked' /\ UsageCountedOnce' /\ ExtractionSound'
      /\ Pending' = Pending /\ TheBatch' = TheBatch
      /\ \A c \in Cases : calls'[c] = calls[c]
      /\ \A r \in ph'.records : calls'[r] > 0
  <2>1. CASE calls' = calls /\ ph'.records = ph.records
    BY <2>1, MemoryFrame DEF WorkflowInv, PhaseSound, data
  <2>2. CASE \E k \in Keys \ Cases : Record(k) /\ ph'.records = ph.records \cup {k}
    BY <2>2, CallFrame
  <2>3. QED BY <2>1, <2>2
<1>2. PhaseSound'
  BY <1>1, PhaseFrame DEF Evaluations
<1>3. Progress'
  BY DEF WorkflowInv, Progress, At, Evaluations
<1>4. BatchSound'
  BY <1>1 DEF WorkflowInv, BatchSound, At
<1>5. SequentialSound'
  BY DEF WorkflowInv, SequentialSound, At
<1>6. RepeatSound'
  <2>1. \A c \in Cases : (Bought(c) => Bought(c)') /\ (ToCollect(c)' => ToCollect(c))
    BY <1>1 DEF Bought, ToCollect, At
  <2>2. QED BY <1>1, <2>1, RepeatCalls DEF At, InPhase, wfvars
<1>7. QED BY <1>1, <1>2, <1>3, <1>4, <1>5, <1>6 DEF WorkflowInv

LEMMA InvEmbed == ASSUME WorkflowInv, InPhase, Embed PROVE WorkflowInv'
<1>0. ph \in Phase
  BY DEF WorkflowInv, TypeOK
<1>1. /\ ph.at = "embed" /\ ph.name \in {"collect", "compile"} /\ "extracting" \in marks
  BY DEF Embed, At, WorkflowInv, PhaseSound, Progress
<1>2. "embed" \in Keys \ Cases
  BY NamesAssumption DEF Keys
<1>3. CASE \E c \in Cases : rows[c] > 0
  <2>0. ph' = [ph EXCEPT !.at = "synth", !.records = @ \cup {"embed"}] /\ Record("embed")
    BY <1>3 DEF Embed
  <2>1. /\ ph' \in Phase /\ ph'.at = "synth" /\ ph'.name = ph.name /\ ph'.item = ph.item
        /\ ph'.records = ph.records \cup {"embed"} /\ Record("embed")
    BY <1>0, <1>2, <2>0 DEF Phase, Places
  <2>2. UNCHANGED <<config, batches, saved, marks, rows, events>>
    BY DEF Embed, tables
  <2>3. \E k \in Keys \ Cases : Record(k) /\ ph'.records = ph.records \cup {k}
    BY <1>2, <2>1
  <2>4. QED BY <1>1, <2>1, <2>2, <2>3, PlainMove
<1>4. CASE ~\E c \in Cases : rows[c] > 0
  <2>1. /\ ph' \in Phase /\ ph'.at = "synth" /\ ph'.name = ph.name /\ ph'.item = ph.item
        /\ ph'.records = ph.records /\ calls' = calls
    BY <1>0, <1>4 DEF Embed, Goto, Phase, Places
  <2>2. QED BY <1>1, <2>1, PlainMove DEF Embed, tables
<1>5. QED BY <1>3, <1>4

LEMMA InvSynthesize == ASSUME WorkflowInv, InPhase, Synthesize PROVE WorkflowInv'
<1>0. ph \in Phase
  BY DEF WorkflowInv, TypeOK
<1>1. /\ ph.at = "synth" /\ ph.name \in {"collect", "compile"} /\ "extracting" \in marks
  BY DEF Synthesize, At, WorkflowInv, PhaseSound, Progress
<1>2. "synth" \in Keys \ Cases
  BY NamesAssumption DEF Keys
<1>3. CASE "compiled" \notin marks
  <2>0. ph' = [ph EXCEPT !.at = "synthesized", !.records = @ \cup {"synth"}] /\ Record("synth")
    BY <1>3 DEF Synthesize
  <2>1. /\ ph' \in Phase /\ ph'.at = "synthesized" /\ ph'.name = ph.name /\ ph'.item = ph.item
        /\ ph'.records = ph.records \cup {"synth"} /\ Record("synth")
    BY <1>0, <1>2, <2>0 DEF Phase, Places
  <2>2. UNCHANGED <<config, batches, saved, marks, rows, events>>
    BY DEF Synthesize, tables
  <2>3. \E k \in Keys \ Cases : Record(k) /\ ph'.records = ph.records \cup {k}
    BY <1>2, <2>1
  <2>4. QED BY <1>1, <1>3, <2>1, <2>2, <2>3, PlainMove
<1>4. CASE "compiled" \in marks
  <2>1. /\ ph' \in Phase /\ ph'.name = ph.name /\ ph'.item = ph.item
        /\ ph'.at = (IF ph.name = "compile" THEN "persist" ELSE "end")
        /\ ph'.records = ph.records /\ calls' = calls
    BY <1>0, <1>4 DEF Synthesize, Goto, AfterCompiling, Phase, Places
  <2>2. QED BY <1>1, <1>4, <2>1, PlainMove DEF Synthesize, tables
<1>5. QED BY <1>3, <1>4

LEMMA InvEvaluate == ASSUME WorkflowInv, InPhase, Evaluate PROVE WorkflowInv'
<1>0. ph \in Phase
  BY DEF WorkflowInv, TypeOK
<1>1. ph.at = "enter" /\ ph.name \in Evaluations /\ ph.name \in Keys \ Cases
  BY NamesAssumption DEF Evaluate, At, Keys, StageMarks
<1>2. CASE ph.name \in marks /\ Goto("persist") /\ UNCHANGED calls
  <2>1. /\ ph' \in Phase /\ ph'.name = ph.name /\ ph'.item = ph.item /\ ph'.at = "persist"
        /\ ph'.records = ph.records
    BY <1>0, <1>2 DEF Goto, Phase, Places
  <2>2. QED BY <1>1, <1>2, <2>1, PlainMove DEF Evaluate, tables
<1>3. CASE ph.name \notin marks /\ rows[ph.name] > 0 /\ Goto("evalmark") /\ UNCHANGED calls
  <2>1. /\ ph' \in Phase /\ ph'.name = ph.name /\ ph'.item = ph.item /\ ph'.at = "evalmark"
        /\ ph'.records = ph.records
    BY <1>0, <1>3 DEF Goto, Phase, Places
  <2>2. QED BY <1>1, <1>3, <2>1, PlainMove DEF Evaluate, tables
<1>4. CASE /\ ph.name \notin marks /\ rows[ph.name] = 0
           /\ Record(ph.name)
           /\ ph' = [ph EXCEPT !.at = "evaluated", !.records = @ \cup {ph.name}]
  <2>1. /\ ph' \in Phase /\ ph'.name = ph.name /\ ph'.item = ph.item /\ ph'.at = "evaluated"
        /\ ph'.records = ph.records \cup {ph.name}
    BY <1>0, <1>1, <1>4 DEF Phase, Places
  <2>2. QED BY <1>1, <1>4, <2>1, PlainMove DEF Evaluate, tables
<1>5. QED BY <1>2, <1>3, <1>4 DEF Evaluate

LEMMA InvRefine == ASSUME WorkflowInv, InPhase, Refine PROVE WorkflowInv'
<1>0. ph \in Phase
  BY DEF WorkflowInv, TypeOK
<1>1. "refine" \in Keys \ Cases
  BY NamesAssumption DEF Keys
<1>2. /\ ph.at = "enter" /\ ph.name = "aggregate" /\ Record("refine")
      /\ ph' \in Phase /\ ph'.name = ph.name /\ ph'.item = ph.item /\ ph'.at = "aggregate"
      /\ ph'.records = ph.records /\ ph.item = {}
  BY <1>0 DEF Refine, At, Goto, Phase, Places, WorkflowInv, SequentialSound
<1>3. UNCHANGED <<config, batches, saved, marks, rows, events>> /\ UNCHANGED faults
  BY DEF Refine, tables, InPhase, wfvars
<1>4. QED
  <2>1. calls \in [Keys -> Nat] /\ \A r \in ph.records : r \in Keys /\ calls[r] > 0
    BY <1>0 DEF WorkflowInv, TypeOK, PhaseSound, Phase
  <2>2. calls' \in [Keys -> Nat] /\ \A r \in Keys : calls'[r] >= calls[r]
    BY <1>1, <1>2, <2>1 DEF Record
  <2>3. (\A c \in Cases : calls'[c] = calls[c]) /\ (\A r \in ph'.records : calls'[r] > 0)
    BY <1>1, <1>2, <2>1, <2>2 DEF Record, Keys
  <2>4. TypeOK'
    BY <1>2, <1>3, <2>2 DEF WorkflowInv, TypeOK, InPhase, wfvars
  <2>5. UsageCountedOnce' /\ RecordedMeansMarked' /\ ExtractionSound'
    BY <1>3, <2>2, UsageFrame, RecordedFrame, TablesFrame DEF InPhase
  <2>6. Pending' = Pending /\ TheBatch' = TheBatch
    BY <1>3, TablesFrame
  <2>7. PhaseSound'
    BY <1>2, <2>3, PhaseFrame
  <2>8. Progress' /\ BatchSound' /\ SequentialSound'
    BY <1>2, <1>3, <2>6 DEF WorkflowInv, Progress, BatchSound, SequentialSound, At
  <2>9. \A c \in Cases : (Bought(c) => Bought(c)') /\ (ToCollect(c)' => ToCollect(c))
    BY <1>2, <1>3, <2>6 DEF Bought, ToCollect, At
  <2>10. RepeatSound'
    BY <1>2, <1>3, <2>3, <2>9, RepeatCalls DEF At
  <2>11. QED BY <2>4, <2>5, <2>7, <2>8, <2>10 DEF WorkflowInv

-----------------------------------------------------------------------------
(* What is written after the extraction *)

\* A write that concerns no case.
LEMMA LateWrite ==
    ASSUME WorkflowInv, InPhase, UNCHANGED <<config, batches, saved, calls>>,
           ph' \in Phase, ph'.name = ph.name, ph'.item = ph.item, ph'.records \subseteq ph.records,
           ph.at \in {"enter", "validated", "synthesized", "evaluated", "evalmark", "aggregate", "persist"},
           ph'.at \in {"validated", "evalmark", "persist", "end"},
           rows' \in [Keys -> Nat], \A c \in Cases : rows'[c] = rows[c],
           rows'["synth"] = rows["synth"]
               \/ (rows'["synth"] = 1 /\ "compiled" \in marks'),
           NEW M \in SUBSET (StageMarks \ {"submitted", "collected", "extracting"}),
           marks' = marks \cup M,
           TypeOK', UsageCountedOnce',
           ph'.at = "validated" => ph.name = "validate",
           ph'.at = "evalmark" => ph.name \in Evaluations,
           ph'.at = "persist" =>
               \/ ph.name \in Evaluations /\ ph.name \in marks'
               \/ ph.name = "compile" /\ {"extracting", "compiled"} \subseteq marks',
           ph'.at = "end" =>
               \/ ph.name \in {"collect", "compile"} /\ {"extracting", "compiled"} \subseteq marks'
               \/ ph.name \in Evaluations /\ ph.name \in marks'
               \/ ph.name = "aggregate" /\ "completed" \in marks'
               \/ ph.name = "validate" /\ "validated" \in marks'
    PROVE  WorkflowInv'
<1>1. \A c \in Cases : c \in marks' <=> c \in marks
  BY NamesAssumption
<1>2. Pending' = Pending /\ TheBatch' = TheBatch
  BY <1>1 DEF Pending, TheBatch
<1>3. {"submitted", "collected", "extracting"} \cap marks' = {"submitted", "collected", "extracting"} \cap marks
  OBVIOUS
<1>4. ExtractionSound'
  BY <1>1, <1>2, <1>3 DEF WorkflowInv, ExtractionSound, Succeeded
<1>5. PhaseSound'
  BY PhaseFrame DEF WorkflowInv, PhaseSound, Evaluations
<1>6. Progress'
  BY <1>3 DEF WorkflowInv, Progress, At, Evaluations
<1>7. BatchSound' /\ SequentialSound'
  BY <1>1, <1>2, <1>3 DEF WorkflowInv, BatchSound, SequentialSound, At
<1>8. RepeatSound'
  <2>1. \A c \in Cases : (Bought(c) => Bought(c)') /\ (ToCollect(c)' => ToCollect(c))
    BY <1>1, <1>2, <1>3 DEF Bought, ToCollect, At
  <2>2. \A c \in Cases : calls[c] \in Nat /\ rows[c] \in Nat
    BY DEF WorkflowInv, TypeOK, Keys
  <2>3. faults \in Nat /\ Len(batches) \in Nat /\ faults' = faults
    BY FaultAssumption DEF WorkflowInv, TypeOK, InPhase, wfvars
  <2>4. \A c \in Cases : /\ calls'[c] <= faults' + (IF Bought(c)' THEN 1 ELSE 0)
                         /\ rows'[c] <= faults' + (IF ToCollect(c)' THEN 0 ELSE 1)
                         /\ saved'.batch = 0 => rows'[c] <= 1
    BY <2>1, <2>2, <2>3 DEF WorkflowInv, RepeatSound
  <2>5. Len(batches') <= faults' + (IF saved'.batch > 0 \/ At("save")' THEN 1 ELSE 0)
    BY <2>3 DEF WorkflowInv, RepeatSound, At
  <2>6. rows'["synth"] <= (IF "compiled" \in marks' THEN 1 ELSE 0)
    <3>1. rows["synth"] \in Nat
      BY DEF WorkflowInv, TypeOK, Keys
    <3>2. QED BY <3>1 DEF WorkflowInv, RepeatSound
  <2>7. QED BY <2>4, <2>5, <2>6 DEF RepeatSound, At
<1>9. RecordedMeansMarked'
  BY RecordedFrame DEF InPhase
<1>10. QED BY <1>4, <1>5, <1>6, <1>7, <1>8, <1>9 DEF WorkflowInv

\* The usage, when neither calls nor events are written.
LEMMA UsageStill ==
    ASSUME WorkflowInv, UNCHANGED <<calls, events>>
    PROVE  UsageCountedOnce'
BY DEF WorkflowInv, UsageCountedOnce

LEMMA InvWriteSynthesis == ASSUME WorkflowInv, InPhase, WriteSynthesis PROVE WorkflowInv'
<1>0. ph \in Phase /\ rows \in [Keys -> Nat] /\ "synth" \in Keys \ Cases
  BY NamesAssumption DEF WorkflowInv, TypeOK, Keys
<1>1. ph.at = "synthesized" /\ ph.name \in {"collect", "compile"} /\ "extracting" \in marks
      /\ "compiled" \notin marks /\ rows["synth"] = 0
  BY <1>0 DEF WriteSynthesis, At, WorkflowInv, PhaseSound, Progress, RepeatSound
<1>2. /\ ph' \in Phase /\ ph'.name = ph.name /\ ph'.item = ph.item /\ ph'.records = ph.records
      /\ ph'.at = (IF ph.name = "compile" THEN "persist" ELSE "end")
  BY <1>0 DEF WriteSynthesis, Goto, AfterCompiling, Phase, Places
<1>3. rows' \in [Keys -> Nat] /\ rows'["synth"] = 1 /\ \A c \in Cases : rows'[c] = rows[c]
  BY <1>0, <1>1 DEF WriteSynthesis, Keys
<1>4. TypeOK'
  BY <1>2, <1>3 DEF WriteSynthesis, WorkflowInv, TypeOK, StageMarks, InPhase, wfvars
<1>5. QED BY <1>1, <1>2, <1>3, <1>4, LateWrite, UsageStill DEF WriteSynthesis, StageMarks

LEMMA InvInsertCases == ASSUME WorkflowInv, InPhase, InsertCases PROVE WorkflowInv'
<1>0. ph \in Phase /\ rows \in [Keys -> Nat] /\ ph.at = "enter" /\ ph.name = "validate"
      /\ "cases" \in Keys \ Cases
  BY NamesAssumption DEF InsertCases, At, WorkflowInv, TypeOK, Keys
<1>1. /\ ph' \in Phase /\ ph'.name = ph.name /\ ph'.item = ph.item /\ ph'.records = ph.records
      /\ ph'.at = "validated"
  BY <1>0 DEF InsertCases, Goto, Phase, Places
<1>2. rows' \in [Keys -> Nat] /\ rows'["synth"] = rows["synth"] /\ \A c \in Cases : rows'[c] = rows[c]
  BY <1>0 DEF InsertCases, Keys
<1>3. TypeOK'
  BY <1>1, <1>2 DEF InsertCases, WorkflowInv, TypeOK, InPhase, wfvars
<1>4. marks' = marks \cup {}
  BY DEF InsertCases
<1>5. QED BY <1>0, <1>1, <1>2, <1>3, <1>4, LateWrite, UsageStill DEF InsertCases

LEMMA InvMarkValidated == ASSUME WorkflowInv, InPhase, MarkValidated PROVE WorkflowInv'
<1>0. ph \in Phase /\ rows \in [Keys -> Nat] /\ ph.at = "validated" /\ ph.name = "validate"
  BY DEF MarkValidated, At, WorkflowInv, TypeOK, PhaseSound
<1>1. /\ ph' \in Phase /\ ph'.name = ph.name /\ ph'.item = ph.item /\ ph'.records = ph.records
      /\ ph'.at = "end"
  BY <1>0 DEF MarkValidated, Goto, Phase, Places
<1>2. {"validated"} \subseteq StageMarks \ {"submitted", "collected", "extracting"}
  BY DEF StageMarks
<1>3. TypeOK'
  BY <1>1, <1>2 DEF MarkValidated, WorkflowInv, TypeOK, InPhase, wfvars
<1>4. QED BY <1>0, <1>1, <1>2, <1>3, LateWrite, UsageStill DEF MarkValidated

LEMMA InvWriteResult == ASSUME WorkflowInv, InPhase, WriteResult PROVE WorkflowInv'
<1>0. ph \in Phase /\ rows \in [Keys -> Nat] /\ ph.at = "evaluated" /\ ph.name \in Evaluations
  BY DEF WriteResult, At, WorkflowInv, TypeOK, PhaseSound
<1>1. ph.name \in Keys \ Cases /\ ph.name # "synth"
  BY <1>0, NamesAssumption DEF Keys, StageMarks, Evaluations
<1>2. /\ ph' \in Phase /\ ph'.name = ph.name /\ ph'.item = ph.item /\ ph'.records = ph.records
      /\ ph'.at = "evalmark"
  BY <1>0 DEF WriteResult, Goto, Phase, Places
<1>3. rows' \in [Keys -> Nat] /\ rows'["synth"] = rows["synth"] /\ \A c \in Cases : rows'[c] = rows[c]
  BY <1>0, <1>1 DEF WriteResult, Keys
<1>4. TypeOK'
  BY <1>2, <1>3 DEF WriteResult, WorkflowInv, TypeOK, InPhase, wfvars
<1>5. marks' = marks \cup {}
  BY DEF WriteResult
<1>6. QED BY <1>0, <1>2, <1>3, <1>4, <1>5, LateWrite, UsageStill DEF WriteResult

LEMMA InvMarkEvaluated == ASSUME WorkflowInv, InPhase, MarkEvaluated PROVE WorkflowInv'
<1>0. ph \in Phase /\ rows \in [Keys -> Nat] /\ ph.at = "evalmark" /\ ph.name \in Evaluations
  BY DEF MarkEvaluated, At, WorkflowInv, TypeOK, PhaseSound
<1>1. /\ ph' \in Phase /\ ph'.name = ph.name /\ ph'.item = ph.item /\ ph'.records = ph.records
      /\ ph'.at = "persist"
  BY <1>0 DEF MarkEvaluated, Goto, Phase, Places
<1>2. {ph.name} \subseteq StageMarks \ {"submitted", "collected", "extracting"}
  BY <1>0 DEF StageMarks, Evaluations
<1>3. TypeOK'
  BY <1>1, <1>2 DEF MarkEvaluated, WorkflowInv, TypeOK, InPhase, wfvars
<1>4. QED BY <1>0, <1>1, <1>2, <1>3, LateWrite, UsageStill DEF MarkEvaluated

LEMMA InvAggregate == ASSUME WorkflowInv, InPhase, Aggregate PROVE WorkflowInv'
<1>0. ph \in Phase /\ rows \in [Keys -> Nat] /\ ph.at \in {"enter", "aggregate"}
      /\ ph.name = "aggregate"
  BY DEF Aggregate, At, WorkflowInv, TypeOK
<1>1. /\ ph' \in Phase /\ ph'.name = ph.name /\ ph'.item = ph.item /\ ph'.records = ph.records
      /\ ph'.at = "end"
  BY <1>0 DEF Aggregate, Goto, Phase, Places
<1>2. {"completed"} \subseteq StageMarks \ {"submitted", "collected", "extracting"}
  BY DEF StageMarks
<1>3. TypeOK'
  BY <1>1, <1>2 DEF Aggregate, WorkflowInv, TypeOK, InPhase, wfvars
<1>4. QED BY <1>0, <1>1, <1>2, <1>3, LateWrite, UsageStill DEF Aggregate

LEMMA InvPersist == ASSUME WorkflowInv, InPhase, Persist PROVE WorkflowInv'
<1>0. ph \in Phase /\ rows \in [Keys -> Nat] /\ events \in [Keys -> Nat] /\ calls \in [Keys -> Nat]
      /\ ph.at = "persist" /\ \A k \in ph.records : calls[k] > 0
  BY DEF Persist, At, WorkflowInv, TypeOK, PhaseSound
<1>1. /\ ph' \in Phase /\ ph'.name = ph.name /\ ph'.item = ph.item /\ ph'.records = {}
      /\ ph'.at = "end"
  BY <1>0 DEF Persist, Phase, Places
<1>2. events' \in [Keys -> Nat]
  BY <1>0 DEF Persist
<1>3. TypeOK'
  BY <1>1, <1>2 DEF Persist, tables, WorkflowInv, TypeOK, InPhase, wfvars
<1>4. UsageCountedOnce'
  <2>1. \A k \in Keys : events'[k] = IF k \in Insertable(ph.records) THEN events[k] + 1 ELSE events[k]
    BY DEF Persist
  <2>2. \A k \in Insertable(ph.records) : events[k] = 0 /\ calls[k] > 0
    BY <1>0 DEF Insertable
  <2>3. QED BY <1>0, <2>1, <2>2 DEF Persist, tables, WorkflowInv, UsageCountedOnce
<1>5. marks' = marks \cup {}
  BY DEF Persist, tables
<1>6. /\ ph.name \in Evaluations => ph.name \in marks
      /\ ph.name = "compile" => {"extracting", "compiled"} \subseteq marks
      /\ ph.name \in Evaluations \cup {"compile"}
  BY <1>0 DEF WorkflowInv, Progress, PhaseSound, At
<1>7. QED BY <1>0, <1>1, <1>3, <1>4, <1>5, <1>6, LateWrite DEF Persist, tables

-----------------------------------------------------------------------------
(* The batch *)

LEMMA InvSubmitBatch == ASSUME WorkflowInv, InPhase, SubmitBatch PROVE WorkflowInv'
<1>0. /\ ph \in Phase /\ calls \in [Keys -> Nat] /\ batches \in Seq(Batch) /\ saved.batch \in Nat
      /\ ph.at = "submit" /\ ph.todo = Pending /\ saved.batch = 0 /\ ph.item = {}
      /\ ph.name \in Extracting /\ Pending \subseteq Cases
  BY BatchType DEF SubmitBatch, At, WorkflowInv, TypeOK, PhaseSound, BatchSound, SequentialSound
<1>1. /\ ph' \in Phase /\ ph'.name = ph.name /\ ph'.item = ph.item /\ ph'.records = ph.records
      /\ ph'.at = "save"
  BY <1>0 DEF SubmitBatch, Goto, Phase, Places
<1>2. UNCHANGED <<config, saved, marks, rows, events, faults>>
  BY DEF SubmitBatch, tables, InPhase, wfvars
<1>3. /\ calls' \in [Keys -> Nat] /\ \A k \in Keys : calls'[k] >= calls[k]
      /\ \A c \in Cases : calls'[c] = IF c \in Pending THEN calls[c] + 1 ELSE calls[c]
  BY <1>0 DEF SubmitBatch, Keys
<1>4. /\ batches' \in Seq(Batch) /\ Len(batches') = Len(batches) + 1
      /\ batches'[Len(batches')].items = Pending
  <2>1. Submitted(Pending) \in Batch /\ Submitted(Pending).items = Pending
    BY <1>0 DEF Submitted, Batch, Outcomes
  <2>2. batches' = Append(batches, Submitted(Pending))
    BY <1>0 DEF SubmitBatch
  <2>3. QED BY <1>0, <2>1, <2>2
<1>5. TypeOK'
  BY <1>0, <1>1, <1>2, <1>3, <1>4 DEF WorkflowInv, TypeOK, InPhase, wfvars
<1>6. UsageCountedOnce' /\ RecordedMeansMarked'
  BY <1>2, <1>3, UsageFrame, RecordedFrame DEF InPhase
<1>7. Pending' = Pending
  BY <1>2 DEF Pending
<1>8. ExtractionSound'
  BY <1>0, <1>2, <1>7 DEF WorkflowInv, ExtractionSound
<1>9. PhaseSound'
  <2>1. \A k \in ph'.records : calls'[k] > 0
    BY <1>0, <1>1, <1>3 DEF WorkflowInv, PhaseSound, Phase
  <2>2. QED BY <1>0, <1>1, <2>1, PhaseFrame
<1>10. Progress' /\ SequentialSound'
  BY <1>0, <1>1, <1>2 DEF WorkflowInv, Progress, SequentialSound, At
<1>11. BatchSound'
  BY <1>0, <1>1, <1>2, <1>4, <1>7 DEF WorkflowInv, BatchSound, At
<1>12. RepeatSound'
  <2>1. faults \in Nat /\ Len(batches) \in Nat /\ \A c \in Cases : calls[c] \in Nat /\ rows[c] \in Nat
    BY <1>0, FaultAssumption DEF WorkflowInv, TypeOK, Keys
  <2>2. ASSUME NEW c \in Cases
        PROVE  calls'[c] <= faults' + (IF Bought(c)' THEN 1 ELSE 0)
    <3>1. CASE c \in Pending
      <4>1. ~Bought(c) /\ Bought(c)'
        BY <1>0, <1>1, <1>2, <1>7, <3>1 DEF Bought, Pending, At
      <4>2. QED BY <1>2, <1>3, <2>1, <3>1, <4>1 DEF WorkflowInv, RepeatSound
    <3>2. CASE c \notin Pending
      <4>1. Bought(c) => Bought(c)'
        BY <1>0, <1>1, <1>2, <3>2 DEF Bought, At
      <4>2. QED BY <1>2, <1>3, <2>1, <3>2, <4>1 DEF WorkflowInv, RepeatSound
    <3>3. QED BY <3>1, <3>2
  <2>3. ASSUME NEW c \in Cases
        PROVE  rows'[c] <= faults' + (IF ToCollect(c)' THEN 0 ELSE 1) /\ rows'[c] <= 1
    BY <1>0, <1>2, <2>1 DEF WorkflowInv, RepeatSound, ToCollect
  <2>4. Len(batches') <= faults' + (IF saved'.batch > 0 \/ At("save")' THEN 1 ELSE 0)
    BY <1>0, <1>1, <1>2, <1>4, <2>1 DEF WorkflowInv, RepeatSound, At
  <2>5. QED BY <1>0, <1>1, <1>2, <2>2, <2>3, <2>4 DEF WorkflowInv, RepeatSound, At
<1>13. QED BY <1>5, <1>6, <1>8, <1>9, <1>10, <1>11, <1>12 DEF WorkflowInv

LEMMA InvSaveBatch == ASSUME WorkflowInv, InPhase, SaveBatch PROVE WorkflowInv'
<1>0. /\ ph \in Phase /\ batches \in Seq(Batch) /\ saved.batch = 0 /\ ph.item = {}
      /\ ph.at = "save" /\ Len(batches) > 0 /\ batches[Len(batches)].items = Pending
      /\ ph.name \in Extracting /\ config.batch /\ "collected" \notin marks
  BY DEF SaveBatch, At, WorkflowInv, TypeOK, PhaseSound, BatchSound, SequentialSound
<1>1. /\ ph' \in Phase /\ ph'.name = ph.name /\ ph'.item = ph.item /\ ph'.records = ph.records
      /\ ph'.at = (IF ph.name = "submit" THEN "end" ELSE "inline")
  BY <1>0 DEF SaveBatch, Phase, Places
<1>2. UNCHANGED <<config, batches, rows, calls, events, faults>> /\ marks' = marks \cup {"submitted"}
  BY DEF SaveBatch, InPhase, wfvars
<1>3. saved' = [batch |-> Len(batches), status |-> "submitted"] /\ saved'.batch = Len(batches)
  BY DEF SaveBatch, LatestBatch
<1>4. TypeOK'
  BY <1>0, <1>1, <1>2, <1>3 DEF WorkflowInv, TypeOK, InPhase, wfvars, StageMarks
<1>5. UsageCountedOnce' /\ RecordedMeansMarked'
  BY <1>2, UsageStill, RecordedFrame DEF InPhase
<1>6. /\ \A c \in Cases : c \in marks' <=> c \in marks
      /\ Pending' = Pending /\ TheBatch'.items = Pending
  <2>1. \A c \in Cases : c \in marks' <=> c \in marks
    BY <1>2, NamesAssumption DEF StageMarks
  <2>2. QED BY <1>0, <1>2, <1>3, <2>1 DEF Pending, TheBatch
<1>7. ExtractionSound'
  BY <1>0, <1>2, <1>6 DEF WorkflowInv, ExtractionSound
<1>8. PhaseSound'
  BY <1>0, <1>1, <1>2, PhaseFrame DEF WorkflowInv, PhaseSound
<1>9. Progress' /\ SequentialSound'
  BY <1>0, <1>1, <1>2 DEF WorkflowInv, Progress, SequentialSound, At, Extracting, Evaluations
<1>10. BatchSound'
  <2>1. \A c \in Cases : c \in TheBatch'.items \/ rows'[c] > 0 \/ c \in marks'
    <3>1. \A c \in Cases : rows[c] \in Nat
      BY DEF WorkflowInv, TypeOK, Keys
    <3>2. QED BY <1>2, <1>6, <3>1 DEF Pending
  <2>2. QED BY <1>0, <1>1, <1>2, <1>3, <2>1 DEF BatchSound, At
<1>11. RepeatSound'
  <2>1. faults \in Nat /\ Len(batches) \in Nat /\ \A c \in Cases : calls[c] \in Nat /\ rows[c] \in Nat
    BY <1>0, FaultAssumption DEF WorkflowInv, TypeOK, Keys
  <2>2. ASSUME NEW c \in Cases
        PROVE  calls'[c] <= faults' + (IF Bought(c)' THEN 1 ELSE 0)
    <3>1. Bought(c)'
      BY <1>0, <1>3 DEF Bought
    <3>2. QED BY <1>2, <2>1, <3>1 DEF WorkflowInv, RepeatSound
  <2>3. ASSUME NEW c \in Cases
        PROVE  rows'[c] <= faults' + (IF ToCollect(c)' THEN 0 ELSE 1)
    <3>1. ToCollect(c)' => rows[c] = 0
      BY <1>6, <2>1 DEF ToCollect, Pending
    <3>2. QED BY <1>2, <2>1, <3>1, <1>0 DEF WorkflowInv, RepeatSound, ToCollect
  <2>4. Len(batches') <= faults' + (IF saved'.batch > 0 \/ At("save")' THEN 1 ELSE 0)
    BY <1>0, <1>2, <1>3, <2>1 DEF WorkflowInv, RepeatSound, At
  <2>5. QED BY <1>0, <1>1, <1>2, <1>3, <2>2, <2>3, <2>4 DEF WorkflowInv, RepeatSound, At
<1>12. QED BY <1>4, <1>5, <1>7, <1>8, <1>9, <1>10, <1>11 DEF WorkflowInv

\* Repetitions, when more is marked.
LEMMA RepeatMarks ==
    ASSUME WorkflowInv, UNCHANGED <<batches, rows, calls, faults>>, saved'.batch = saved.batch,
           "compiled" \in marks' <=> "compiled" \in marks,
           \A c \in Cases : Bought(c) => Bought(c)',
           \A c \in Cases : ToCollect(c)' => ToCollect(c),
           At("save") => At("save")', At("synthesized")' => "compiled" \notin marks
    PROVE  RepeatSound'
<1>1. \A c \in Cases : calls[c] \in Nat /\ rows[c] \in Nat
  BY DEF WorkflowInv, TypeOK, Keys
<1>2. faults \in Nat /\ Len(batches) \in Nat
  BY FaultAssumption DEF WorkflowInv, TypeOK
<1>3. QED BY <1>1, <1>2 DEF WorkflowInv, RepeatSound

LEMMA InvMarkItem == ASSUME WorkflowInv, InPhase, MarkItem PROVE WorkflowInv'
<1>0. /\ ph \in Phase /\ ph.at = "itemmark" /\ ph.item \subseteq ph.todo /\ ph.todo \subseteq Cases
      /\ ph.name \in Extracting /\ ph.name # "submit"
      /\ saved.batch > 0 /\ "collected" \notin marks /\ TheBatch.ended # "no"
  BY DEF MarkItem, At, WorkflowInv, TypeOK, PhaseSound, BatchSound, Phase
<1>1. /\ ph' \in Phase /\ ph'.name = ph.name /\ ph'.item = {} /\ ph'.records = ph.records
      /\ ph'.at = "item" /\ ph'.todo = ph.todo \ ph.item
  BY <1>0 DEF MarkItem, Phase, Places
<1>2. UNCHANGED <<config, batches, saved, rows, calls, events, faults>> /\ marks' = marks \cup ph.item
  BY DEF MarkItem, InPhase, wfvars
<1>3. \A m \in StageMarks : m \in marks' <=> m \in marks
  BY <1>0, <1>2, NamesAssumption
<1>4. TypeOK'
  BY <1>0, <1>1, <1>2 DEF WorkflowInv, TypeOK, InPhase, wfvars
<1>5. UsageCountedOnce' /\ RecordedMeansMarked'
  BY <1>2, UsageStill, RecordedFrame DEF InPhase
<1>6. Pending' \subseteq Pending /\ TheBatch' = TheBatch
  BY <1>2 DEF Pending, TheBatch
<1>7. ExtractionSound'
  BY <1>2, <1>3, <1>6 DEF WorkflowInv, ExtractionSound, Succeeded, StageMarks
<1>8. PhaseSound'
  BY <1>0, <1>1, <1>2, PhaseFrame DEF WorkflowInv, PhaseSound
<1>9. Progress' /\ SequentialSound'
  BY <1>0, <1>1, <1>2, <1>3 DEF WorkflowInv, Progress, SequentialSound, At, StageMarks
<1>10. BatchSound'
  BY <1>0, <1>1, <1>2, <1>3, <1>6 DEF WorkflowInv, BatchSound, At, StageMarks, Succeeded
<1>11. RepeatSound'
  <2>1. \A c \in Cases : (Bought(c) => Bought(c)') /\ (ToCollect(c)' => ToCollect(c))
    BY <1>0, <1>1, <1>2, <1>3, <1>6 DEF Bought, ToCollect, At, StageMarks
  <2>2. QED BY <1>0, <1>1, <1>2, <1>3, <2>1, RepeatMarks DEF At, StageMarks
<1>12. QED BY <1>4, <1>5, <1>7, <1>8, <1>9, <1>10, <1>11 DEF WorkflowInv

LEMMA InvMarkExtracted == ASSUME WorkflowInv, InPhase, MarkExtracted PROVE WorkflowInv'
<1>0. /\ ph \in Phase /\ ph.at = "item" /\ ph.todo = {} /\ ph.item = {}
      /\ ph.name \in Extracting /\ ph.name # "submit"
      /\ saved.batch > 0 /\ "collected" \notin marks /\ TheBatch.ended # "no"
      /\ \A c \in Succeeded(TheBatch) : c \in marks
  BY DEF MarkExtracted, At, WorkflowInv, TypeOK, PhaseSound, BatchSound, SequentialSound
<1>1. /\ ph' \in Phase /\ ph'.name = ph.name /\ ph'.item = {} /\ ph'.records = ph.records
      /\ ph'.at = "marked"
  BY <1>0 DEF MarkExtracted, Goto, Phase, Places
<1>2. UNCHANGED <<config, batches, rows, calls, events, faults>> /\ marks' = marks \cup {"extracting"}
  BY DEF MarkExtracted, InPhase, wfvars
<1>3. \A c \in Cases : c \in marks' <=> c \in marks
  BY <1>2, NamesAssumption DEF StageMarks
<1>t. /\ saved' \in [batch: Nat, status: {"none", "submitted", "completed", "partial", "failed", "expired"}]
      /\ saved'.batch = saved.batch
  <2>1. ResultStatus(TheBatch) \in {"completed", "partial", "failed", "expired"}
    BY DEF ResultStatus
  <2>2. QED BY <2>1 DEF MarkExtracted, WorkflowInv, TypeOK
<1>4. TypeOK'
  BY <1>0, <1>1, <1>2, <1>t DEF WorkflowInv, TypeOK, InPhase, wfvars, StageMarks
<1>5. UsageCountedOnce' /\ RecordedMeansMarked'
  BY <1>2, UsageStill, RecordedFrame DEF InPhase
<1>6. Pending' = Pending /\ TheBatch' = TheBatch
  BY <1>2, <1>3, <1>t DEF Pending, TheBatch
<1>7. ExtractionSound'
  <2>1. \A c \in Pending : c \in TheBatch.items \ Succeeded(TheBatch)
    BY <1>0 DEF WorkflowInv, BatchSound, Pending
  <2>2. QED BY <1>0, <1>t, <1>6, <2>1 DEF ExtractionSound, Succeeded
<1>8. PhaseSound'
  BY <1>0, <1>1, <1>2, PhaseFrame DEF WorkflowInv, PhaseSound
<1>9. Progress' /\ SequentialSound'
  BY <1>0, <1>1, <1>2, <1>3 DEF WorkflowInv, Progress, SequentialSound, At
<1>10. BatchSound'
  BY <1>0, <1>1, <1>2, <1>3, <1>t, <1>6 DEF WorkflowInv, BatchSound, At
<1>11. RepeatSound'
  <2>1. \A c \in Cases : (Bought(c) => Bought(c)') /\ (ToCollect(c)' => ToCollect(c))
    BY <1>0, <1>1, <1>2, <1>3, <1>t, <1>6 DEF Bought, ToCollect, At
  <2>2. QED BY <1>0, <1>1, <1>2, <1>t, <2>1, RepeatMarks DEF At
<1>12. QED BY <1>4, <1>5, <1>7, <1>8, <1>9, <1>10, <1>11 DEF WorkflowInv

LEMMA InvMarkCollected == ASSUME WorkflowInv, InPhase, MarkCollected PROVE WorkflowInv'
<1>0. /\ ph \in Phase /\ ph.at = "marked" /\ ph.item = {}
      /\ ph.name \in Extracting /\ ph.name # "submit"
      /\ saved.batch > 0 /\ "extracting" \in marks
  BY DEF MarkCollected, At, WorkflowInv, TypeOK, PhaseSound, Progress, BatchSound, SequentialSound
<1>1. /\ ph' \in Phase /\ ph'.name = ph.name /\ ph'.item = {} /\ ph'.records = ph.records
      /\ ph'.at = "embed"
  BY <1>0 DEF MarkCollected, Goto, AfterExtraction, Phase, Places
<1>2. UNCHANGED <<config, batches, saved, rows, calls, events, faults>> /\ marks' = marks \cup {"collected"}
  BY DEF MarkCollected, InPhase, wfvars
<1>3. \A c \in Cases : c \in marks' <=> c \in marks
  BY <1>2, NamesAssumption DEF StageMarks
<1>4. TypeOK'
  BY <1>0, <1>1, <1>2 DEF WorkflowInv, TypeOK, InPhase, wfvars, StageMarks
<1>5. UsageCountedOnce' /\ RecordedMeansMarked'
  BY <1>2, UsageStill, RecordedFrame DEF InPhase
<1>6. Pending' = Pending /\ TheBatch' = TheBatch
  BY <1>2, <1>3 DEF Pending, TheBatch
<1>7. ExtractionSound'
  BY <1>2, <1>6 DEF WorkflowInv, ExtractionSound, Succeeded
<1>8. PhaseSound'
  BY <1>0, <1>1, <1>2, PhaseFrame DEF WorkflowInv, PhaseSound, Extracting
<1>9. Progress' /\ SequentialSound'
  BY <1>0, <1>1, <1>2, <1>3 DEF WorkflowInv, Progress, SequentialSound, At
<1>10. BatchSound'
  BY <1>0, <1>1, <1>2, <1>3, <1>6 DEF WorkflowInv, BatchSound, At
<1>11. RepeatSound'
  <2>1. \A c \in Cases : (Bought(c) => Bought(c)') /\ (ToCollect(c)' => ToCollect(c))
    BY <1>0, <1>1, <1>2, <1>3, <1>6 DEF Bought, ToCollect, At
  <2>2. QED BY <1>0, <1>1, <1>2, <2>1, RepeatMarks DEF At
<1>12. QED BY <1>4, <1>5, <1>7, <1>8, <1>9, <1>10, <1>11 DEF WorkflowInv

LEMMA InvCollectItem ==
    ASSUME WorkflowInv, InPhase, NEW c \in Cases, CollectItem(c)
    PROVE  WorkflowInv'
<1>0. /\ ph \in Phase /\ ph.at = "item" /\ c \in ph.todo /\ ph.item = {} /\ rows \in [Keys -> Nat]
      /\ ph.name \in Extracting /\ ph.name # "submit"
      /\ saved.batch > 0 /\ "collected" \notin marks /\ TheBatch.ended # "no"
      /\ c \in TheBatch.items /\ c \in Keys
  BY DEF CollectItem, At, WorkflowInv, TypeOK, PhaseSound, BatchSound, SequentialSound, Keys
<1>1. /\ ph' \in Phase /\ ph'.name = ph.name /\ ph'.records = ph.records
      /\ c \in Succeeded(TheBatch) => ph'.at = "itemmark" /\ ph'.item = {c} /\ ph'.todo = ph.todo
      /\ c \notin Succeeded(TheBatch) =>
            ph'.at = "item" /\ ph'.item = {} /\ ph'.todo = ph.todo \ {c}
  <2>1. CASE c \in Succeeded(TheBatch)
    <3>1. ph' = [ph EXCEPT !.at = "itemmark", !.item = {c}]
      BY <2>1 DEF CollectItem
    <3>2. QED BY <1>0, <2>1, <3>1 DEF Phase, Places
  <2>2. CASE c \notin Succeeded(TheBatch)
    <3>1. ph' = [ph EXCEPT !.todo = @ \ {c}]
      BY <2>2 DEF CollectItem
    <3>2. QED BY <1>0, <2>2, <3>1 DEF Phase, Places
  <2>3. QED BY <2>1, <2>2
<1>2. UNCHANGED <<config, batches, saved, marks, calls, events, faults>>
  BY DEF CollectItem, InPhase, wfvars
<1>3. /\ rows' \in [Keys -> Nat] /\ \A k \in Keys : rows'[k] >= rows[k]
      /\ \A k \in Keys \ {c} : rows'[k] = rows[k]
      /\ rows'[c] <= rows[c] + 1
  BY <1>0 DEF CollectItem
<1>t. rows'["synth"] = rows["synth"]
  BY <1>3, NamesAssumption DEF Keys
<1>4. TypeOK'
  BY <1>0, <1>1, <1>2, <1>3 DEF WorkflowInv, TypeOK, InPhase, wfvars
<1>5. UsageCountedOnce' /\ RecordedMeansMarked'
  BY <1>2, UsageStill, RecordedFrame DEF InPhase
<1>6. Pending' \subseteq Pending /\ TheBatch' = TheBatch
  <2>1. \A d \in Cases : rows[d] \in Nat /\ rows'[d] \in Nat /\ rows'[d] >= rows[d]
    BY <1>0, <1>3 DEF Keys
  <2>2. QED BY <1>2, <2>1 DEF Pending, TheBatch
<1>7. ExtractionSound'
  BY <1>2, <1>6 DEF WorkflowInv, ExtractionSound, Succeeded
<1>8. PhaseSound'
  BY <1>0, <1>1, <1>2, PhaseFrame DEF WorkflowInv, PhaseSound
<1>9. Progress' /\ SequentialSound'
  BY <1>0, <1>1, <1>2 DEF WorkflowInv, Progress, SequentialSound, At
<1>10. BatchSound'
  <2>1. \A d \in Cases : d \in TheBatch'.items \/ rows'[d] > 0 \/ d \in marks'
    <3>1. \A d \in Cases : rows[d] \in Nat /\ rows'[d] \in Nat /\ rows'[d] >= rows[d]
      BY <1>0, <1>3 DEF Keys
    <3>2. QED BY <1>0, <1>2, <1>6, <3>1 DEF WorkflowInv, BatchSound
  <2>2. /\ \A d \in Succeeded(TheBatch)' : d \in ph'.todo \/ d \in marks'
        /\ ph'.todo \subseteq TheBatch'.items
    BY <1>0, <1>1, <1>2, <1>6 DEF WorkflowInv, BatchSound, Succeeded, At
  <2>3. QED BY <1>0, <1>1, <1>2, <1>6, <2>1, <2>2 DEF WorkflowInv, BatchSound, At
<1>11. RepeatSound'
  <2>1. faults \in Nat /\ Len(batches) \in Nat
        /\ \A d \in Cases : calls[d] \in Nat /\ rows[d] \in Nat /\ rows'[d] \in Nat
    BY <1>0, <1>3, FaultAssumption DEF WorkflowInv, TypeOK, Keys
  <2>2. ASSUME NEW d \in Cases
        PROVE  calls'[d] <= faults' + (IF Bought(d)' THEN 1 ELSE 0)
    <3>1. Bought(d)'
      BY <1>0, <1>2 DEF Bought
    <3>2. QED BY <1>2, <2>1, <3>1 DEF WorkflowInv, RepeatSound
  <2>3. ASSUME NEW d \in Cases
        PROVE  rows'[d] <= faults' + (IF ToCollect(d)' THEN 0 ELSE 1)
    <3>1. CASE d = c
      <4>1. ToCollect(c) /\ ~ToCollect(c)'
        BY <1>0, <1>1, <1>6 DEF ToCollect, At
      <4>2. rows[c] <= faults
        BY <2>1, <4>1 DEF WorkflowInv, RepeatSound
      <4>3. QED BY <1>2, <1>3, <2>1, <3>1, <4>1, <4>2
    <3>2. CASE d # c
      <4>1. ToCollect(d)' => ToCollect(d)
        BY <1>0, <1>1, <1>2, <1>6, <3>2 DEF ToCollect, At
      <4>2. rows'[d] = rows[d]
        BY <1>3, <3>2 DEF Keys
      <4>3. QED BY <1>2, <2>1, <4>1, <4>2 DEF WorkflowInv, RepeatSound
    <3>3. QED BY <3>1, <3>2
  <2>4. Len(batches') <= faults' + (IF saved'.batch > 0 \/ At("save")' THEN 1 ELSE 0)
    BY <1>0, <1>2, <2>1 DEF WorkflowInv, RepeatSound
  <2>5. QED BY <1>0, <1>1, <1>2, <1>t, <2>2, <2>3, <2>4 DEF WorkflowInv, RepeatSound, At
<1>12. QED BY <1>4, <1>5, <1>7, <1>8, <1>9, <1>10, <1>11 DEF WorkflowInv

-----------------------------------------------------------------------------
(* Case by case *)

LEMMA InvExtractCase ==
    ASSUME WorkflowInv, InPhase, NEW c \in Cases, ExtractCase(c)
    PROVE  WorkflowInv'
<1>0. /\ ph \in Phase /\ ph.at = "sequential" /\ c \in ph.todo /\ c \notin marks /\ ph.item = {}
      /\ calls \in [Keys -> Nat] /\ c \in Keys /\ saved.batch = 0 /\ rows[c] = 0
      /\ ph.name \in Extracting /\ ph.records \subseteq Keys
  BY DEF ExtractCase, At, WorkflowInv, TypeOK, PhaseSound, SequentialSound, Keys, Phase
<1>1. /\ ph' \in Phase /\ ph'.name = ph.name /\ ph'.item = {c} /\ ph'.todo = ph.todo
      /\ ph'.records = ph.records \cup {c} /\ ph'.at = "answered"
  BY <1>0 DEF ExtractCase, Phase, Places
<1>2. UNCHANGED <<config, batches, saved, marks, rows, events, faults>>
  BY DEF ExtractCase, tables, InPhase, wfvars
<1>3. /\ calls' \in [Keys -> Nat] /\ \A k \in Keys : calls'[k] >= calls[k]
      /\ \A k \in Keys \ {c} : calls'[k] = calls[k]
      /\ calls'[c] = calls[c] + 1
  BY <1>0 DEF ExtractCase, Record
<1>4. TypeOK'
  BY <1>1, <1>2, <1>3 DEF WorkflowInv, TypeOK, InPhase, wfvars
<1>5. UsageCountedOnce' /\ RecordedMeansMarked'
  BY <1>2, <1>3, UsageFrame, RecordedFrame DEF InPhase
<1>6. Pending' = Pending /\ TheBatch' = TheBatch /\ ExtractionSound'
  BY <1>2, TablesFrame
<1>8. PhaseSound'
  <2>1. \A k \in ph'.records : calls'[k] > 0
    BY <1>0, <1>1, <1>3 DEF WorkflowInv, PhaseSound
  <2>2. QED BY <1>0, <1>1, <2>1, PhaseFrame
<1>9. Progress' /\ SequentialSound' /\ BatchSound'
  BY <1>0, <1>1, <1>2, <1>6 DEF WorkflowInv, Progress, SequentialSound, BatchSound, At
<1>11. RepeatSound'
  <2>1. faults \in Nat /\ Len(batches) \in Nat
        /\ \A d \in Cases : calls[d] \in Nat /\ calls'[d] \in Nat /\ rows[d] \in Nat
    BY <1>0, <1>3, FaultAssumption DEF WorkflowInv, TypeOK, Keys
  <2>2. ASSUME NEW d \in Cases
        PROVE  calls'[d] <= faults' + (IF Bought(d)' THEN 1 ELSE 0)
    <3>1. CASE d = c
      <4>1. ~Bought(c) /\ Bought(c)'
        BY <1>0, <1>1 DEF Bought, At
      <4>2. calls[c] <= faults
        BY <2>1, <4>1 DEF WorkflowInv, RepeatSound
      <4>3. QED BY <1>2, <1>3, <2>1, <3>1, <4>1, <4>2
    <3>2. CASE d # c
      <4>1. Bought(d) => Bought(d)'
        BY <1>0, <1>1, <1>2, <1>6 DEF Bought, At
      <4>2. calls'[d] = calls[d]
        BY <1>3, <3>2 DEF Keys
      <4>3. QED BY <1>2, <2>1, <4>1, <4>2 DEF WorkflowInv, RepeatSound
    <3>3. QED BY <3>1, <3>2
  <2>3. ASSUME NEW d \in Cases
        PROVE  rows'[d] <= faults' + (IF ToCollect(d)' THEN 0 ELSE 1) /\ rows'[d] <= 1
    BY <1>0, <1>2, <2>1 DEF WorkflowInv, RepeatSound, ToCollect
  <2>4. Len(batches') <= faults' + (IF saved'.batch > 0 \/ At("save")' THEN 1 ELSE 0)
    BY <1>0, <1>2, <2>1 DEF WorkflowInv, RepeatSound, At
  <2>5. QED BY <1>0, <1>1, <1>2, <2>2, <2>3, <2>4 DEF WorkflowInv, RepeatSound, At
<1>12. QED BY <1>4, <1>5, <1>6, <1>8, <1>9, <1>11 DEF WorkflowInv

LEMMA InvWriteAnswer ==
    ASSUME WorkflowInv, InPhase, NEW n \in {0, 1}, WriteAnswer(n)
    PROVE  WorkflowInv'
<1>0. /\ ph \in Phase /\ ph.at = "answered" /\ saved.batch = 0 /\ rows \in [Keys -> Nat]
      /\ ph.name \in Extracting /\ ph.item \subseteq Cases
      /\ \A c \in ph.item : rows[c] = 0
  BY DEF WriteAnswer, At, WorkflowInv, TypeOK, PhaseSound, SequentialSound, Phase
<1>1. /\ ph' \in Phase /\ ph'.name = ph.name /\ ph'.item = ph.item /\ ph'.todo = ph.todo
      /\ ph'.records = ph.records /\ ph'.at = "casemark"
  BY <1>0 DEF WriteAnswer, Goto, Phase, Places
<1>2. UNCHANGED <<config, batches, saved, marks, calls, events, faults>>
  BY DEF WriteAnswer, InPhase, wfvars
<1>3. /\ rows' \in [Keys -> Nat]
      /\ \A k \in Keys : rows'[k] >= rows[k]
      /\ \A k \in Keys : k \notin ph.item => rows'[k] = rows[k]
      /\ \A k \in Keys : k \in ph.item => rows'[k] <= 1
  BY <1>0 DEF WriteAnswer, Keys
<1>t. rows'["synth"] = rows["synth"]
  BY <1>0, <1>3, NamesAssumption DEF Keys
<1>4. TypeOK'
  BY <1>1, <1>2, <1>3 DEF WorkflowInv, TypeOK, InPhase, wfvars
<1>5. UsageCountedOnce' /\ RecordedMeansMarked'
  BY <1>2, UsageStill, RecordedFrame DEF InPhase
<1>m. \A c \in Cases : /\ rows[c] \in Nat /\ rows'[c] \in Nat /\ rows'[c] >= rows[c]
                       /\ c \notin ph.item => rows'[c] = rows[c]
                       /\ c \in ph.item => rows'[c] <= 1
  BY <1>0, <1>3 DEF Keys
<1>6. Pending' \subseteq Pending /\ TheBatch' = TheBatch
  BY <1>2, <1>m DEF Pending, TheBatch
<1>7. ExtractionSound'
  BY <1>2, <1>6 DEF WorkflowInv, ExtractionSound, Succeeded
<1>8. PhaseSound'
  BY <1>0, <1>1, <1>2, PhaseFrame DEF WorkflowInv, PhaseSound
<1>9. Progress' /\ BatchSound'
  BY <1>0, <1>1, <1>2 DEF WorkflowInv, Progress, BatchSound, At
<1>10. SequentialSound'
  <2>1. ph.todo \subseteq Cases
    BY <1>0 DEF Phase
  <2>2. \A c \in Cases : c \in ph'.todo \/ rows'[c] > 0 \/ c \in marks'
    BY <1>0, <1>1, <1>2, <1>m DEF WorkflowInv, SequentialSound
  <2>3. \A c \in ph'.todo \ ph'.item : rows'[c] = 0
    BY <1>0, <1>1, <1>m, <2>1 DEF WorkflowInv, SequentialSound
  <2>4. QED BY <1>0, <1>1, <1>2, <2>2, <2>3 DEF WorkflowInv, SequentialSound, At
<1>11. RepeatSound'
  <2>1. faults \in Nat /\ Len(batches) \in Nat /\ \A d \in Cases : calls[d] \in Nat
    BY FaultAssumption DEF WorkflowInv, TypeOK, Keys
  <2>2. ASSUME NEW d \in Cases
        PROVE  calls'[d] <= faults' + (IF Bought(d)' THEN 1 ELSE 0)
    <3>1. Bought(d) => Bought(d)'
      BY <1>0, <1>1, <1>2, <1>m DEF Bought, At
    <3>2. QED BY <1>2, <2>1, <3>1 DEF WorkflowInv, RepeatSound
  <2>3. ASSUME NEW d \in Cases
        PROVE  rows'[d] <= faults' + (IF ToCollect(d)' THEN 0 ELSE 1) /\ rows'[d] <= 1
    <3>1. rows[d] <= 1 /\ ~ToCollect(d)'
      BY <1>0, <1>2 DEF WorkflowInv, RepeatSound, ToCollect
    <3>2. rows'[d] <= 1
      BY <1>m, <3>1
    <3>3. QED BY <1>2, <1>m, <2>1, <3>1, <3>2
  <2>4. Len(batches') <= faults' + (IF saved'.batch > 0 \/ At("save")' THEN 1 ELSE 0)
    BY <1>0, <1>2, <2>1 DEF WorkflowInv, RepeatSound, At
  <2>5. QED BY <1>0, <1>1, <1>2, <1>t, <2>2, <2>3, <2>4 DEF WorkflowInv, RepeatSound, At
<1>12. QED BY <1>4, <1>5, <1>7, <1>8, <1>9, <1>10, <1>11 DEF WorkflowInv

LEMMA InvMarkCase == ASSUME WorkflowInv, InPhase, MarkCase PROVE WorkflowInv'
<1>0. /\ ph \in Phase /\ ph.at = "casemark" /\ saved.batch = 0
      /\ ph.name \in Extracting /\ ph.item \subseteq ph.todo /\ ph.todo \subseteq Cases
  BY DEF MarkCase, At, WorkflowInv, TypeOK, PhaseSound, SequentialSound, Phase
<1>1. /\ ph' \in Phase /\ ph'.name = ph.name /\ ph'.item = {} /\ ph'.records = ph.records
      /\ ph'.at = "sequential" /\ ph'.todo = ph.todo \ ph.item
  BY <1>0 DEF MarkCase, Phase, Places
<1>2. UNCHANGED <<config, batches, saved, rows, calls, events, faults>> /\ marks' = marks \cup ph.item
  BY DEF MarkCase, InPhase, wfvars
<1>3. \A m \in StageMarks : m \in marks' <=> m \in marks
  BY <1>0, <1>2, NamesAssumption
<1>4. TypeOK'
  BY <1>0, <1>1, <1>2 DEF WorkflowInv, TypeOK, InPhase, wfvars
<1>5. UsageCountedOnce' /\ RecordedMeansMarked'
  BY <1>2, UsageStill, RecordedFrame DEF InPhase
<1>6. Pending' \subseteq Pending /\ TheBatch' = TheBatch
  BY <1>2 DEF Pending, TheBatch
<1>7. ExtractionSound'
  BY <1>2, <1>3, <1>6 DEF WorkflowInv, ExtractionSound, Succeeded, StageMarks
<1>8. PhaseSound'
  BY <1>0, <1>1, <1>2, PhaseFrame DEF WorkflowInv, PhaseSound
<1>9. Progress' /\ SequentialSound' /\ BatchSound'
  BY <1>0, <1>1, <1>2, <1>3 DEF WorkflowInv, Progress, SequentialSound, BatchSound, At, StageMarks
<1>11. RepeatSound'
  <2>1. \A c \in Cases : (Bought(c) => Bought(c)') /\ (ToCollect(c)' => ToCollect(c))
    BY <1>0, <1>1, <1>2, <1>3, <1>6 DEF Bought, ToCollect, At, StageMarks
  <2>2. QED BY <1>0, <1>1, <1>2, <1>3, <2>1, RepeatMarks DEF At, StageMarks
<1>12. QED BY <1>4, <1>5, <1>7, <1>8, <1>9, <1>11 DEF WorkflowInv

LEMMA InvEndSequential == ASSUME WorkflowInv, InPhase, EndSequential PROVE WorkflowInv'
<1>0. /\ ph \in Phase /\ ph.at = "sequential" /\ ph.todo = {} /\ ph.item = {} /\ saved.batch = 0
      /\ ph.name \in Extracting /\ Pending = {}
  BY DEF EndSequential, At, WorkflowInv, TypeOK, PhaseSound, SequentialSound, Pending
<1>1. /\ ph' \in Phase /\ ph'.name = ph.name /\ ph'.item = {} /\ ph'.records = ph.records
      /\ ph'.at = (IF ph.name = "submit" THEN "end" ELSE "embed")
  BY <1>0 DEF EndSequential, Goto, AfterExtraction, Phase, Places
<1>2. UNCHANGED <<config, batches, saved, rows, calls, events, faults>> /\ marks' = marks \cup {"extracting"}
  BY DEF EndSequential, InPhase, wfvars
<1>3. \A c \in Cases : c \in marks' <=> c \in marks
  BY <1>2, NamesAssumption DEF StageMarks
<1>4. TypeOK'
  BY <1>0, <1>1, <1>2 DEF WorkflowInv, TypeOK, InPhase, wfvars, StageMarks
<1>5. UsageCountedOnce' /\ RecordedMeansMarked'
  BY <1>2, UsageStill, RecordedFrame DEF InPhase
<1>6. Pending' = Pending /\ TheBatch' = TheBatch
  BY <1>2, <1>3 DEF Pending, TheBatch
<1>7. ExtractionSound'
  BY <1>0, <1>6 DEF ExtractionSound
<1>8. PhaseSound'
  BY <1>0, <1>1, <1>2, PhaseFrame DEF WorkflowInv, PhaseSound, Extracting
<1>9. Progress' /\ SequentialSound' /\ BatchSound'
  BY <1>0, <1>1, <1>2, <1>3 DEF WorkflowInv, Progress, SequentialSound, BatchSound, At,
     Extracting, Evaluations
<1>11. RepeatSound'
  <2>1. \A c \in Cases : (Bought(c) => Bought(c)') /\ (ToCollect(c)' => ToCollect(c))
    BY <1>0, <1>1, <1>2, <1>3, <1>6 DEF Bought, ToCollect, At
  <2>2. QED BY <1>0, <1>1, <1>2, <2>1, RepeatMarks DEF At
<1>12. QED BY <1>4, <1>5, <1>7, <1>8, <1>9, <1>11 DEF WorkflowInv

-----------------------------------------------------------------------------
(* The provider *)

LEMMA InvEndBatch ==
    ASSUME WorkflowInv, NEW i \in DOMAIN batches, EndBatch(i), UNCHANGED wfvars
    PROVE  WorkflowInv'
<1>0. /\ batches \in Seq(Batch) /\ i = saved.batch /\ saved.batch > 0 /\ batches[i] \in Batch
      /\ TheBatch = batches[i] /\ TheBatch.ended = "no" /\ i \in 1..Len(batches)
  <2>1. i \in 1..Len(batches) /\ batches \in Seq(Batch) /\ i = saved.batch
    BY DEF EndBatch, WorkflowInv, TypeOK
  <2>2. TheBatch = batches[i]
    BY <2>1 DEF TheBatch
  <2>3. batches[i].ended = "no"
    BY DEF EndBatch
  <2>4. batches[i] \in Batch
    BY <2>1
  <2>5. saved.batch > 0
    BY <2>1
  <2>6. QED BY <2>1, <2>2, <2>3, <2>4, <2>5
<1>1. PICK how \in {"completed", "failed", "expired"}, out \in [Cases -> Outcomes] :
          batches' = [batches EXCEPT ![i].ended = how, ![i].outcome = out]
  <2>1. PICK how \in {"completed", "failed", "expired"}, out \in [Cases -> Outcomes] :
            /\ \A c \in Cases : c \notin batches[i].items => out[c] = "missing"
            /\ how = "completed" => \A c \in batches[i].items : out[c] # "missing"
            /\ how = "failed" => \A c \in Cases : out[c] = "missing"
            /\ batches' = [batches EXCEPT ![i].ended = how, ![i].outcome = out]
    BY Zenon DEF EndBatch
  <2>2. batches' = [batches EXCEPT ![i].ended = how, ![i].outcome = out]
    BY <2>1
  <2> QED
    BY <2>2
<1>2. UNCHANGED <<config, saved, marks, rows, calls, events, ph, wf, running, claim, faults>>
  BY DEF EndBatch, tables, wfvars
<1>3. /\ batches' \in Seq(Batch) /\ Len(batches') = Len(batches)
      /\ TheBatch'.items = TheBatch.items /\ TheBatch'.ended = how
  <2>1. DEFINE b == [batches[i] EXCEPT !.ended = how, !.outcome = out]
  <2>2. b \in Batch /\ b.items = batches[i].items /\ b.ended = how
    BY <1>0 DEF Batch
  <2>3. batches' = [batches EXCEPT ![i] = b]
    BY <1>0, <1>1
  <2>4. QED
    <3> HIDE DEF b
    <3>1. batches' \in Seq(Batch) /\ Len(batches') = Len(batches) /\ batches'[i] = b
      BY <1>0, <2>2, <2>3
    <3>2. QED BY <1>0, <1>2, <2>2, <3>1 DEF TheBatch
<1>4. TypeOK'
  BY <1>0, <1>2, <1>3 DEF WorkflowInv, TypeOK
<1>5. PhaseSound' /\ RecordedMeansMarked' /\ UsageCountedOnce' /\ Progress' /\ SequentialSound'
  <2>1. Sequence' = Sequence
    BY <1>2 DEF Sequence
  <2>2. PhaseSound' /\ RecordedMeansMarked'
    BY <1>2, <2>1 DEF WorkflowInv, PhaseSound, RecordedMeansMarked, At
  <2>3. UsageCountedOnce' /\ Progress' /\ SequentialSound'
    BY <1>2 DEF WorkflowInv, UsageCountedOnce, Progress, SequentialSound, At
  <2>4. QED BY <2>2, <2>3
<1>6. Pending' = Pending
  BY <1>2 DEF Pending
<1>7. ExtractionSound'
  BY <1>0, <1>2, <1>6 DEF WorkflowInv, ExtractionSound
<1>8. BatchSound'
  BY <1>0, <1>2, <1>3, <1>6 DEF WorkflowInv, BatchSound, At
<1>9. RepeatSound'
  <2>1. \A c \in Cases : (Bought(c) <=> Bought(c)') /\ (ToCollect(c)' <=> ToCollect(c))
    BY <1>2, <1>3, <1>6 DEF Bought, ToCollect, At
  <2>2. QED BY <1>2, <1>3, <2>1 DEF WorkflowInv, RepeatSound, At
<1>10. QED BY <1>4, <1>5, <1>7, <1>8, <1>9 DEF WorkflowInv

-----------------------------------------------------------------------------
(* The workflow *)

\* Steps of the worker and of DBOS that leave the data and the phase alone.
LEMMA StillFrame ==
    ASSUME WorkflowInv, UNCHANGED <<data, ph>>, faults' \in Nat, faults' >= faults
    PROVE  /\ Progress' /\ UsageCountedOnce' /\ BatchSound' /\ SequentialSound'
           /\ ExtractionSound' /\ RepeatSound'
<1>0. UNCHANGED <<config, batches, saved, marks, rows, calls, events, ph>>
  BY DEF data
<1>1. Pending' = Pending /\ TheBatch' = TheBatch /\ ExtractionSound' /\ UsageCountedOnce'
  BY <1>0, TablesFrame, UsageStill
<1>2. Progress' /\ BatchSound' /\ SequentialSound'
  BY <1>0, <1>1 DEF WorkflowInv, Progress, BatchSound, SequentialSound, At
<1>3. RepeatSound'
  <2>1. faults \in Nat /\ Len(batches) \in Nat /\ \A d \in Cases : calls[d] \in Nat /\ rows[d] \in Nat
    BY FaultAssumption DEF WorkflowInv, TypeOK, Keys
  <2>2. \A c \in Cases : (Bought(c) <=> Bought(c)') /\ (ToCollect(c)' <=> ToCollect(c))
    BY <1>0, <1>1 DEF Bought, ToCollect, At
  <2>3. QED BY <1>0, <2>1, <2>2 DEF WorkflowInv, RepeatSound, At
<1>4. QED BY <1>1, <1>2, <1>3

\* Steps that enter a phase, leave it where it starts or ends, or give it up by a fault.
LEMMA OutsideFrame ==
    ASSUME WorkflowInv, UNCHANGED data, ph'.at \in {"off", "enter"}, ph'.item = {},
           \/ faults' = faults + 1
           \/ faults' = faults /\ ph.at \in {"off", "enter", "end"}
    PROVE  /\ Progress' /\ UsageCountedOnce' /\ BatchSound' /\ SequentialSound'
           /\ ExtractionSound' /\ RepeatSound'
<1>0. UNCHANGED <<config, batches, saved, marks, rows, calls, events>>
  BY DEF data
<1>1. Pending' = Pending /\ TheBatch' = TheBatch /\ ExtractionSound' /\ UsageCountedOnce'
  BY <1>0, TablesFrame, UsageStill
<1>2. Progress' /\ BatchSound' /\ SequentialSound'
  BY <1>0, <1>1 DEF WorkflowInv, Progress, BatchSound, SequentialSound, At
<1>3. RepeatSound'
  <2>1. faults \in Nat /\ Len(batches) \in Nat /\ \A d \in Cases : calls[d] \in Nat /\ rows[d] \in Nat
    BY FaultAssumption DEF WorkflowInv, TypeOK, Keys
  <2>2. CASE faults' = faults + 1
    <3>1. ASSUME NEW c \in Cases PROVE calls[c] <= faults + 1 /\ rows[c] <= faults + 1
      BY <2>1 DEF WorkflowInv, RepeatSound
    <3>2. Len(batches) <= faults + 1
      BY <2>1 DEF WorkflowInv, RepeatSound
    <3>3. QED BY <1>0, <2>1, <2>2, <3>1, <3>2 DEF WorkflowInv, RepeatSound, At
  <2>3. CASE faults' = faults /\ ph.at \in {"off", "enter", "end"}
    <3>1. \A c \in Cases : (Bought(c) <=> Bought(c)') /\ (ToCollect(c)' <=> ToCollect(c))
      BY <1>0, <1>1, <2>3 DEF Bought, ToCollect, At
    <3>2. QED BY <1>0, <2>1, <2>3, <3>1 DEF WorkflowInv, RepeatSound, At
  <2>4. QED BY <2>2, <2>3
<1>4. QED BY <1>1, <1>2, <1>3

LEMMA FaultTypes ==
    ASSUME TypeOK
    PROVE  /\ faults \in Nat /\ MaxFaults \in Nat /\ wf \in [status: Statuses, done: 0..8]
           /\ running \in BOOLEAN /\ NoPhase \in Phase
BY FaultAssumption DEF TypeOK, NoPhase, Phase, Phases, Places

LEMMA InvClaimJob == ASSUME WorkflowInv, ClaimJob PROVE WorkflowInv'
<1>0. UNCHANGED <<data, ph>> /\ faults' = faults /\ faults \in Nat
      /\ UNCHANGED <<config, batches, saved, marks, rows, calls, events>>
  BY FaultTypes DEF WorkflowInv, ClaimJob, data
<1>1. /\ Progress' /\ UsageCountedOnce' /\ BatchSound' /\ SequentialSound'
      /\ ExtractionSound' /\ RepeatSound'
  BY <1>0, StillFrame
<1>2. Sequence' = Sequence
  BY <1>0 DEF Sequence
<1>3. CASE StartsFresh
  <2>1. ph.at = "off"
    BY <1>3 DEF StartsFresh, ClaimJob, WorkflowInv, PhaseSound
  <2>2. wf' = [status |-> "PENDING", done |-> 0] /\ running' = TRUE /\ claim' = "claimed"
    BY <1>3 DEF ClaimJob
  <2>3. wf'.status = "PENDING" /\ wf'.done = 0 /\ wf' \in [status: Statuses, done: 0..8]
    BY <2>2 DEF Statuses
  <2>4. TypeOK'
    BY <1>0, <2>2, <2>3 DEF WorkflowInv, TypeOK
  <2>5. PhaseSound'
    <3>1. 0 < Len(Sequence)
      BY SequenceType DEF WorkflowInv
    <3>2. QED BY <1>0, <1>2, <2>1, <2>2, <2>3, <3>1 DEF WorkflowInv, PhaseSound, At
  <2>6. RecordedMeansMarked'
    BY <1>0, <2>2, <2>3 DEF RecordedMeansMarked
  <2>7. QED BY <1>1, <2>4, <2>5, <2>6 DEF WorkflowInv
<1>4. CASE ~StartsFresh
  <2>1. UNCHANGED <<wf, running>> /\ claim' = "claimed"
    BY <1>4 DEF ClaimJob
  <2>2. TypeOK'
    BY <1>0, <2>1 DEF WorkflowInv, TypeOK
  <2>3. PhaseSound' /\ RecordedMeansMarked'
    BY <1>0, <1>2, <2>1 DEF WorkflowInv, PhaseSound, RecordedMeansMarked, At
  <2>4. QED BY <1>1, <2>2, <2>3 DEF WorkflowInv
<1>5. QED BY <1>3, <1>4

LEMMA InvResultReturned == ASSUME WorkflowInv, ResultReturned PROVE WorkflowInv'
<1>0. UNCHANGED <<data, ph, wf, running>> /\ faults' = faults /\ faults \in Nat
      /\ UNCHANGED <<config, batches, saved, marks, rows, calls, events>>
      /\ claim' \in {"completed", "waiting"}
      /\ (claim' = "completed" => wf.status = "SUCCESS")
  BY FaultTypes DEF WorkflowInv, ResultReturned, data
<1>1. /\ Progress' /\ UsageCountedOnce' /\ BatchSound' /\ SequentialSound'
      /\ ExtractionSound' /\ RepeatSound'
  BY <1>0, StillFrame
<1>2. Sequence' = Sequence
  BY <1>0 DEF Sequence
<1>3. TypeOK'
  BY <1>0 DEF WorkflowInv, TypeOK
<1>4. PhaseSound' /\ RecordedMeansMarked'
  BY <1>0, <1>2 DEF WorkflowInv, PhaseSound, RecordedMeansMarked, At
<1>5. QED BY <1>1, <1>3, <1>4 DEF WorkflowInv

LEMMA InvCrash == ASSUME WorkflowInv, Crash PROVE WorkflowInv'
<1>0. UNCHANGED <<data, wf>> /\ faults' = faults + 1 /\ faults < MaxFaults
      /\ UNCHANGED <<config, batches, saved, marks, rows, calls, events>>
      /\ ph' = NoPhase /\ ph'.at = "off" /\ ph'.item = {} /\ ph'.records = {}
      /\ running' = FALSE /\ claim' = "down" /\ claim # "completed"
  BY DEF Crash, data, NoPhase
<1>1. /\ Progress' /\ UsageCountedOnce' /\ BatchSound' /\ SequentialSound'
      /\ ExtractionSound' /\ RepeatSound'
  BY <1>0, OutsideFrame
<1>2. Sequence' = Sequence
  BY <1>0 DEF Sequence
<1>3. TypeOK'
  <2>1. faults' \in 0..MaxFaults
    BY <1>0, FaultTypes DEF WorkflowInv
  <2>2. ph' \in Phase /\ running' \in BOOLEAN
    BY <1>0, FaultTypes DEF WorkflowInv
  <2>3. QED BY <1>0, <2>1, <2>2 DEF WorkflowInv, TypeOK
<1>4. PhaseSound'
  BY <1>0, <1>2 DEF WorkflowInv, PhaseSound, At
<1>5. RecordedMeansMarked'
  BY <1>0, <1>2 DEF WorkflowInv, RecordedMeansMarked
<1>6. QED BY <1>1, <1>3, <1>4, <1>5 DEF WorkflowInv

LEMMA InvLaunch == ASSUME WorkflowInv, Launch PROVE WorkflowInv'
<1>0. UNCHANGED <<data, ph, wf>> /\ faults' = faults /\ faults \in Nat
      /\ UNCHANGED <<config, batches, saved, marks, rows, calls, events>>
      /\ claim = "down" /\ claim' = "waiting" /\ running' = (wf.status = "PENDING")
  BY FaultTypes DEF WorkflowInv, Launch, data
<1>1. /\ Progress' /\ UsageCountedOnce' /\ BatchSound' /\ SequentialSound'
      /\ ExtractionSound' /\ RepeatSound'
  BY <1>0, StillFrame
<1>2. Sequence' = Sequence
  BY <1>0 DEF Sequence
<1>3. TypeOK'
  <2>1. running' \in BOOLEAN
    BY <1>0
  <2>2. QED BY <1>0, <2>1 DEF WorkflowInv, TypeOK
<1>4. PhaseSound'
  <2>1. ph.at = "off"
    BY <1>0 DEF WorkflowInv, PhaseSound
  <2>2. running' => wf'.status = "PENDING"
    BY <1>0
  <2>3. QED BY <1>0, <1>2, <2>1, <2>2 DEF WorkflowInv, PhaseSound, At
<1>5. RecordedMeansMarked'
  BY <1>0, <1>2 DEF WorkflowInv, RecordedMeansMarked
<1>6. QED BY <1>1, <1>3, <1>4, <1>5 DEF WorkflowInv

LEMMA InvCancelWorkflow == ASSUME WorkflowInv, CancelWorkflow PROVE WorkflowInv'
<1>0. UNCHANGED <<data, ph, running, claim>> /\ faults' = faults + 1 /\ faults < MaxFaults
      /\ UNCHANGED <<config, batches, saved, marks, rows, calls, events>>
      /\ wf.status = "PENDING" /\ faults \in Nat /\ MaxFaults \in Nat
  BY FaultTypes DEF WorkflowInv, CancelWorkflow, data
<1>1. /\ Progress' /\ UsageCountedOnce' /\ BatchSound' /\ SequentialSound'
      /\ ExtractionSound' /\ RepeatSound'
  BY <1>0, StillFrame
<1>2. Sequence' = Sequence
  BY <1>0 DEF Sequence
<1>3. wf' \in [status: Statuses, done: 0..8] /\ wf'.status = "CANCELLED" /\ wf'.done = wf.done
  BY FaultTypes DEF WorkflowInv, CancelWorkflow, Statuses
<1>4. TypeOK'
  BY <1>0, <1>3 DEF WorkflowInv, TypeOK
<1>5. PhaseSound'
  BY <1>0, <1>2, <1>3 DEF WorkflowInv, PhaseSound, At
<1>6. RecordedMeansMarked'
  BY <1>0, <1>2, <1>3 DEF WorkflowInv, RecordedMeansMarked
<1>7. QED BY <1>1, <1>4, <1>5, <1>6 DEF WorkflowInv

LEMMA InvEnterPhase == ASSUME WorkflowInv, EnterPhase PROVE WorkflowInv'
<1>0. UNCHANGED <<data, wf, running, claim>> /\ faults' = faults
      /\ UNCHANGED <<config, batches, saved, marks, rows, calls, events>>
      /\ running /\ ph.at = "off" /\ wf.status = "PENDING" /\ Sequence[wf.done + 1] # "poll"
  BY DEF EnterPhase, Idle, data, wfvars
<1>1. Sequence[wf.done + 1] \in Phases /\ wf.done < Len(Sequence)
  <2>1. wf.done < Len(Sequence) /\ wf.done \in 0..8
    BY <1>0, FaultTypes DEF WorkflowInv, PhaseSound
  <2>2. Len(Sequence) \in 1..8 /\ \A i \in 1..Len(Sequence) : Sequence[i] \in Phases \cup {"poll"}
    BY SequenceType DEF WorkflowInv
  <2>3. QED BY <1>0, <2>1, <2>2
<1>2. /\ ph' \in Phase /\ ph'.at = "enter" /\ ph'.item = {} /\ ph'.records = {}
      /\ ph'.name = Sequence[wf.done + 1]
  <2>1. NoPhase \in Phase /\ NoPhase.item = {} /\ NoPhase.records = {}
    BY FaultTypes DEF WorkflowInv, NoPhase
  <2>2. ph' = [NoPhase EXCEPT !.name = Sequence[wf.done + 1], !.at = "enter"]
    BY DEF EnterPhase
  <2>3. QED BY <1>1, <2>1, <2>2 DEF Phase, Places
<1>3. /\ Progress' /\ UsageCountedOnce' /\ BatchSound' /\ SequentialSound'
      /\ ExtractionSound' /\ RepeatSound'
  BY <1>0, <1>2, OutsideFrame
<1>4. Sequence' = Sequence
  BY <1>0 DEF Sequence
<1>5. TypeOK'
  BY <1>0, <1>2 DEF WorkflowInv, TypeOK
<1>6. PhaseSound'
  BY <1>0, <1>1, <1>2, <1>4 DEF WorkflowInv, PhaseSound, At
<1>7. RecordedMeansMarked'
  BY <1>0, <1>4 DEF WorkflowInv, RecordedMeansMarked
<1>8. QED BY <1>3, <1>5, <1>6, <1>7 DEF WorkflowInv

LEMMA InvStopCancelled == ASSUME WorkflowInv, StopCancelled PROVE WorkflowInv'
<1>0. UNCHANGED <<data, ph, wf, claim>> /\ faults' = faults /\ faults \in Nat
      /\ UNCHANGED <<config, batches, saved, marks, rows, calls, events>>
      /\ running' = FALSE /\ ph.at = "off" /\ wf.status = "CANCELLED"
  BY FaultTypes DEF WorkflowInv, StopCancelled, Idle, data
<1>1. /\ Progress' /\ UsageCountedOnce' /\ BatchSound' /\ SequentialSound'
      /\ ExtractionSound' /\ RepeatSound'
  BY <1>0, StillFrame
<1>2. Sequence' = Sequence
  BY <1>0 DEF Sequence
<1>3. TypeOK'
  BY <1>0 DEF WorkflowInv, TypeOK
<1>4. PhaseSound'
  BY <1>0, <1>2 DEF WorkflowInv, PhaseSound, At
<1>5. RecordedMeansMarked'
  BY <1>0, <1>2 DEF WorkflowInv, RecordedMeansMarked
<1>6. QED BY <1>1, <1>3, <1>4, <1>5 DEF WorkflowInv

\* What is recorded has been marked, and the workflow goes on or has succeeded.
LEMMA InvRecorded ==
    ASSUME WorkflowInv, Recorded, running, wf.done < Len(Sequence),
           UNCHANGED <<config, marks, claim>>, ph'.at = "off",
           \A k \in ph'.records : calls'[k] > 0,
           NEW name, name = Sequence[wf.done + 1],
           name = "validate" => "validated" \in marks,
           name = "submit" => "submitted" \in marks \/ "extracting" \in marks,
           name \in {"collect", "compile"} => {"extracting", "compiled"} \subseteq marks,
           name \in Evaluations => name \in marks,
           name = "aggregate" => "completed" \in marks
    PROVE  /\ PhaseSound' /\ RecordedMeansMarked'
           /\ wf' \in [status: Statuses, done: 0..8] /\ running' \in BOOLEAN
<1>1. Sequence' = Sequence
  BY DEF Sequence
<1>2. Len(Sequence) \in 1..8 /\ Sequence[Len(Sequence)] = "aggregate"
  BY SequenceType, SequenceFacts DEF WorkflowInv
<1>3. wf.done \in 0..8 /\ wf.status \in {"PENDING", "CANCELLED"} /\ claim \notin {"down", "completed"}
  BY FaultTypes DEF WorkflowInv, PhaseSound, RecordedMeansMarked
<1> DEFINE ends == wf.done + 1 = Len(Sequence) /\ wf.status = "PENDING"
<1>4. /\ wf' = [status |-> IF ends THEN "SUCCESS" ELSE wf.status, done |-> wf.done + 1]
      /\ running' = (running /\ ~ends)
  BY DEF Recorded
<1>5. wf'.done = wf.done + 1 /\ wf'.status = (IF ends THEN "SUCCESS" ELSE wf.status)
  BY <1>4
<1>6. wf' \in [status: Statuses, done: 0..8] /\ running' \in BOOLEAN
  BY <1>2, <1>3, <1>4 DEF Statuses
<1>7. /\ wf'.status = "PENDING" => wf'.done < Len(Sequence)
      /\ running' => wf'.status \in {"PENDING", "CANCELLED"}
      /\ wf'.status = "SUCCESS" => wf.done + 1 = Len(Sequence)
  <2>1. wf'.status = "PENDING" => ~ends /\ wf.status = "PENDING"
    BY <1>5
  <2>2. wf.status = "PENDING" /\ ~ends => wf.done + 1 # Len(Sequence)
    OBVIOUS
  <2>3. wf'.status = "PENDING" => wf'.done < Len(Sequence)
    BY <1>2, <1>3, <1>5, <2>1, <2>2
  <2>4. running' => ~ends
    BY <1>4
  <2>5. wf'.status = "SUCCESS" => ends
    BY <1>3, <1>5
  <2>6. QED BY <1>3, <1>5, <2>3, <2>4, <2>5
<1> HIDE DEF ends
<1>8. PhaseSound'
  BY <1>1, <1>3, <1>7 DEF PhaseSound, At
<1>9. RecordedMeansMarked'
  <2>1. ASSUME NEW i \in 1..wf'.done PROVE i \in 1..wf.done \/ i = wf.done + 1
    BY <1>3, <1>5
  <2>2. /\ (\E i \in 1..wf'.done : Sequence[i] = "validate") => "validated" \in marks
        /\ (\E i \in 1..wf'.done : Sequence[i] = "submit") =>
              "submitted" \in marks \/ "extracting" \in marks
        /\ (\E i \in 1..wf'.done : Sequence[i] = "collect") \/ (\E i \in 1..wf'.done : Sequence[i] = "compile") =>
              {"extracting", "compiled"} \subseteq marks
        /\ \A e \in Evaluations : (\E i \in 1..wf'.done : Sequence[i] = e) => e \in marks
    BY <2>1 DEF WorkflowInv, RecordedMeansMarked
  <2>3. wf'.status = "SUCCESS" => "completed" \in marks
    BY <1>2, <1>7
  <2>4. QED BY <1>1, <1>3, <2>2, <2>3 DEF RecordedMeansMarked
<1>10. QED BY <1>6, <1>8, <1>9

LEMMA InvLeavePhase == ASSUME WorkflowInv, LeavePhase PROVE WorkflowInv'
<1>0. UNCHANGED <<data, claim>> /\ faults' = faults
      /\ UNCHANGED <<config, batches, saved, marks, rows, calls, events>>
      /\ running /\ ph.at = "end" /\ Recorded
      /\ ph' = NoPhase /\ ph'.at = "off" /\ ph'.item = {} /\ ph'.records = {}
  BY DEF LeavePhase, At, data, NoPhase
<1>1. /\ Progress' /\ UsageCountedOnce' /\ BatchSound' /\ SequentialSound'
      /\ ExtractionSound' /\ RepeatSound'
  BY <1>0, OutsideFrame
<1>2. wf.done < Len(Sequence) /\ ph.name = Sequence[wf.done + 1]
  BY <1>0 DEF WorkflowInv, PhaseSound
<1>3. /\ ph.name = "validate" => "validated" \in marks
      /\ ph.name = "submit" => "submitted" \in marks \/ "extracting" \in marks
      /\ ph.name \in {"collect", "compile"} => {"extracting", "compiled"} \subseteq marks
      /\ ph.name \in Evaluations => ph.name \in marks
      /\ ph.name = "aggregate" => "completed" \in marks
  BY <1>0 DEF WorkflowInv, Progress, At
<1>4. /\ PhaseSound' /\ RecordedMeansMarked'
      /\ wf' \in [status: Statuses, done: 0..8] /\ running' \in BOOLEAN
  BY <1>0, <1>2, <1>3, InvRecorded
<1>5. TypeOK'
  BY <1>0, <1>4, FaultTypes DEF WorkflowInv, TypeOK
<1>6. QED BY <1>1, <1>4, <1>5 DEF WorkflowInv

LEMMA InvPollStep == ASSUME WorkflowInv, PollStep PROVE WorkflowInv'
<1>0. UNCHANGED <<data, ph, claim>> /\ faults' \in {faults, faults + 1} /\ faults' \in 0..MaxFaults
      /\ UNCHANGED <<config, batches, saved, marks, rows, calls, events>>
      /\ running /\ ph.at = "off" /\ Recorded /\ wf.status = "PENDING"
      /\ Sequence[wf.done + 1] = "poll" /\ faults \in Nat
  BY FaultTypes DEF PollStep, Idle, data, WorkflowInv, TypeOK
<1>1. /\ Progress' /\ UsageCountedOnce' /\ BatchSound' /\ SequentialSound'
      /\ ExtractionSound' /\ RepeatSound'
  BY <1>0, StillFrame
<1>2. wf.done < Len(Sequence) /\ ph.item = {}
  BY <1>0 DEF WorkflowInv, PhaseSound, SequentialSound
<1>3. /\ PhaseSound' /\ RecordedMeansMarked'
      /\ wf' \in [status: Statuses, done: 0..8] /\ running' \in BOOLEAN
  <2>1. \A k \in ph'.records : calls'[k] > 0
    BY <1>0 DEF WorkflowInv, PhaseSound
  <2>2. QED BY <1>0, <1>2, <2>1, InvRecorded DEF Evaluations
<1>5. TypeOK'
  BY <1>0, <1>3 DEF WorkflowInv, TypeOK
<1>6. QED BY <1>1, <1>3, <1>5 DEF WorkflowInv

\* A phase that raises, by a fault or on the keys of the cases.
LEMMA InvFail ==
    ASSUME WorkflowInv, running, Fail, UNCHANGED <<data, claim>>, faults' \in 0..MaxFaults,
           faults' = faults + 1 \/ (faults' = faults /\ At("enter"))
    PROVE  WorkflowInv'
<1>0. /\ UNCHANGED <<config, batches, saved, marks, rows, calls, events>> /\ running' = FALSE
      /\ ph' = NoPhase /\ ph'.at = "off" /\ ph'.item = {} /\ ph'.records = {}
  BY DEF Fail, data, NoPhase
<1>1. /\ Progress' /\ UsageCountedOnce' /\ BatchSound' /\ SequentialSound'
      /\ ExtractionSound' /\ RepeatSound'
  BY <1>0, OutsideFrame DEF At
<1>2. Sequence' = Sequence
  BY <1>0 DEF Sequence
<1>3. /\ wf' \in [status: Statuses, done: 0..8] /\ wf'.done = wf.done
      /\ wf'.status \in {"CANCELLED", "ERROR"}
  BY FaultTypes DEF WorkflowInv, Fail, Statuses
<1>4. TypeOK'
  <2>1. ph' \in Phase /\ running' \in BOOLEAN
    BY <1>0, FaultTypes DEF WorkflowInv
  <2>2. QED BY <1>0, <1>3, <2>1 DEF WorkflowInv, TypeOK
<1>5. PhaseSound'
  BY <1>0, <1>2, <1>3 DEF WorkflowInv, PhaseSound, At
<1>6. claim # "completed"
  BY DEF WorkflowInv, PhaseSound, RecordedMeansMarked
<1>7. RecordedMeansMarked'
  BY <1>0, <1>2, <1>3, <1>6 DEF WorkflowInv, RecordedMeansMarked
<1>8. QED BY <1>1, <1>4, <1>5, <1>7 DEF WorkflowInv

LEMMA InvRaiseError == ASSUME WorkflowInv, RaiseError PROVE WorkflowInv'
<1>1. faults' = faults + 1 /\ faults' \in 0..MaxFaults
  BY FaultTypes DEF WorkflowInv, RaiseError
<1>2. QED BY <1>1, InvFail DEF RaiseError

LEMMA InvDuplicateCases == ASSUME WorkflowInv, DuplicateCases PROVE WorkflowInv'
<1>1. faults' = faults /\ faults' \in 0..MaxFaults
  BY DEF WorkflowInv, TypeOK, DuplicateCases
<1>2. QED BY <1>1, InvFail DEF DuplicateCases

-----------------------------------------------------------------------------
(* Every step *)

LEMMA InvExtraction ==
    ASSUME WorkflowInv, running, Extraction, UNCHANGED wfvars
    PROVE  WorkflowInv'
<1>0. config' = config
  BY DEF Extraction, EnterExtraction, SubmitBatch, SaveBatch, PollInline, Collect, CollectItem,
         SkipCase, ExtractCase, MarkItem, MarkExtracted, MarkCollected, WriteAnswer, MarkCase,
         EndSequential, Embed, Synthesize, WriteSynthesis, Persist
<1>1. InPhase
  BY <1>0 DEF InPhase, wfvars
<1>2. CASE EnterExtraction
  BY <1>1, <1>2, InvEnterSequential, InvEnterSubmit, InvEnterCollect, InvPassExtraction
  DEF EnterExtraction
<1>3. CASE SubmitBatch \/ SaveBatch \/ PollInline \/ Collect
  BY <1>1, <1>3, InvSubmitBatch, InvSaveBatch, InvPollInline, InvCollect
<1>4. CASE \E c \in Cases : CollectItem(c) \/ SkipCase(c) \/ ExtractCase(c)
  BY <1>1, <1>4, InvCollectItem, InvSkipCase, InvExtractCase
<1>5. CASE MarkItem \/ MarkExtracted \/ MarkCollected
  BY <1>1, <1>5, InvMarkItem, InvMarkExtracted, InvMarkCollected
<1>6. CASE \E n \in {0, 1} : WriteAnswer(n)
  BY <1>1, <1>6, InvWriteAnswer
<1>7. CASE MarkCase \/ EndSequential
  BY <1>1, <1>7, InvMarkCase, InvEndSequential
<1>8. CASE Embed \/ Synthesize \/ WriteSynthesis \/ Persist
  BY <1>1, <1>8, InvEmbed, InvSynthesize, InvWriteSynthesis, InvPersist
<1>9. QED BY <1>2, <1>3, <1>4, <1>5, <1>6, <1>7, <1>8 DEF Extraction

LEMMA InvWork == ASSUME WorkflowInv, Work PROVE WorkflowInv'
<1>1. CASE running /\ Extraction /\ UNCHANGED wfvars
  BY <1>1, InvExtraction
<1>2. CASE running /\ (InsertCases \/ MarkValidated \/ SkipValidation) /\ UNCHANGED wfvars
  <2>1. InPhase
    BY <1>2 DEF InPhase, InsertCases, MarkValidated, SkipValidation, data, wfvars
  <2>2. QED BY <1>2, <2>1, InvInsertCases, InvMarkValidated, InvSkipValidation
<1>3. CASE /\ running /\ (Evaluate \/ WriteResult \/ MarkEvaluated \/ Refine \/ Aggregate)
           /\ UNCHANGED wfvars
  <2>1. config' = config
    BY <1>3 DEF Evaluate, WriteResult, MarkEvaluated, Refine, Aggregate, data
  <2>2. InPhase
    BY <1>3, <2>1 DEF InPhase, wfvars
  <2>3. QED BY <1>3, <2>2, InvEvaluate, InvWriteResult, InvMarkEvaluated, InvRefine,
               InvAggregate
<1>4. QED BY <1>1, <1>2, <1>3 DEF Work

LEMMA InvNext == WorkflowInv /\ [Next]_vars => WorkflowInv'
<1> SUFFICES ASSUME WorkflowInv, [Next]_vars PROVE WorkflowInv'
  OBVIOUS
<1>1. CASE System
  BY <1>1, InvLaunch, InvClaimJob, InvResultReturned, InvEnterPhase, InvStopCancelled,
     InvLeavePhase, InvPollStep, InvDuplicateCases, InvWork DEF System
<1>2. CASE Provider
  BY <1>2, InvEndBatch DEF Provider
<1>3. CASE Crash \/ CancelWorkflow \/ RaiseError
  BY <1>3, InvCrash, InvCancelWorkflow, InvRaiseError
<1>4. CASE UNCHANGED vars
  <2>1. UNCHANGED <<data, ph, wf, running, claim>> /\ faults' = faults /\ faults \in Nat
        /\ UNCHANGED <<config, batches, saved, marks, rows, calls, events>>
    BY <1>4, FaultTypes DEF WorkflowInv, vars, wfvars, data
  <2>2. /\ Progress' /\ UsageCountedOnce' /\ BatchSound' /\ SequentialSound'
        /\ ExtractionSound' /\ RepeatSound'
    BY <2>1, StillFrame
  <2>3. Sequence' = Sequence
    BY <2>1 DEF Sequence
  <2>4. TypeOK'
    BY <2>1 DEF WorkflowInv, TypeOK
  <2>5. PhaseSound' /\ RecordedMeansMarked'
    BY <2>1, <2>3 DEF WorkflowInv, PhaseSound, RecordedMeansMarked, At
  <2>6. QED BY <2>2, <2>4, <2>5 DEF WorkflowInv
<1>5. QED BY <1>1, <1>2, <1>3, <1>4 DEF Next

-----------------------------------------------------------------------------
(* Theorems *)

\* The tables, the provider's batch, the phase under way and DBOS's record of the
\* workflow stay consistent through every crash, error and cancellation.
THEOREM WorkflowInvariant == Spec => []WorkflowInv
<1>1. Init => WorkflowInv
  BY InvInit
<1>2. WorkflowInv /\ [Next]_vars => WorkflowInv'
  BY InvNext
<1>3. QED BY <1>1, <1>2, PTL DEF Spec

\* The state of the workflow and of the pipeline has its types.
THEOREM WorkflowTypeCorrect == Spec => []TypeOK
<1>1. WorkflowInv => TypeOK
  BY DEF WorkflowInv
<1>2. QED BY <1>1, WorkflowInvariant, PTL

\* A case that a finished extraction leaves without rules and without a marker is one
\* whose item did not come back from the batch that was collected.
THEOREM ExtractionLeavesOutOnlyFailed == Spec => []LeftOutOnlyFailed
<1>1. ASSUME WorkflowInv PROVE LeftOutOnlyFailed
  <2>1. \A c \in Cases : rows[c] \in Nat
    BY <1>1 DEF WorkflowInv, TypeOK, Keys
  <2>2. QED BY <1>1, <2>1 DEF WorkflowInv, ExtractionSound, Pending, LeftOutOnlyFailed
<1>2. QED BY <1>1, WorkflowInvariant, PTL

\* A case is paid for again, its rules are written again and a batch is submitted
\* again only after a crash, an error or a cancellation, and once for each.
THEOREM RepetitionsNeedFaults == Spec => []RepeatsNeedFaults
<1>1. ASSUME WorkflowInv PROVE RepeatsNeedFaults
  <2>1. /\ faults \in Nat /\ Len(batches) \in Nat /\ rows["synth"] \in Nat
        /\ \A c \in Cases : rows[c] \in Nat /\ calls[c] \in Nat
    BY <1>1, FaultTypes DEF WorkflowInv, TypeOK, Keys
  <2>2. \A c \in Cases : calls[c] <= 1 + faults /\ rows[c] <= 1 + faults
    BY <1>1, <2>1 DEF WorkflowInv, RepeatSound
  <2>3. Len(batches) <= 1 + faults /\ rows["synth"] <= 1
    BY <1>1, <2>1 DEF WorkflowInv, RepeatSound
  <2>4. QED BY <2>2, <2>3 DEF RepeatsNeedFaults
<1>2. QED BY <1>1, WorkflowInvariant, PTL

\* A step that DBOS has recorded, and will not run again, has left its stage marker.
THEOREM RecordedStepsMarked == Spec => []RecordedMeansMarked
<1>1. WorkflowInv => RecordedMeansMarked
  BY DEF WorkflowInv
<1>2. QED BY <1>1, WorkflowInvariant, PTL

\* No call is counted twice in the stored usage, and none that was not made.
THEOREM UsageNeverCountedTwice == Spec => []UsageCountedOnce
<1>1. WorkflowInv => UsageCountedOnce
  BY DEF WorkflowInv
<1>2. QED BY <1>1, WorkflowInvariant, PTL

-----------------------------------------------------------------------------
(* Usage, of a job without batching that is not interrupted *)

Counted == Keys \ {"refine"}

\* A call whose usage is not stored is in the collector of the phase under way, and no
\* phase starts or ends with a record in its collector.
UsageWhole ==
    /\ ph.at \in {"off", "enter", "validated", "aggregate", "end"} => ph.records = {}
    /\ \A k \in Counted : calls[k] > 0 => events[k] > 0 \/ k \in ph.records

\* The inductive invariant, on top of WorkflowInv.
UsageInv == faults = 0 /\ ~config.batch => UsageWhole

LEMMA UsageInit == Init => UsageInv
<1> SUFFICES ASSUME Init PROVE UsageInv
  OBVIOUS
<1>1. ph.records = {} /\ \A k \in Keys : calls[k] = 0
  BY DEF Init, NoPhase
<1>2. QED BY <1>1 DEF UsageInv, UsageWhole, Counted

\* The steps and places of a workflow without batching.
LEMMA Unbatched ==
    ASSUME WorkflowInv, ~config.batch
    PROVE  /\ saved.batch = 0
           /\ ph.at # "off" => ph.name \in {"validate", "compile", "aggregate"} \cup Evaluations
           /\ ph.at \notin {"submit", "save", "inline", "collect", "item", "itemmark", "marked"}
<1>1. saved.batch \in Nat
  BY DEF WorkflowInv, TypeOK
<1>2. saved.batch = 0
  BY <1>1 DEF WorkflowInv, BatchSound
<1>3. ph.at \notin {"submit", "save", "inline", "collect", "item", "itemmark", "marked"}
  BY <1>2 DEF WorkflowInv, BatchSound
<1>4. ASSUME ph.at # "off"
      PROVE  ph.name \in {"validate", "compile", "aggregate"} \cup Evaluations
  <2>1. wf.done \in 0..8 /\ wf.done < Len(Sequence) /\ ph.name = Sequence[wf.done + 1]
    BY <1>4 DEF WorkflowInv, TypeOK, PhaseSound
  <2>2. wf.done + 1 \in 1..6
    BY <2>1, SequenceFacts
  <2>3. QED BY <2>1, <2>2, SequenceFacts DEF Evaluations
<1>5. QED BY <1>2, <1>3, <1>4

\* A step that stores no usage, and keeps what it pays for in the collector.
LEMMA UsageMove ==
    ASSUME UsageWhole, events' = events, ph.records \subseteq ph'.records,
           \A k \in Counted : calls'[k] = calls[k] \/ k \in ph'.records,
           ph'.at \in {"off", "enter", "validated", "aggregate", "end"} => ph'.records = {}
    PROVE  UsageWhole'
BY DEF UsageWhole

LEMMA UsageExtraction ==
    ASSUME WorkflowInv, ~config.batch, UsageWhole, Extraction
    PROVE  UsageWhole'
<1>0. /\ ph \in Phase /\ rows \in [Keys -> Nat] /\ calls \in [Keys -> Nat]
      /\ events \in [Keys -> Nat] /\ Counted \subseteq Keys /\ Cases \subseteq Keys
      /\ "embed" \in Keys /\ "synth" \in Keys
  BY DEF WorkflowInv, TypeOK, Counted, Keys
<1>1. CASE EnterExtraction
  <2>1. ph.at = "enter" /\ ph.name \in {"submit", "collect", "compile"}
        /\ UNCHANGED <<calls, events>>
    BY <1>1 DEF EnterExtraction, At
  <2>2. ph.name = "compile"
    BY <2>1, Unbatched DEF Evaluations
  <2>3. ~EnterSubmit /\ ~EnterCollect
    BY DEF EnterSubmit, EnterCollect, UseBatch
  <2>4. ph'.at \in {"sequential", "embed"} /\ ph'.records = ph.records
    BY <1>0, <1>1, <2>2, <2>3
    DEF EnterExtraction, EnterSequential, PassExtraction, AfterExtraction, Goto, Phase
  <2>5. QED BY <2>1, <2>4, UsageMove
<1>2. CASE SubmitBatch \/ SaveBatch \/ PollInline \/ Collect \/ MarkItem \/ MarkExtracted
               \/ MarkCollected \/ (\E c \in Cases : CollectItem(c))
  BY <1>2, Unbatched
  DEF SubmitBatch, SaveBatch, PollInline, Collect, MarkItem, MarkExtracted, MarkCollected,
      CollectItem, At
<1>3. CASE (\E c \in Cases : SkipCase(c)) \/ (\E n \in {0, 1} : WriteAnswer(n)) \/ MarkCase
  <2>1. UNCHANGED <<calls, events>> /\ ph'.records = ph.records
        /\ ph'.at \in {"sequential", "casemark"}
    BY <1>0, <1>3 DEF SkipCase, WriteAnswer, MarkCase, At, Goto, Phase
  <2>2. QED BY <2>1, UsageMove
<1>4. CASE \E c \in Cases : ExtractCase(c)
  <2>1. PICK c \in Cases : ExtractCase(c)
    BY <1>4
  <2>2. /\ events' = events /\ ph'.records = ph.records \cup {c} /\ ph'.at = "answered"
        /\ calls' = [calls EXCEPT ![c] = @ + 1]
    BY <1>0, <2>1 DEF ExtractCase, Record, Phase
  <2>3. QED BY <1>0, <2>2, UsageMove
<1>5. CASE EndSequential
  <2>1. ph.at = "sequential" /\ ph.name # "submit"
    BY <1>5, Unbatched DEF EndSequential, At, Evaluations
  <2>2. UNCHANGED <<calls, events>> /\ ph'.records = ph.records /\ ph'.at = "embed"
    BY <1>0, <1>5, <2>1 DEF EndSequential, Goto, AfterExtraction, Phase
  <2>3. QED BY <2>2, UsageMove
<1>6. CASE Embed
  <2>1. CASE \E c \in Cases : rows[c] > 0
    <3>1. /\ events' = events /\ calls' = [calls EXCEPT !["embed"] = @ + 1]
          /\ ph' = [ph EXCEPT !.at = "synth", !.records = @ \cup {"embed"}]
      BY <1>6, <2>1 DEF Embed, Record
    <3>2. ph'.at = "synth" /\ ph'.records = ph.records \cup {"embed"}
      BY <1>0, <3>1 DEF Phase
    <3>3. QED BY <1>0, <3>1, <3>2, UsageMove
  <2>2. CASE ~\E c \in Cases : rows[c] > 0
    <3>1. UNCHANGED <<calls, events>> /\ ph' = [ph EXCEPT !.at = "synth"]
      BY <1>6, <2>2 DEF Embed, Goto
    <3>2. ph'.at = "synth" /\ ph'.records = ph.records
      BY <1>0, <3>1 DEF Phase
    <3>3. QED BY <3>1, <3>2, UsageMove
  <2>3. QED BY <2>1, <2>2
<1>7. CASE Synthesize
  <2>1. ph.at = "synth" /\ ph.name = "compile"
    BY <1>7, Unbatched DEF Synthesize, At, WorkflowInv, PhaseSound, Evaluations
  <2>2. CASE "compiled" \in marks
    <3>1. UNCHANGED <<calls, events>> /\ ph' = [ph EXCEPT !.at = "persist"]
      BY <1>7, <2>1, <2>2 DEF Synthesize, Goto, AfterCompiling
    <3>2. ph'.at = "persist" /\ ph'.records = ph.records
      BY <1>0, <3>1 DEF Phase
    <3>3. QED BY <3>1, <3>2, UsageMove
  <2>3. CASE "compiled" \notin marks
    <3>1. /\ events' = events /\ calls' = [calls EXCEPT !["synth"] = @ + 1]
          /\ ph' = [ph EXCEPT !.at = "synthesized", !.records = @ \cup {"synth"}]
      BY <1>7, <2>3 DEF Synthesize, Record
    <3>2. ph'.at = "synthesized" /\ ph'.records = ph.records \cup {"synth"}
      BY <1>0, <3>1 DEF Phase
    <3>3. QED BY <1>0, <3>1, <3>2, UsageMove
  <2>4. QED BY <2>2, <2>3
<1>8. CASE WriteSynthesis
  <2>1. ph.at = "synthesized" /\ ph.name = "compile"
    BY <1>8, Unbatched DEF WriteSynthesis, At, WorkflowInv, PhaseSound, Evaluations
  <2>2. UNCHANGED <<calls, events>> /\ ph'.records = ph.records /\ ph'.at = "persist"
    BY <1>0, <1>8, <2>1 DEF WriteSynthesis, Goto, AfterCompiling, Phase
  <2>3. QED BY <2>2, UsageMove
<1>9. CASE Persist
  <2>1. /\ ph'.records = {} /\ calls' = calls
        /\ \A k \in Keys : events'[k] = IF k \in Insertable(ph.records) THEN events[k] + 1
                                        ELSE events[k]
    BY <1>0, <1>9 DEF Persist, Phase
  <2>2. \A k \in ph.records : k \in Insertable(ph.records) <=> events[k] = 0
    BY DEF Insertable
  <2>3. ph.records \subseteq Keys
    BY <1>0 DEF Phase
  <2>4. ASSUME NEW k \in Counted, calls[k] > 0 PROVE events'[k] > 0
    BY <1>0, <2>1, <2>2, <2>3, <2>4 DEF UsageWhole
  <2>5. QED BY <2>1, <2>4 DEF UsageWhole
<1>10. QED
  BY <1>1, <1>2, <1>3, <1>4, <1>5, <1>6, <1>7, <1>8, <1>9 DEF Extraction

LEMMA UsageOthers ==
    ASSUME WorkflowInv, UsageWhole,
           \/ InsertCases \/ MarkValidated \/ SkipValidation
           \/ Evaluate \/ WriteResult \/ MarkEvaluated \/ Refine \/ Aggregate
    PROVE  UsageWhole'
<1>0. /\ ph \in Phase /\ calls \in [Keys -> Nat] /\ Counted \subseteq Keys
      /\ Evaluations \subseteq Keys /\ "refine" \in Keys \ Counted
  BY DEF WorkflowInv, TypeOK, Counted, Keys
<1>1. CASE InsertCases \/ MarkValidated \/ SkipValidation
  <2>1. ph'.records = ph.records /\ ph.at \in {"enter", "validated"} /\ UNCHANGED <<calls, events>>
    BY <1>0, <1>1 DEF InsertCases, MarkValidated, SkipValidation, At, Goto, Phase, data
  <2>2. QED BY <2>1, UsageMove DEF UsageWhole
<1>2. CASE Evaluate
  <2>1. events' = events /\ ph.name \in Keys
    BY <1>0, <1>2 DEF Evaluate
  <2>2. CASE calls' = calls /\ (Goto("persist") \/ Goto("evalmark"))
    <3>1. ph'.at \in {"persist", "evalmark"} /\ ph'.records = ph.records
      BY <1>0, <2>2 DEF Goto, Phase
    <3>2. QED BY <2>1, <2>2, <3>1, UsageMove
  <2>3. CASE /\ calls' = [calls EXCEPT ![ph.name] = @ + 1]
             /\ ph' = [ph EXCEPT !.at = "evaluated", !.records = @ \cup {ph.name}]
    <3>1. ph'.at = "evaluated" /\ ph'.records = ph.records \cup {ph.name}
      BY <1>0, <2>3 DEF Phase
    <3>2. QED BY <1>0, <2>1, <2>3, <3>1, UsageMove
  <2>4. QED BY <1>2, <2>2, <2>3 DEF Evaluate, Record
<1>3. CASE WriteResult \/ MarkEvaluated
  <2>1. ph'.records = ph.records /\ ph'.at \in {"evalmark", "persist"}
        /\ UNCHANGED <<calls, events>>
    BY <1>0, <1>3 DEF WriteResult, MarkEvaluated, Goto, Phase
  <2>2. QED BY <2>1, UsageMove
<1>4. CASE Refine
  <2>1. /\ ph'.records = ph.records /\ ph.at = "enter" /\ events' = events
        /\ calls' = [calls EXCEPT !["refine"] = @ + 1]
    BY <1>0, <1>4 DEF Refine, Record, At, Goto, Phase
  <2>2. \A k \in Counted : calls'[k] = calls[k]
    BY <1>0, <2>1
  <2>3. QED BY <2>1, <2>2, UsageMove DEF UsageWhole
<1>5. CASE Aggregate
  <2>1. /\ ph'.records = ph.records /\ ph.at \in {"enter", "aggregate"}
        /\ UNCHANGED <<calls, events>>
    BY <1>0, <1>5 DEF Aggregate, At, Goto, Phase
  <2>2. QED BY <2>1, UsageMove DEF UsageWhole
<1>6. QED BY <1>1, <1>2, <1>3, <1>4, <1>5

LEMMA UsageStep == WorkflowInv /\ UsageInv /\ [Next]_vars => UsageInv'
<1> SUFFICES ASSUME WorkflowInv, UsageInv, [Next]_vars, faults' = 0, ~config'.batch
             PROVE  UsageWhole'
  BY DEF UsageInv
<1>0. faults \in Nat
  BY FaultTypes DEF WorkflowInv
<1>1. CASE Work
  <2>1. faults' = faults
    BY <1>1 DEF Work, wfvars
  <2>2. config' = config
    BY <1>1
    DEF Work, data, Extraction, EnterExtraction, SubmitBatch, SaveBatch, PollInline, Collect,
        CollectItem, SkipCase, ExtractCase, MarkItem, MarkExtracted, MarkCollected, WriteAnswer,
        MarkCase, EndSequential, Embed, Synthesize, WriteSynthesis, Persist, InsertCases,
        MarkValidated, SkipValidation, Evaluate, WriteResult, MarkEvaluated, Refine, Aggregate
  <2>3. UsageWhole
    BY <2>1, <2>2 DEF UsageInv
  <2>4. QED BY <1>1, <2>2, <2>3, UsageExtraction, UsageOthers DEF Work
<1>2. CASE Launch \/ ClaimJob \/ ResultReturned \/ StopCancelled \/ PollStep \/ Provider
               \/ UNCHANGED vars
  <2>1. UNCHANGED <<config, calls, events, ph>>
    BY <1>2
    DEF Launch, ClaimJob, ResultReturned, StopCancelled, PollStep, Provider, EndBatch, tables,
        vars, data
  <2>2. faults = 0
    BY <1>0, <1>2
    DEF Launch, ClaimJob, ResultReturned, StopCancelled, PollStep, Provider, wfvars, vars
  <2>3. QED BY <2>1, <2>2, UsageMove DEF UsageInv, UsageWhole
<1>3. CASE EnterPhase \/ LeavePhase \/ DuplicateCases
  <2>1. ph'.records = {} /\ UNCHANGED <<config, calls, events, faults>>
    <3>1. CASE EnterPhase
      BY <3>1 DEF EnterPhase, NoPhase, data, wfvars
    <3>2. CASE LeavePhase
      BY <3>2 DEF LeavePhase, NoPhase, data
    <3>3. CASE DuplicateCases
      BY <3>3 DEF DuplicateCases, Fail, NoPhase, data
    <3>4. QED BY <1>3, <3>1, <3>2, <3>3
  <2>2. ph.at \in {"off", "enter", "end"}
    BY <1>3 DEF EnterPhase, LeavePhase, DuplicateCases, Idle, At
  <2>3. ph.records = {}
    BY <2>1, <2>2 DEF UsageInv, UsageWhole
  <2>4. QED BY <2>1, <2>3, UsageMove DEF UsageInv
<1>4. CASE Crash \/ CancelWorkflow \/ RaiseError
  BY <1>0, <1>4 DEF Crash, CancelWorkflow, RaiseError
<1>5. QED BY <1>1, <1>2, <1>3, <1>4 DEF Next, System

\* Without batching, a job that completed without a crash, an error or a cancellation has
\* the usage of exactly the calls it made, those of the aggregate phase aside.
THEOREM UsageComplete == Spec => []UsageLostOnlyByFaults
<1>1. ASSUME WorkflowInv, UsageInv PROVE UsageLostOnlyByFaults
  <2> SUFFICES ASSUME claim = "completed", faults = 0, ~config.batch, NEW k \in Counted
               PROVE  (calls[k] > 0) = (events[k] > 0)
    BY DEF UsageLostOnlyByFaults, Counted
  <2>1. ph.at = "off"
    BY <1>1 DEF WorkflowInv, PhaseSound, RecordedMeansMarked
  <2>2. k \notin ph.records
    BY <1>1, <2>1 DEF UsageInv, UsageWhole
  <2>3. calls[k] \in Nat /\ events[k] \in Nat /\ events[k] <= calls[k]
    BY <1>1 DEF WorkflowInv, TypeOK, UsageCountedOnce, Counted
  <2>4. QED BY <1>1, <2>2, <2>3 DEF UsageInv, UsageWhole
<1>2. WorkflowInv /\ UsageInv /\ [Next]_vars /\ WorkflowInv' => UsageInv'
  BY UsageStep
<1>3. Spec => []UsageInv
  BY UsageInit, <1>2, WorkflowInvariant, PTL DEF Spec
<1>4. QED BY <1>1, <1>3, WorkflowInvariant, PTL
=============================================================================
