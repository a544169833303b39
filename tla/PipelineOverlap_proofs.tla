----------------------- MODULE PipelineOverlap_proofs -----------------------
(***************************************************************************)
(* What holds of PipelineResume for any number of runs that overlap: the   *)
(* types, and that no stage is marked before its work is committed.        *)
(***************************************************************************)
EXTENDS PipelineResume, TLAPS

-----------------------------------------------------------------------------
(* Types *)

\* Cases and clusters are numbers of items.
LEMMA ItemNumbers ==
    /\ Cases \subseteq Items
    /\ Clusters \subseteq Items
    /\ Items \subseteq Nat
    /\ 0 \notin Items
BY PipelineAssumption DEF Cases, Clusters, HasRules, Items

LEMMA ToDoIsItems == ASSUME NEW k \in Stages PROVE ToDo(k) \subseteq Items
BY ItemNumbers DEF ToDo

LEMMA AdvancedType == ASSUME NEW r \in Run PROVE Advanced(r) \in Run
<1>1. CASE r.stage >= LastStage
    BY <1>1 DEF Advanced, Run, Steps
<1>2. CASE ~(r.stage >= LastStage)
    <2>1. r.stage \in 1..15 /\ LastStage \in 1..15
        BY PipelineAssumption DEF Run, Stages
    <2>2. r.stage + 1 \in Stages
        BY <1>2, <2>1 DEF Stages
    <2>3. FirstStep(r.stage + 1) \in Steps
        BY DEF FirstStep, Steps
    <2> QED BY <1>2, <2>2, <2>3 DEF Advanced, Run
<1> QED BY <1>1, <1>2

LEMMA AdvancedFields ==
    ASSUME NEW r \in Run
    PROVE  /\ Advanced(r).step \in {"done", "check", "embedrules"}
           /\ Advanced(r).step = "embedrules" => Advanced(r).stage = Embedding
           /\ Advanced(r).item = r.item
           /\ Advanced(r).stage \in {r.stage, r.stage + 1}
<1>1. CASE r.stage >= LastStage
    <2>1. Advanced(r) = [r EXCEPT !.step = "done"]
        BY <1>1 DEF Advanced
    <2> QED BY <2>1 DEF Run
<1>2. CASE ~(r.stage >= LastStage)
    <2>1. Advanced(r) = [r EXCEPT !.stage = @ + 1, !.step = FirstStep(r.stage + 1)]
        BY <1>2 DEF Advanced
    <2> QED BY <2>1 DEF Run, FirstStep
<1> QED BY <1>1, <1>2

LEMMA NextItemType == ASSUME NEW r \in Run PROVE NextItem(r) \in Run
BY DEF NextItem, Run, Steps

LEMMA NoRunType == NoRun \in Run /\ [NoRun EXCEPT !.step = "check"] \in Run
BY DEF NoRun, Run, Steps, Stages, Validating

LEMMA TypeInit == Init => TypeOK
BY NoRunType, PipelineAssumption DEF Init, TypeOK

\* Every step preserves the types.
LEMMA TypeStep == TypeOK /\ [Next]_vars => TypeOK'
<1> SUFFICES ASSUME TypeOK, [Next]_vars PROVE TypeOK'
    OBVIOUS
<1> USE DEF TypeOK
<1>1. ASSUME NEW e \in Executors PROVE run[e] \in Run /\ At(e) \in Units /\ run[e].stage \in Stages
    BY DEF At, Units, Run
<1>2. ASSUME NEW e \in Executors, Begin(e) PROVE TypeOK'
    BY <1>2, NoRunType DEF Begin, tables
<1>3. ASSUME NEW e \in Executors, NEW reason \in {"duplicate_key", "multiple_markers"},
             Fail(e, reason)
      PROVE  TypeOK'
    BY <1>3, NoRunType DEF Fail, tables
<1>4. ASSUME NEW e \in Executors, CheckStage(e) PROVE TypeOK'
    <2>1. CASE Fail(e, "multiple_markers")
        BY <2>1, <1>3
    <2>2. CASE ~Fail(e, "multiple_markers")
        <3>1. [run[e] EXCEPT !.step = "items", !.todo = ToDo(run[e].stage)] \in Run
            BY <1>1, ToDoIsItems DEF Run, Steps
        <3>2. Skipped(run[e]) \in Run
            BY <1>1, AdvancedType DEF Skipped
        <3> QED BY <1>4, <2>2, <3>1, <3>2 DEF CheckStage, tables
    <2> QED BY <2>1, <2>2
<1>5. ASSUME NEW e \in Executors, NEW i \in Items, SkipItem(e, i) PROVE TypeOK'
    <2>1. CASE Fail(e, "multiple_markers")
        BY <2>1, <1>3
    <2>2. CASE ~Fail(e, "multiple_markers")
        BY <1>1, <1>5, <2>2 DEF SkipItem, tables, Run
    <2> QED BY <2>1, <2>2
<1>6. ASSUME NEW e \in Executors, NEW i \in Items, CallItem(e, i) PROVE TypeOK'
    <2>1. run' = [run EXCEPT ![e] = [@ EXCEPT !.step = "called", !.item = i]]
        BY <1>6 DEF CallItem, Call
    <2>2. [run[e] EXCEPT !.step = "called", !.item = i] \in Run
        BY <1>1 DEF Run, Steps
    <2>3. calls' \in [Units -> Nat]
        BY <1>1, <1>6 DEF CallItem, Call, Units
    <2> QED BY <1>6, <2>1, <2>2, <2>3 DEF CallItem, Call
<1>7. ASSUME NEW e \in Executors, NEW n \in {0, 1}, WriteMicroRules(e, n) PROVE TypeOK'
    BY <1>1, <1>7 DEF WriteMicroRules, Goto, Run, Steps
<1>8. ASSUME NEW e \in Executors, NEW n \in {0, 1}, WriteWithMarker(e, n) PROVE TypeOK'
    BY <1>1, <1>8, NextItemType DEF WriteWithMarker
<1>9. ASSUME NEW e \in Executors, UpsertCaseResult(e) PROVE TypeOK'
    BY <1>1, <1>9, NextItemType DEF UpsertCaseResult
<1>10. ASSUME NEW e \in Executors, EndItems(e) PROVE TypeOK'
    BY <1>1, <1>10 DEF EndItems, Goto, tables, Run, Steps
<1>11. ASSUME NEW e \in Executors, CheckEvalRun(e) PROVE TypeOK'
    BY <1>1, <1>11 DEF CheckEvalRun, Goto, tables, Run, Steps
<1>12. ASSUME NEW e \in Executors, WriteArtifact(e) PROVE TypeOK'
    <2>1. CASE Fail(e, "duplicate_key")
        BY <2>1, <1>3
    <2>2. CASE ~Fail(e, "duplicate_key")
        <3>1. <<run[e].stage, 0>> \in Units
            BY <1>1 DEF Units
        <3>2. Written(run[e].stage) \in Nat
            BY <3>1 DEF Written
        <3> QED BY <1>1, <1>12, <2>2, <3>2 DEF WriteArtifact, Goto, Run, Steps
    <2> QED BY <2>1, <2>2
<1>13. ASSUME NEW e \in Executors PROVE Marked(run[e]) \in Run
    BY <1>1, AdvancedType, NextItemType DEF Marked
<1>14. ASSUME NEW e \in Executors, MarkRead(e) PROVE TypeOK'
    <2>1. CASE Fail(e, "multiple_markers")
        BY <2>1, <1>3
    <2>2. CASE ~Fail(e, "multiple_markers")
        <3>1. [run[e] EXCEPT !.step = "markinsert"] \in Run
            BY <1>1 DEF Run, Steps
        <3> QED BY <1>13, <1>14, <2>2, <3>1 DEF MarkRead, tables
    <2> QED BY <2>1, <2>2
<1>15. ASSUME NEW e \in Executors, MarkInsert(e) PROVE TypeOK'
    BY <1>1, <1>13, <1>15 DEF MarkInsert
<1>16. ASSUME NEW e \in Executors, Interrupt(e) PROVE TypeOK'
    BY <1>16, NoRunType, PipelineAssumption DEF Interrupt, tables
<1>17. CASE UNCHANGED vars
    BY <1>17 DEF vars
<1>18. ASSUME NEW e \in Executors, NEW step \in Steps, Embed(e, step) \/ UNCHANGED calls,
              Goto(e, step), UNCHANGED <<marks, rows, error, budget>>
       PROVE  TypeOK'
    <2>1. calls' \in [Units -> Nat]
        BY <1>1, <1>18 DEF Embed
    <2>2. run' \in [Executors -> Run]
        BY <1>1, <1>18 DEF Goto, Run
    <2> QED BY <1>18, <2>1, <2>2
<1>19. ASSUME NEW e \in Executors, EmbedRules(e) \/ EmbedCases(e) PROVE TypeOK'
    <2>1. PICK step \in {"check", "evalrun"} :
              /\ Embed(e, step) \/ UNCHANGED calls
              /\ Goto(e, step) /\ UNCHANGED <<marks, rows, error, budget>>
        BY <1>19 DEF EmbedRules, EmbedCases, Embed, tables
    <2>2. step \in Steps
        BY DEF Steps
    <2> QED BY <1>18, <2>1, <2>2
<1> QED
    BY <1>19, <1>2, <1>4, <1>5, <1>6, <1>7, <1>8, <1>9, <1>10, <1>11, <1>12, <1>14, <1>15,
       <1>16, <1>17 DEF Next, Step

\* The tables and the runs keep their types, whatever overlaps.
THEOREM ResumeTypeCorrect == Spec => []TypeOK
BY TypeInit, TypeStep, PTL DEF Spec

-----------------------------------------------------------------------------
(* Runs that overlap *)

AllCasesSettled == \A c \in Cases : Settled(<<Extracting, c>>)

\* What a run up to clustering_rules has seen committed where it is.
RunSound(e) ==
    LET r == run[e]
    IN  /\ r.stage <= LastStage
        /\ r.step \in {"off", "embedrules", "check", "items", "write", "done"} => r.item = 0
        /\ r.step \notin {"embedcases", "evalrun"}
        /\ r.step = "called" => r.item # 0
        /\ r.step = "write" => r.stage # Extracting
        /\ r.step \in {"markread", "markinsert"} /\ r.item # 0 => r.stage = Extracting
        /\ r.stage = Extracting /\ r.step \in {"items", "called", "markread", "markinsert"} =>
              \/ \A c \in Cases \ r.todo : Settled(<<Extracting, c>>)
              \/ r.step \in {"markread", "markinsert"} /\ r.item = 0
        /\ r.stage = Extracting /\ r.step \in {"markread", "markinsert"} /\ r.item = 0 =>
              AllCasesSettled
        /\ r.stage = Validating /\ r.step \in {"markread", "markinsert"} =>
              rows[<<Validating, 0>>] > 0

\* A stage that is marked is one that runs get to, and its work is committed.
StageSound(k) ==
    marks[<<k, 0>>] > 0 =>
        /\ k <= LastStage
        /\ k = Extracting => AllCasesSettled
        /\ k = Validating => rows[<<Validating, 0>>] > 0

\* The inductive invariant of overlapping runs.
OverlapInv == TypeOK /\ (\A e \in Executors : RunSound(e)) /\ (\A k \in Stages : StageSound(k))

LEMMA OverlapInit == Init => OverlapInv
<1> SUFFICES ASSUME Init PROVE OverlapInv
    OBVIOUS
<1>1. \A k \in Stages : marks[<<k, 0>>] = 0
    BY DEF Init, Units
<1>2. \A e \in Executors : run[e].step = "off" /\ run[e].item = 0 /\ run[e].stage = 1
    BY DEF Init, NoRun, Validating
<1>3. ASSUME NEW e \in Executors PROVE RunSound(e)
    BY <1>2, PipelineAssumption DEF RunSound
<1> QED BY <1>1, <1>3, TypeInit DEF OverlapInv, StageSound

\* A step of one run leaves the others what they have seen.
LEMMA OverlapFrame ==
    ASSUME OverlapInv, TypeOK', NEW e \in Executors,
           \A f \in Executors \ {e} : run'[f] = run[f],
           \A c \in Cases : Settled(<<Extracting, c>>) => Settled(<<Extracting, c>>)',
           rows[<<Validating, 0>>] > 0 => rows'[<<Validating, 0>>] > 0,
           RunSound(e)',
           \A k \in Stages : marks'[<<k, 0>>] > 0 => marks[<<k, 0>>] > 0 \/ StageSound(k)'
    PROVE  OverlapInv'
<1>1. AllCasesSettled => AllCasesSettled'
    BY DEF AllCasesSettled
<1>2. ASSUME NEW f \in Executors PROVE RunSound(f)'
    <2>1. CASE f = e
        BY <2>1
    <2>2. CASE f # e
        <3>1. run'[f] = run[f] /\ RunSound(f)
            BY <2>2 DEF OverlapInv
        <3> QED BY <1>1, <3>1 DEF RunSound
    <2> QED BY <2>1, <2>2
<1>3. ASSUME NEW k \in Stages PROVE StageSound(k)'
    BY <1>1, <1>3 DEF OverlapInv, StageSound
<1> QED BY <1>2, <1>3 DEF OverlapInv

\* A step that writes nothing.
LEMMA OverlapMove ==
    ASSUME OverlapInv, TypeOK', NEW e \in Executors, NEW r,
           run' = [run EXCEPT ![e] = r], UNCHANGED <<marks, rows>>, RunSound(e)'
    PROVE  OverlapInv'
BY OverlapFrame DEF Settled, OverlapInv, TypeOK

\* A run that is gone, or at the top, has nothing to show.
LEMMA OverlapReset ==
    ASSUME OverlapInv, TypeOK', NEW e \in Executors, NEW step \in {"off", "check"},
           run' = [run EXCEPT ![e] = [NoRun EXCEPT !.step = step]], UNCHANGED <<marks, rows>>
    PROVE  OverlapInv'
<1>1. run'[e].step = step /\ run'[e].stage = 1 /\ run'[e].item = 0
    BY DEF OverlapInv, TypeOK, NoRun, Validating
<1>2. RunSound(e)'
    BY <1>1, PipelineAssumption DEF RunSound, Validating, Extracting
<1> QED BY <1>2, OverlapMove

LEMMA OverlapFail ==
    ASSUME OverlapInv, TypeOK', NEW e \in Executors,
           run' = [run EXCEPT ![e] = NoRun], UNCHANGED <<marks, rows>>
    PROVE  OverlapInv'
<1>1. NoRun = [NoRun EXCEPT !.step = "off"]
    BY DEF NoRun
<1> QED BY <1>1, OverlapReset

\* A run that goes on to the next stage, or ends.
LEMMA AdvancedSound ==
    ASSUME OverlapInv, NEW e \in Executors, run[e].item = 0, run'[e] = Advanced(run[e])
    PROVE  RunSound(e)'
<1>1. run[e] \in Run /\ run[e].stage \in 1..15 /\ run[e].stage <= LastStage /\ LastStage \in 1..15
    BY PipelineAssumption DEF OverlapInv, TypeOK, Run, RunSound, Stages
<1>2. run'[e].step \in {"done", "check", "embedrules"} /\ run'[e].item = 0
    BY <1>1, AdvancedFields
<1>3. run'[e].stage <= LastStage
    <2>1. CASE run[e].stage >= LastStage
        BY <1>1, <2>1 DEF Advanced, Run
    <2>2. CASE ~(run[e].stage >= LastStage)
        BY <1>1, <2>2 DEF Advanced, Run
    <2> QED BY <2>1, <2>2
<1> QED BY <1>2, <1>3 DEF RunSound

LEMMA OverlapCheckStage ==
    ASSUME OverlapInv, TypeOK', NEW e \in Executors, CheckStage(e)
    PROVE  OverlapInv'
<1> DEFINE k == run[e].stage
<1>0. run[e] \in Run /\ RunSound(e) /\ run[e].step = "check" /\ k \in Stages
    BY DEF OverlapInv, TypeOK, CheckStage, Run
<1>1. CASE Fail(e, "multiple_markers")
    BY <1>1, OverlapFail DEF Fail, tables
<1>2. CASE ~Fail(e, "multiple_markers")
    <2>1. UNCHANGED <<marks, rows>>
        BY <1>2 DEF CheckStage, tables
    <2>2. CASE marks[<<k, 0>>] = 1
        <3>1. run' = [run EXCEPT ![e] = Advanced(@)]
            BY <1>2, <2>2 DEF CheckStage, Skipped
        <3>2. run'[e] = Advanced(run[e]) /\ run[e].item = 0
            BY <1>0, <3>1 DEF OverlapInv, TypeOK, RunSound
        <3> QED BY <2>1, <3>1, <3>2, AdvancedSound, OverlapMove
    <2>3. CASE marks[<<k, 0>>] # 1
        <3>1. run' = [run EXCEPT ![e] = [@ EXCEPT !.step = "items", !.todo = ToDo(k)]]
            BY <1>2, <2>3 DEF CheckStage
        <3>2. /\ run'[e].step = "items" /\ run'[e].stage = k /\ run'[e].item = 0
              /\ run'[e].todo = ToDo(k)
            BY <1>0, <3>1 DEF OverlapInv, TypeOK, Run, RunSound
        <3>3. ASSUME k = Extracting, NEW c \in Cases \ ToDo(k) PROVE Settled(<<Extracting, c>>)
            BY <3>3, ItemNumbers DEF ToDo, Settled, OverlapInv, TypeOK, Units, Stages, Extracting
        <3>4. RunSound(e)'
            BY <1>0, <2>1, <3>2, <3>3 DEF RunSound, Settled
        <3> QED BY <2>1, <3>1, <3>4, OverlapMove
    <2> QED BY <2>2, <2>3
<1> QED BY <1>1, <1>2

LEMMA OverlapEmbedRules ==
    ASSUME OverlapInv, TypeOK', NEW e \in Executors, EmbedRules(e)
    PROVE  OverlapInv'
<1>0. run[e] \in Run /\ RunSound(e) /\ run[e].step = "embedrules"
    BY DEF OverlapInv, TypeOK, EmbedRules
<1>1. /\ UNCHANGED <<marks, rows>>
      /\ run' = [run EXCEPT ![e] = [run[e] EXCEPT !.step = "check"]]
    BY DEF EmbedRules, Embed, Goto, tables, OverlapInv, TypeOK
<1>2. run'[e].step = "check" /\ run'[e].stage = run[e].stage /\ run'[e].item = 0
    BY <1>0, <1>1 DEF OverlapInv, TypeOK, Run, RunSound
<1>3. RunSound(e)'
    BY <1>0, <1>2 DEF RunSound
<1> QED BY <1>1, <1>3, OverlapMove

LEMMA OverlapSkipItem ==
    ASSUME OverlapInv, TypeOK', NEW e \in Executors, NEW i \in Items, SkipItem(e, i)
    PROVE  OverlapInv'
<1>0. run[e] \in Run /\ RunSound(e) /\ run[e].step = "items"
    BY DEF OverlapInv, TypeOK, SkipItem
<1>1. CASE Fail(e, "multiple_markers")
    BY <1>1, OverlapFail DEF Fail, tables
<1>2. CASE ~Fail(e, "multiple_markers")
    <2>1. /\ UNCHANGED <<marks, rows>> /\ marks[<<run[e].stage, i>>] = 1
          /\ run' = [run EXCEPT ![e] = [run[e] EXCEPT !.todo = @ \ {i}]]
        BY <1>0, <1>2 DEF SkipItem, tables, OverlapInv, TypeOK
    <2>2. /\ run'[e].step = "items" /\ run'[e].stage = run[e].stage /\ run'[e].item = run[e].item
          /\ run'[e].todo = run[e].todo \ {i}
        BY <1>0, <2>1 DEF OverlapInv, TypeOK, Run
    <2>3. RunSound(e)'
        BY <1>0, <2>1, <2>2 DEF RunSound, Settled
    <2> QED BY <2>1, <2>3, OverlapMove
<1> QED BY <1>1, <1>2

LEMMA OverlapCallItem ==
    ASSUME OverlapInv, TypeOK', NEW e \in Executors, NEW i \in Items, CallItem(e, i)
    PROVE  OverlapInv'
<1>0. run[e] \in Run /\ RunSound(e) /\ run[e].step = "items"
    BY DEF OverlapInv, TypeOK, CallItem, Call
<1>1. /\ UNCHANGED <<marks, rows>>
      /\ run' = [run EXCEPT ![e] = [run[e] EXCEPT !.step = "called", !.item = i]]
    BY DEF CallItem, Call, OverlapInv, TypeOK
<1>2. /\ run'[e].step = "called" /\ run'[e].stage = run[e].stage
      /\ run'[e].todo = run[e].todo /\ run'[e].item # 0
    BY <1>0, <1>1, ItemNumbers DEF OverlapInv, TypeOK, Run
<1>3. RunSound(e)'
    BY <1>0, <1>1, <1>2 DEF RunSound, Settled
<1> QED BY <1>1, <1>3, OverlapMove

LEMMA OverlapWriteMicroRules ==
    ASSUME OverlapInv, TypeOK', NEW e \in Executors, NEW n \in {0, 1}, WriteMicroRules(e, n)
    PROVE  OverlapInv'
<1>0. /\ run[e] \in Run /\ RunSound(e) /\ run[e].step = "called" /\ run[e].stage = Extracting
      /\ rows \in [Units -> Nat] /\ At(e) \in Units /\ run[e].item \in Items \cup {0}
    BY DEF OverlapInv, TypeOK, WriteMicroRules, At, Units, Run
<1>1. /\ rows' = [rows EXCEPT ![At(e)] = @ + n] /\ marks' = marks
      /\ run' = [run EXCEPT ![e] = [run[e] EXCEPT !.step = "markread"]]
    BY DEF WriteMicroRules, Goto, OverlapInv, TypeOK
<1>2. \A u \in Units : rows'[u] >= rows[u]
    BY <1>0, <1>1
<1>3. \A u \in Units : Settled(u) => Settled(u)'
    BY <1>0, <1>1, <1>2 DEF Settled
<1>4. /\ run'[e].step = "markread" /\ run'[e].stage = Extracting
      /\ run'[e].item = run[e].item /\ run'[e].todo = run[e].todo
    BY <1>0, <1>1 DEF OverlapInv, TypeOK, Run
<1>5. run[e].item # 0
    BY <1>0 DEF RunSound
<1>6. \A c \in Cases : <<Extracting, c>> \in Units
    BY ItemNumbers DEF Units, Stages, Extracting
<1>7. RunSound(e)'
    BY <1>0, <1>3, <1>4, <1>5, <1>6 DEF RunSound, Validating, Extracting
<1>8. rows[<<Validating, 0>>] > 0 => rows'[<<Validating, 0>>] > 0
    <2>1. <<Validating, 0>> \in Units
        BY DEF Units, Stages, Validating
    <2> QED BY <1>0, <1>2, <2>1 DEF TypeOK
<1> QED BY <1>1, <1>3, <1>6, <1>7, <1>8, OverlapFrame DEF OverlapInv, TypeOK

\* No run is at a stage that asks for an answer about a cluster or an evaluated case.
LEMMA OverlapStages ==
    ASSUME OverlapInv, LastStage <= Clustering, NEW e \in Executors
    PROVE  run[e].stage \in 1..4
BY PipelineAssumption DEF OverlapInv, TypeOK, Run, RunSound, Clustering, Stages

LEMMA OverlapEndItems ==
    ASSUME OverlapInv, LastStage <= Clustering, TypeOK', NEW e \in Executors, EndItems(e)
    PROVE  OverlapInv'
<1> DEFINE step == IF run[e].stage = Extracting THEN "markread" ELSE "write"
<1>0. /\ run[e] \in Run /\ RunSound(e) /\ run[e].step = "items" /\ run[e].todo = {}
      /\ run[e].item = 0
    BY DEF OverlapInv, TypeOK, EndItems, RunSound
<1>1. run[e].stage \in 1..4
    BY OverlapStages
<1>2. /\ UNCHANGED <<marks, rows>>
      /\ run' = [run EXCEPT ![e] = [run[e] EXCEPT !.step = step]]
    <2>1. run[e].stage \notin Evaluating \cup {Baseline}
          /\ (run[e].stage \in AnswerStages <=> run[e].stage = Extracting)
        BY <1>1 DEF AnswerStages, Synthesizing, Reviewing, Evaluating, Extracting, Baseline
    <2>2. UNCHANGED <<marks, rows>> /\ Goto(e, step)
        BY <2>1 DEF EndItems, tables
    <2> HIDE DEF step
    <2> QED BY <2>2 DEF Goto, OverlapInv, TypeOK
<1>3. /\ run'[e].step = step /\ run'[e].stage = run[e].stage
      /\ run'[e].item = 0 /\ run'[e].todo = {}
    BY <1>0, <1>2 DEF OverlapInv, TypeOK, Run
<1>4. run[e].stage = Extracting => AllCasesSettled
    BY <1>0 DEF RunSound, AllCasesSettled
<1>5. RunSound(e)'
    BY <1>0, <1>2, <1>3, <1>4 DEF RunSound, AllCasesSettled, Settled, Validating, Extracting
<1> QED BY <1>2, <1>5, OverlapMove

LEMMA OverlapWriteArtifact ==
    ASSUME OverlapInv, LastStage <= Clustering, TypeOK', NEW e \in Executors, WriteArtifact(e)
    PROVE  OverlapInv'
<1> DEFINE k == run[e].stage
<1>0. /\ run[e] \in Run /\ RunSound(e) /\ run[e].step = "write" /\ run[e].item = 0
      /\ rows \in [Units -> Nat] /\ k \in Stages
    BY DEF OverlapInv, TypeOK, WriteArtifact, RunSound, Run
<1>1. k \in 1..4 /\ k # Extracting
    BY <1>0, OverlapStages DEF RunSound
<1>2. CASE Fail(e, "duplicate_key")
    BY <1>2, OverlapFail DEF Fail, tables
<1>3. CASE ~Fail(e, "duplicate_key")
    <2>1. /\ rows' = [rows EXCEPT ![<<k, 0>>] = Written(k)] /\ marks' = marks
          /\ run' = [run EXCEPT ![e] = [run[e] EXCEPT !.step = "markread"]]
        BY <1>0, <1>3 DEF WriteArtifact, Goto, At, OverlapInv, TypeOK
    <2>2. <<k, 0>> \in Units /\ Written(k) \in {rows[<<k, 0>>], rows[<<k, 0>>] + 1}
          /\ (k = Validating => Written(k) = rows[<<k, 0>>] + 1)
        BY <1>0, <1>1 DEF Units, Written, Pruning, Validating, Embedding, Clustering
    <2>3. \A u \in Units : rows'[u] >= rows[u]
        BY <1>0, <2>1, <2>2
    <2>4. \A u \in Units : Settled(u) => Settled(u)'
        BY <1>0, <2>1, <2>3 DEF Settled, TypeOK
    <2>5. run'[e].step = "markread" /\ run'[e].stage = k /\ run'[e].item = 0
        BY <1>0, <2>1 DEF OverlapInv, TypeOK, Run
    <2>6. k = Validating => rows'[<<Validating, 0>>] > 0
        BY <1>0, <2>1, <2>2
    <2>7. RunSound(e)'
        BY <1>0, <1>1, <2>5, <2>6 DEF RunSound
    <2>8. rows[<<Validating, 0>>] > 0 => rows'[<<Validating, 0>>] > 0
        <3>1. <<Validating, 0>> \in Units
            BY DEF Units, Stages, Validating
        <3> QED BY <1>0, <2>3, <3>1 DEF TypeOK
    <2>9. \A c \in Cases : <<Extracting, c>> \in Units
        BY ItemNumbers DEF Units, Stages, Extracting
    <2> QED BY <2>1, <2>4, <2>7, <2>8, <2>9, OverlapFrame DEF OverlapInv, TypeOK
<1> QED BY <1>2, <1>3

\* A run whose item is marked takes up the next one.
LEMMA NextItemSound ==
    ASSUME OverlapInv, NEW e \in Executors, run[e].step \in {"markread", "markinsert"},
           NEW i \in Items, run[e].item = i, i # 0, run'[e] = NextItem(run[e]),
           \A c \in Cases : Settled(<<Extracting, c>>) => Settled(<<Extracting, c>>)',
           Settled(<<Extracting, i>>)'
    PROVE  RunSound(e)'
<1>1. run[e] \in Run /\ RunSound(e) /\ run[e].stage = Extracting
    BY DEF OverlapInv, TypeOK, RunSound
<1>2. /\ run'[e].step = "items" /\ run'[e].stage = Extracting /\ run'[e].item = 0
      /\ run'[e].todo = run[e].todo \ {run[e].item}
    BY <1>1 DEF NextItem, Run
<1>3. \A c \in Cases \ run'[e].todo : Settled(<<Extracting, c>>)'
    BY <1>1, <1>2 DEF RunSound
<1> QED BY <1>1, <1>2, <1>3 DEF RunSound

LEMMA OverlapMarkRead ==
    ASSUME OverlapInv, TypeOK', NEW e \in Executors, MarkRead(e)
    PROVE  OverlapInv'
<1>0. run[e] \in Run /\ RunSound(e) /\ run[e].step = "markread"
    BY DEF OverlapInv, TypeOK, MarkRead
<1>1. CASE Fail(e, "multiple_markers")
    BY <1>1, OverlapFail DEF Fail, tables
<1>2. CASE ~Fail(e, "multiple_markers")
    <2>1. UNCHANGED <<marks, rows>>
        BY <1>2 DEF MarkRead, tables
    <2>2. CASE marks[At(e)] = 1
        <3>1. run' = [run EXCEPT ![e] = Marked(@)] /\ run'[e] = Marked(run[e])
            BY <1>2, <2>2 DEF MarkRead, OverlapInv, TypeOK
        <3>2. CASE run[e].item = 0
            BY <2>1, <3>1, <3>2, AdvancedSound, OverlapMove DEF Marked
        <3>3. CASE run[e].item # 0
            <4>1. run[e].stage = Extracting
                BY <1>0, <3>3 DEF RunSound
            <4> PICK i \in Items : i = run[e].item
                BY <1>0, <3>3 DEF Run
            <4>2. Settled(<<Extracting, i>>)'
                BY <2>1, <2>2, <4>1 DEF Settled, At
            <4>3. RunSound(e)'
                BY <1>0, <2>1, <3>1, <3>3, <4>2, NextItemSound DEF Marked, Settled
            <4> QED BY <2>1, <3>1, <4>3, OverlapMove
        <3> QED BY <3>2, <3>3
    <2>3. CASE marks[At(e)] # 1
        <3>1. run' = [run EXCEPT ![e] = [run[e] EXCEPT !.step = "markinsert"]]
            BY <1>2, <2>3 DEF MarkRead, OverlapInv, TypeOK
        <3>2. /\ run'[e].step = "markinsert" /\ run'[e].stage = run[e].stage
              /\ run'[e].item = run[e].item /\ run'[e].todo = run[e].todo
            BY <1>0, <3>1 DEF OverlapInv, TypeOK, Run
        <3>3. RunSound(e)'
            BY <1>0, <2>1, <3>2 DEF RunSound, AllCasesSettled, Settled
        <3> QED BY <2>1, <3>1, <3>3, OverlapMove
    <2> QED BY <2>2, <2>3
<1> QED BY <1>1, <1>2

LEMMA OverlapMarkInsert ==
    ASSUME OverlapInv, TypeOK', NEW e \in Executors, MarkInsert(e)
    PROVE  OverlapInv'
<1> DEFINE k == run[e].stage
<1>0. /\ run[e] \in Run /\ RunSound(e) /\ run[e].step = "markinsert"
      /\ marks \in [Units -> Nat] /\ At(e) \in Units /\ k \in Stages
      /\ run[e].item \in Items \cup {0}
    BY DEF OverlapInv, TypeOK, MarkInsert, At, Units, Run
<1>1. /\ marks' = [marks EXCEPT ![At(e)] = @ + 1] /\ rows' = rows
      /\ run' = [run EXCEPT ![e] = Marked(@)] /\ run'[e] = Marked(run[e])
    BY DEF MarkInsert, OverlapInv, TypeOK
<1>2. \A u \in Units : marks'[u] >= marks[u]
    BY <1>0, <1>1
<1>3. \A u \in Units : Settled(u) => Settled(u)'
    BY <1>0, <1>1, <1>2 DEF Settled
<1>4. \A c \in Cases : <<Extracting, c>> \in Units
    BY ItemNumbers DEF Units, Stages, Extracting
<1>5. AllCasesSettled => AllCasesSettled'
    BY <1>3, <1>4 DEF AllCasesSettled
<1>6. RunSound(e)'
    <2>1. CASE run[e].item = 0
        BY <1>1, <2>1, AdvancedSound DEF Marked
    <2>2. CASE run[e].item # 0
        <3> PICK i \in Items : i = run[e].item
            BY <1>0, <2>2
        <3>1. run[e].stage = Extracting /\ At(e) = <<Extracting, i>>
            BY <1>0, <2>2 DEF RunSound, At
        <3>2. marks'[<<Extracting, i>>] > 0
            BY <1>0, <1>1, <3>1
        <3>3. Settled(<<Extracting, i>>)'
            BY <3>2 DEF Settled
        <3> QED BY <1>0, <1>1, <1>3, <1>4, <2>2, <3>3, NextItemSound DEF Marked
    <2> QED BY <2>1, <2>2
<1>7. ASSUME NEW j \in Stages, marks'[<<j, 0>>] > 0
      PROVE  marks[<<j, 0>>] > 0 \/ StageSound(j)'
    <2>1. CASE <<j, 0>> = At(e)
        <3>1. j = k /\ run[e].item = 0
            BY <2>1 DEF At
        <3>2. j <= LastStage /\ (j = Extracting => AllCasesSettled)
              /\ (j = Validating => rows[<<Validating, 0>>] > 0)
            BY <1>0, <3>1 DEF RunSound
        <3> QED BY <1>1, <1>5, <3>2 DEF StageSound
    <2>2. CASE <<j, 0>> # At(e)
        <3>1. <<j, 0>> \in Units
            BY DEF Units
        <3> QED BY <1>0, <1>1, <1>7, <2>2, <3>1
    <2> QED BY <2>1, <2>2
<1> QED BY <1>1, <1>3, <1>4, <1>6, <1>7, OverlapFrame DEF OverlapInv, TypeOK

LEMMA OverlapStep == LastStage <= Clustering /\ OverlapInv /\ [Next]_vars => OverlapInv'
<1> SUFFICES ASSUME LastStage <= Clustering, OverlapInv, [Next]_vars PROVE OverlapInv'
    OBVIOUS
<1>0. TypeOK /\ TypeOK'
    BY TypeStep DEF OverlapInv
<1>1. ASSUME NEW e \in Executors, Begin(e) PROVE OverlapInv'
    BY <1>0, <1>1, OverlapReset DEF Begin, tables
<1>2. ASSUME NEW e \in Executors, Interrupt(e) PROVE OverlapInv'
    BY <1>0, <1>2, OverlapFail DEF Interrupt, tables
<1>3. ASSUME NEW e \in Executors,
             \/ \E n \in {0, 1} : WriteWithMarker(e, n)
             \/ UpsertCaseResult(e) \/ CheckEvalRun(e) \/ EmbedCases(e)
      PROVE  FALSE
    <2>1. run[e].stage \in 1..4 /\ run[e].step \notin {"embedcases", "evalrun"}
        BY OverlapStages DEF OverlapInv, RunSound
    <2> QED BY <1>3, <2>1
            DEF WriteWithMarker, UpsertCaseResult, CheckEvalRun, EmbedCases, Synthesizing, Reviewing, Evaluating
<1>4. ASSUME NEW e \in Executors, Step(e) PROVE OverlapInv'
    BY <1>0, <1>1, <1>3, <1>4, OverlapEmbedRules, OverlapCheckStage, OverlapSkipItem, OverlapCallItem,
       OverlapWriteMicroRules, OverlapEndItems, OverlapWriteArtifact, OverlapMarkRead,
       OverlapMarkInsert DEF Step
<1>5. CASE UNCHANGED vars
    BY <1>0, <1>5 DEF vars, OverlapInv, RunSound, StageSound, AllCasesSettled, Settled
<1> QED BY <1>2, <1>4, <1>5 DEF Next

\* However many runs of a job overlap up to clustering_rules, and wherever they are
\* interrupted, no stage is marked before every one of its cases has its rules or its
\* marker and its own rows are there: no run skips work that nobody has done.
THEOREM OverlapMarksComplete == LastStage <= Clustering => (Spec => []MarkedMeansComplete)
<1> SUFFICES ASSUME LastStage <= Clustering PROVE Spec => []MarkedMeansComplete
    OBVIOUS
<1>1. ASSUME OverlapInv PROVE MarkedMeansComplete
    <2> SUFFICES ASSUME NEW k \in Stages, marks[<<k, 0>>] > 0
                 PROVE  /\ k \in 1..4
                        /\ k = Extracting => AllCasesSettled
                        /\ k = Validating => rows[<<k, 0>>] > 0
        BY DEF MarkedMeansComplete, AllCasesSettled, Evaluating, Synthesizing, Reviewing, Pruning,
               Compiling
    <2>1. StageSound(k)
        BY <1>1 DEF OverlapInv
    <2> QED BY <2>1, PipelineAssumption DEF StageSound, Stages, Clustering
<1>2. OverlapInv /\ [Next]_vars => OverlapInv'
    BY OverlapStep
<1> QED BY <1>1, <1>2, OverlapInit, PTL DEF Spec
=============================================================================
