----------------------- MODULE PipelineResume_proofs ------------------------
(***************************************************************************)
(* For one run at a time: that an interruption at any step neither repeats *)
(* nor omits an answer, and that the pipeline implements StageChain.       *)
(***************************************************************************)
EXTENDS PipelineResumeSingle, PipelineOverlap_proofs, FiniteSetTheorems,
        WellFoundedInduction

-----------------------------------------------------------------------------
(* One run at a time *)

\* The part of the invariant that is about the tables, and the part about runs.
TablesInv == AnswersOnce /\ MarkedMeansComplete /\ MarksOnce /\ MarkedInOrder /\ RowsMarked
RunsInv == AtNextStage /\ ItemInHand /\ ToDoExact

LEMMA ResumeInvParts == ResumeInv <=> TablesInv /\ RunsInv
BY DEF ResumeInv, TablesInv, RunsInv

LEMMA InvInit == Init => ResumeInv
<1> SUFFICES ASSUME Init PROVE ResumeInv
    OBVIOUS
<1>1. \A k \in Stages : \A i \in Items \cup {0} : <<k, i>> \in Units
    BY DEF Units
<1>2. /\ \A u \in Units : marks[u] = 0 /\ rows[u] = 0
      /\ \A e \in Executors : run[e] = NoRun
    BY DEF Init
<1>3. AnswersOnce /\ MarksOnce
    BY <1>2 DEF AnswersOnce, MarksOnce
<1>4. MarkedMeansComplete /\ MarkedInOrder
    BY <1>1, <1>2 DEF MarkedMeansComplete, MarkedInOrder
<1>5. RowsMarked
    BY <1>1, <1>2 DEF RowsMarked, Synthesizing, Reviewing, Stages
<1>6. AtNextStage /\ ItemInHand /\ ToDoExact
    BY <1>2 DEF AtNextStage, ItemInHand, ToDoExact, NoRun, Working
<1> QED BY <1>3, <1>4, <1>5, <1>6 DEF ResumeInv

\* A step that writes no row and no marker keeps the tables' part.
LEMMA TablesKept ==
    ASSUME TablesInv, UNCHANGED <<marks, rows>>
    PROVE  TablesInv'
BY DEF TablesInv, AnswersOnce, MarkedMeansComplete, MarksOnce, MarkedInOrder, RowsMarked,
       Clusters, HasRules, Settled

\* A run that ends, or starts from the top, owes nothing.
LEMMA RunReset ==
    ASSUME TypeOK, NEW e \in Executors,
           NEW step \in {"off", "check"}, run' = [run EXCEPT ![e] = [NoRun EXCEPT !.step = step]]
    PROVE  RunsInv'
<1>1. \A f \in Executors : run'[f] = [NoRun EXCEPT !.step = step]
    BY SingleAssumption DEF TypeOK
<1>2. \A f \in Executors : run'[f].step = step /\ run'[f].stage = 1 /\ run'[f].item = 0
    BY <1>1 DEF NoRun, Validating
<1>3. AtNextStage'
    BY <1>2 DEF AtNextStage, Working, Stages
<1>4. ItemInHand' /\ ToDoExact'
    BY <1>2 DEF ItemInHand, ToDoExact, Working
<1> QED BY <1>3, <1>4 DEF RunsInv

LEMMA InvBegin ==
    ASSUME TypeOK, ResumeInv, NEW e \in Executors, Begin(e)
    PROVE  ResumeInv'
<1>1. TablesInv'
    BY TablesKept, ResumeInvParts DEF Begin, tables
<1>2. RunsInv'
    BY RunReset DEF Begin
<1> QED BY <1>1, <1>2, ResumeInvParts, PTL

LEMMA InvFail ==
    ASSUME TypeOK, ResumeInv, NEW e \in Executors,
           run' = [run EXCEPT ![e] = NoRun], UNCHANGED <<marks, rows>>
    PROVE  ResumeInv'
<1>1. TablesInv'
    BY TablesKept, ResumeInvParts
<1>2. NoRun = [NoRun EXCEPT !.step = "off"]
    BY DEF NoRun
<1>3. RunsInv'
    BY <1>2, RunReset
<1> QED BY <1>1, <1>3, ResumeInvParts, PTL

\* A stage whose marker is there is behind the run that passes over it.
LEMMA RunAdvances ==
    ASSUME TypeOK, NEW e \in Executors,
           run[e].item = 0,
           run' = [run EXCEPT ![e] = Advanced(@)],
           \A j \in Stages : j <= run[e].stage => marks'[<<j, 0>>] > 0
    PROVE  RunsInv'
<1>1. \A f \in Executors : f = e
    BY SingleAssumption
<1>2. run[e] \in Run /\ run'[e] = Advanced(run[e])
    BY DEF TypeOK
<1>3. /\ run'[e].step \in {"done", "check", "embedrules"}
      /\ run'[e].step = "embedrules" => run'[e].stage = Embedding
      /\ run'[e].item = 0
      /\ run'[e].stage \in {run[e].stage, run[e].stage + 1}
    BY <1>2, AdvancedFields
<1>4. AtNextStage'
    <2>1. run[e].stage \in 1..15
        BY <1>2 DEF Run, Stages
    <2>2. ASSUME NEW j \in Stages, j < run'[e].stage PROVE marks'[<<j, 0>>] > 0
        BY <1>3, <2>1, <2>2 DEF Stages
    <2> QED BY <1>1, <1>3, <2>2 DEF AtNextStage, Working
<1>5. ItemInHand' /\ ToDoExact'
    BY <1>1, <1>3 DEF ItemInHand, ToDoExact, Working
<1> QED BY <1>4, <1>5 DEF RunsInv

LEMMA InvEmbedRules ==
    ASSUME TypeOK, ResumeInv, NEW e \in Executors, EmbedRules(e)
    PROVE  ResumeInv'
<1>1. /\ run[e].step = "embedrules" /\ UNCHANGED <<marks, rows>>
      /\ run' = [run EXCEPT ![e].step = "check"]
    BY DEF EmbedRules, Embed, Goto, tables
<1>2. TablesInv'
    BY <1>1, TablesKept, ResumeInvParts
<1>3. \A f \in Executors : f = e
    BY SingleAssumption
<1>4. run'[e].step = "check" /\ run'[e].stage = run[e].stage /\ run'[e].item = 0
    BY <1>1 DEF ResumeInv, ItemInHand, TypeOK, Run
<1>5. AtNextStage'
    BY <1>1, <1>3, <1>4 DEF ResumeInv, AtNextStage, Working
<1>6. ItemInHand' /\ ToDoExact'
    BY <1>3, <1>4 DEF ItemInHand, ToDoExact, Working
<1> QED BY <1>2, <1>5, <1>6, ResumeInvParts, PTL DEF RunsInv

LEMMA InvCheckStage ==
    ASSUME TypeOK, ResumeInv, NEW e \in Executors, CheckStage(e)
    PROVE  ResumeInv'
<1> DEFINE k == run[e].stage
<1>1. k \in Stages /\ <<k, 0>> \in Units
    BY DEF TypeOK, Run, Units
<1>2. CASE Fail(e, "multiple_markers")
    BY <1>2, InvFail DEF Fail, tables
<1>3. CASE ~Fail(e, "multiple_markers")
    <2>1. UNCHANGED <<marks, rows>> /\ marks[<<k, 0>>] <= 1 /\ run[e].step = "check"
        BY <1>3 DEF CheckStage, tables
    <2>2. TablesInv'
        BY <2>1, TablesKept, ResumeInvParts
    <2>3. run[e].item = 0 /\ \A j \in Stages : j < k => marks[<<j, 0>>] > 0
        BY <2>1 DEF ResumeInv, AtNextStage, ItemInHand
    <2>4. CASE marks[<<k, 0>>] = 1
        <3>1. run' = [run EXCEPT ![e] = Advanced(@)]
            BY <1>3, <2>4 DEF CheckStage, Skipped
        <3>2. \A j \in Stages : j <= k => marks'[<<j, 0>>] > 0
            BY <1>1, <2>1, <2>3, <2>4 DEF Stages
        <3>3. RunsInv'
            BY <2>3, <3>1, <3>2, RunAdvances
        <3> QED BY <2>2, <3>3, ResumeInvParts, PTL
    <2>5. CASE marks[<<k, 0>>] # 1
        <3>1. marks[<<k, 0>>] = 0
            BY <1>1, <2>1, <2>5 DEF TypeOK
        <3>2. \A f \in Executors : f = e
            BY SingleAssumption
        <3>3. run' = [run EXCEPT ![e] = [@ EXCEPT !.step = "items", !.todo = ToDo(k)]]
            BY <1>3, <2>5 DEF CheckStage
        <3>4. run'[e].step = "items" /\ run'[e].stage = k /\ run'[e].item = 0 /\ run'[e].todo = ToDo(k)
            BY <2>3, <3>3 DEF TypeOK, Run
        <3>5. AtNextStage'
            BY <2>1, <2>3, <3>1, <3>2, <3>4 DEF AtNextStage
        <3>6. ItemInHand'
            BY <3>2, <3>4 DEF ItemInHand
        <3>7. ASSUME k = Extracting \/ k \in Evaluating, NEW c \in Cases \ ToDo(k)
              PROVE  rows[<<k, c>>] > 0
            BY <3>7, ItemNumbers, <1>1 DEF ToDo, TypeOK, Units
        <3>8. ASSUME k = Extracting \/ k \in Evaluating, NEW c \in ToDo(k)
              PROVE  rows[<<k, c>>] = 0
            BY <3>8 DEF ToDo
        <3>9. k \in Synthesizing => ToDo(k) = Clusters
            BY DEF ToDo, Synthesizing, Extracting, Evaluating
        <3>10. k \in Reviewing => ToDo(k) = {i \in Clusters : rows[<<k - 2, i>>] > 0}
            BY DEF ToDo, Synthesizing, Extracting, Evaluating, Reviewing
        <3>11. k \notin AnswerStages \cup Evaluating => ToDo(k) = {}
            BY DEF ToDo, AnswerStages
        <3>12. ToDoExact'
            <4>1. Clusters' = Clusters
                BY <2>1 DEF Clusters, HasRules
            <4> QED BY <2>1, <3>2, <3>4, <3>7, <3>8, <3>9, <3>10, <3>11, <4>1
                    DEF ToDoExact, Settled
        <3> QED BY <2>2, <3>5, <3>6, <3>12, ResumeInvParts, PTL DEF RunsInv
    <2> QED BY <2>4, <2>5
<1> QED BY <1>2, <1>3

LEMMA InvSkipItem ==
    ASSUME TypeOK, ResumeInv, NEW e \in Executors, NEW i \in Items, SkipItem(e, i)
    PROVE  ResumeInv'
<1> DEFINE k == run[e].stage
<1>1. CASE Fail(e, "multiple_markers")
    BY <1>1, InvFail DEF Fail, tables
<1>2. CASE ~Fail(e, "multiple_markers")
    <2>1. /\ UNCHANGED <<marks, rows>>
          /\ marks[<<k, i>>] = 1
          /\ run[e].step = "items"
          /\ run' = [run EXCEPT ![e].todo = @ \ {i}]
        BY <1>2 DEF SkipItem, tables
    <2>2. TablesInv'
        BY <2>1, TablesKept, ResumeInvParts
    <2>3. \A f \in Executors : f = e
        BY SingleAssumption
    <2>4. /\ run'[e].step = "items" /\ run'[e].stage = k /\ run'[e].item = run[e].item
          /\ run'[e].todo = run[e].todo \ {i}
        BY <2>1 DEF TypeOK, Run
    <2>5. run[e].item = 0
        BY <2>1 DEF ResumeInv, ItemInHand
    <2>6. AtNextStage'
        BY <2>1, <2>3, <2>4 DEF ResumeInv, AtNextStage, Working
    <2>7. ItemInHand'
        BY <2>3, <2>4, <2>5 DEF ItemInHand
    <2>8. ToDoExact'
        <3>1. Clusters' = Clusters
            BY <2>1 DEF Clusters, HasRules
        <3> QED BY <2>1, <2>3, <2>4, <3>1 DEF ResumeInv, ToDoExact, Working, Settled
    <2> QED BY <2>2, <2>6, <2>7, <2>8, ResumeInvParts, PTL DEF RunsInv
<1> QED BY <1>1, <1>2

\* The item a run calls the model for has no answer in the tables.
LEMMA CallsUnanswered ==
    ASSUME TypeOK, ResumeInv, NEW e \in Executors, NEW i \in Items, CallItem(e, i)
    PROVE  ~Settled(<<run[e].stage, i>>)
<1> DEFINE k == run[e].stage
<1>1. /\ run[e].step = "items" /\ i \in run[e].todo /\ marks[<<k, i>>] = 0
    BY DEF CallItem, Call, IsFirst
<1>2. run[e].item = 0 /\ k \in Stages /\ i # 0
    BY <1>1, ItemNumbers DEF ResumeInv, ItemInHand, TypeOK, Run
<1>3. <<k, i>> \in Units
    BY <1>2 DEF Units
<1>4. CASE k = Extracting \/ k \in Evaluating
    BY <1>1, <1>2, <1>4 DEF ResumeInv, ToDoExact, Working, Settled
<1>5. CASE k \in Synthesizing \cup Reviewing
    BY <1>1, <1>3, <1>5 DEF ResumeInv, RowsMarked, Settled, TypeOK
<1>6. k \in AnswerStages \cup Evaluating
    BY <1>1 DEF ResumeInv, ToDoExact, Working
<1> QED BY <1>4, <1>5, <1>6 DEF AnswerStages

LEMMA InvCallItem ==
    ASSUME TypeOK, ResumeInv, NEW e \in Executors, NEW i \in Items, CallItem(e, i)
    PROVE  ResumeInv'
<1> DEFINE k == run[e].stage
<1>1. /\ run[e].step = "items" /\ i \in run[e].todo /\ marks[<<k, i>>] = 0
      /\ UNCHANGED <<marks, rows>>
      /\ run' = [run EXCEPT ![e] = [@ EXCEPT !.step = "called", !.item = i]]
    BY DEF CallItem, Call, IsFirst
<1>2. TablesInv'
    BY <1>1, TablesKept, ResumeInvParts
<1>3. \A f \in Executors : f = e
    BY SingleAssumption
<1>4. /\ run'[e].step = "called" /\ run'[e].stage = k /\ run'[e].item = i
      /\ run'[e].todo = run[e].todo
    BY <1>1 DEF TypeOK, Run
<1>5. /\ run[e].item = 0 /\ i # 0 /\ <<k, i>> \in Units
    BY <1>1, ItemNumbers DEF ResumeInv, ItemInHand, TypeOK, Run, Units
<1>6. AtNextStage'
    BY <1>1, <1>3, <1>4 DEF ResumeInv, AtNextStage, Working
<1>7. ItemInHand'
    <2>1. rows[<<k, i>>] = 0
        BY <1>5, CallsUnanswered DEF Settled, TypeOK
    <2> QED BY <1>1, <1>3, <1>4, <1>5, <2>1 DEF ItemInHand, At
<1>8. ToDoExact'
    <2>1. Clusters' = Clusters
        BY <1>1 DEF Clusters, HasRules
    <2>2. run[e].todo \ {run'[e].item} \subseteq run[e].todo \ {run[e].item}
        BY <1>4, <1>5, ItemNumbers DEF TypeOK, Run
    <2> QED BY <1>1, <1>3, <1>4, <2>1, <2>2 DEF ResumeInv, ToDoExact, Working, Settled
<1> QED BY <1>2, <1>6, <1>7, <1>8, ResumeInvParts, PTL DEF RunsInv

\* While a run works on stage k nothing from stage k on is marked.
LEMMA LaterUnmarked ==
    ASSUME TypeOK, ResumeInv, NEW e \in Executors, run[e].step \in Working,
           NEW j \in Stages, j >= run[e].stage
    PROVE  marks[<<j, 0>>] = 0
<1>1. run[e].stage \in Stages /\ <<j, 0>> \in Units
    BY DEF TypeOK, Run, Units
<1>2. marks[<<run[e].stage, 0>>] = 0
    BY DEF ResumeInv, AtNextStage
<1>3. CASE j = run[e].stage
    BY <1>2, <1>3
<1>4. CASE j # run[e].stage
    <2>1. marks[<<j, 0>>] \in Nat
        BY DEF TypeOK, Units
    <2>2. run[e].stage < j
        BY <1>1, <1>4 DEF Stages
    <2>3. ~(marks[<<j, 0>>] > 0)
        BY <1>1, <1>2, <2>2 DEF ResumeInv, MarkedInOrder
    <2> QED BY <2>1, <2>3
<1> QED BY <1>3, <1>4

LEMMA InvWriteMicroRules ==
    ASSUME TypeOK, ResumeInv, NEW e \in Executors, NEW n \in {0, 1}, WriteMicroRules(e, n)
    PROVE  ResumeInv'
<1> DEFINE i == run[e].item
           u == <<Extracting, i>>
<1>1. /\ run[e].step = "called" /\ run[e].stage = Extracting /\ At(e) = u
      /\ rows' = [rows EXCEPT ![u] = @ + n]
      /\ run' = [run EXCEPT ![e].step = "markread"]
      /\ UNCHANGED marks
    BY DEF WriteMicroRules, Goto, At
<1>2. /\ i # 0 /\ i \in run[e].todo /\ marks[u] = 0 /\ rows[u] = 0 /\ u \in Units
    BY <1>1 DEF ResumeInv, ItemInHand, TypeOK, Run, Units
<1>3. \A f \in Executors : f = e
    BY SingleAssumption
<1>4. /\ run'[e].step = "markread" /\ run'[e].stage = Extracting /\ run'[e].item = i
      /\ run'[e].todo = run[e].todo
    BY <1>1 DEF TypeOK, Run
<1>5. \A v \in Units : v # u => rows'[v] = rows[v]
    BY <1>1 DEF TypeOK
<1>6. rows'[u] \in {0, 1}
    BY <1>1, <1>2 DEF TypeOK
<1>7. AnswersOnce'
    BY <1>2, <1>5, <1>6 DEF ResumeInv, AnswersOnce
<1>8. MarkedMeansComplete'
    <2>1. \A j \in Stages : j >= Extracting => marks'[<<j, 0>>] = 0
        BY <1>1, LaterUnmarked DEF Working
    <2>2. <<1, 0>> # u /\ <<1, 0>> \in Units
        BY DEF Extracting, Units, Stages
    <2>3. rows'[<<1, 0>>] = rows[<<1, 0>>]
        BY <1>5, <2>2
    <2> QED BY <1>1, <2>1, <2>3
            DEF ResumeInv, MarkedMeansComplete, Stages, Extracting, Validating, Synthesizing,
                Reviewing, Pruning, Compiling, Evaluating
<1>9. MarksOnce' /\ MarkedInOrder'
    BY <1>1 DEF ResumeInv, MarksOnce, MarkedInOrder
<1>10. RowsMarked'
    BY <1>1, <1>5 DEF ResumeInv, RowsMarked, Synthesizing, Reviewing, Units, Stages, Extracting
<1>11. AtNextStage'
    BY <1>1, <1>3, <1>4 DEF ResumeInv, AtNextStage, Working
<1>12. ItemInHand'
    BY <1>1, <1>2, <1>3, <1>4 DEF ItemInHand, At
<1>13. ToDoExact'
    <2>1. \A c \in run[e].todo \ {i} : rows'[<<Extracting, c>>] = 0
        <3>1. \A c \in run[e].todo \ {i} : <<Extracting, c>> \in Units /\ <<Extracting, c>> # u
            BY DEF TypeOK, Run, Units, Extracting, Stages
        <3> QED BY <1>1, <1>5, <3>1 DEF ResumeInv, ToDoExact, Working
    <2>2. \A c \in Cases \ run[e].todo : Settled(<<Extracting, c>>)'
        <3>1. \A c \in Cases \ run[e].todo : <<Extracting, c>> \in Units /\ <<Extracting, c>> # u
            BY <1>2, ItemNumbers DEF Units, Extracting, Stages
        <3> QED BY <1>1, <1>5, <3>1 DEF ResumeInv, ToDoExact, Working, Settled
    <2> QED BY <1>3, <1>4, <2>1, <2>2
            DEF ToDoExact, Extracting, Synthesizing, Reviewing, AnswerStages
<1> QED BY <1>7, <1>8, <1>9, <1>10, <1>11, <1>12, <1>13 DEF ResumeInv

LEMMA InvWriteWithMarker ==
    ASSUME TypeOK, ResumeInv, NEW e \in Executors, NEW n \in {0, 1}, WriteWithMarker(e, n)
    PROVE  ResumeInv'
<1> DEFINE i == run[e].item
           k == run[e].stage
           u == <<k, i>>
<1>1. /\ run[e].step = "called" /\ k \in Synthesizing \cup Reviewing /\ At(e) = u
      /\ rows' = [rows EXCEPT ![u] = @ + n]
      /\ marks' = [marks EXCEPT ![u] = @ + 1]
      /\ run' = [run EXCEPT ![e] = NextItem(@)]
    BY DEF WriteWithMarker, At
<1>2. /\ i # 0 /\ i \in run[e].todo /\ marks[u] = 0 /\ rows[u] = 0 /\ u \in Units
      /\ k \in Stages
    <2>1. k \in Stages /\ i \in Items \cup {0} /\ u \in Units
        BY DEF TypeOK, Run, Units
    <2>2. i # 0
        BY <1>1 DEF ResumeInv, ItemInHand
    <2>3. i \in run[e].todo /\ marks[At(e)] = 0
        BY <2>2 DEF ResumeInv, ItemInHand
    <2>4. rows[u] = 0
        <3>1. ~(rows[u] > 0)
            BY <1>1, <2>1, <2>2, <2>3 DEF ResumeInv, RowsMarked
        <3> QED BY <2>1, <3>1 DEF TypeOK
    <2> QED BY <1>1, <2>1, <2>2, <2>3, <2>4
<1>3. \A f \in Executors : f = e
    BY SingleAssumption
<1>4. /\ run'[e].step = "items" /\ run'[e].stage = k /\ run'[e].item = 0
      /\ run'[e].todo = run[e].todo \ {i}
    BY <1>1 DEF TypeOK, Run, NextItem
<1>5. \A v \in Units : v # u => rows'[v] = rows[v] /\ marks'[v] = marks[v]
    BY <1>1 DEF TypeOK
<1>6. rows'[u] \in {0, 1} /\ marks'[u] = 1
    BY <1>1, <1>2 DEF TypeOK
<1>7. \A j \in Stages : <<j, 0>> \in Units /\ <<j, 0>> # u
    BY <1>2 DEF Units
<1>8. Clusters' = Clusters
    <2>1. \A c \in Cases : <<Extracting, c>> \in Units /\ <<Extracting, c>> # u
        BY <1>1, ItemNumbers DEF Units, Extracting, Stages, Synthesizing, Reviewing
    <2> QED BY <1>5, <2>1 DEF Clusters, HasRules
<1>9. AnswersOnce' /\ MarksOnce'
    BY <1>2, <1>5, <1>6 DEF ResumeInv, AnswersOnce, MarksOnce
<1>10. MarkedInOrder'
    BY <1>5, <1>7 DEF ResumeInv, MarkedInOrder
<1>11. RowsMarked'
    BY <1>5, <1>6 DEF ResumeInv, RowsMarked, Synthesizing, Reviewing, Units, Stages
<1>12. ASSUME NEW j \in Stages, marks'[<<j, 0>>] > 0 PROVE j < k
    <2>1. marks[<<j, 0>>] > 0
        BY <1>5, <1>7, <1>12
    <2>2. run[e].step \in Working
        BY <1>1 DEF Working
    <2>3. ~(j >= k)
        BY <2>1, <2>2, LaterUnmarked
    <2> QED BY <1>2, <2>3 DEF Stages
<1>13. MarkedMeansComplete'
    <2>1. SUFFICES ASSUME NEW j \in Stages, marks'[<<j, 0>>] > 0
                   PROVE  MarkedMeansComplete!(j)!2'
        BY DEF MarkedMeansComplete
    <2>2. j < k /\ marks[<<j, 0>>] > 0 /\ rows'[<<j, 0>>] = rows[<<j, 0>>]
        BY <1>5, <1>7, <1>12, <2>1
    <2>3. \A c \in Items : /\ marks'[<<j, c>>] = marks[<<j, c>>]
                           /\ rows'[<<j, c>>] = rows[<<j, c>>]
        BY <1>5, <2>2 DEF Units, Stages
    <2>4. j \in Reviewing =>
              \A c \in Items : rows'[<<j - 2, c>>] = rows[<<j - 2, c>>]
        BY <1>2, <1>5, <2>2 DEF Units, Stages, Reviewing
    <2> QED BY <1>8, <2>2, <2>3, <2>4, ItemNumbers DEF ResumeInv, MarkedMeansComplete, Settled
<1>14. AtNextStage'
    BY <1>1, <1>3, <1>4, <1>5, <1>7, <1>2 DEF ResumeInv, AtNextStage, Working
<1>15. ItemInHand'
    BY <1>3, <1>4 DEF ItemInHand
<1>16. ToDoExact'
    <2>1. k \notin {Extracting} \cup Evaluating
        BY <1>1 DEF Extracting, Evaluating, Synthesizing, Reviewing
    <2>2. \A c \in Clusters : <<k, c>> \in Units
        BY <1>2, ItemNumbers DEF Units
    <2>3. k \in Reviewing => \A c \in Clusters : rows'[<<k - 2, c>>] = rows[<<k - 2, c>>]
        BY <1>2, <1>5, ItemNumbers DEF Units, Stages, Reviewing
    <2>4. k \in Synthesizing => \A c \in Clusters \ run'[e].todo : marks'[<<k, c>>] > 0
        BY <1>1, <1>4, <1>5, <1>6, <2>2 DEF ResumeInv, ToDoExact, Working
    <2>5. k \in Reviewing =>
              \A c \in Clusters \ run'[e].todo : rows'[<<k - 2, c>>] > 0 => marks'[<<k, c>>] > 0
        BY <1>1, <1>4, <1>5, <1>6, <2>2, <2>3 DEF ResumeInv, ToDoExact, Working
    <2> QED BY <1>1, <1>3, <1>4, <1>8, <2>1, <2>4, <2>5 DEF ToDoExact, AnswerStages
<1> QED BY <1>9, <1>10, <1>11, <1>13, <1>14, <1>15, <1>16 DEF ResumeInv

LEMMA InvUpsertCaseResult ==
    ASSUME TypeOK, ResumeInv, NEW e \in Executors, UpsertCaseResult(e)
    PROVE  ResumeInv'
<1> DEFINE i == run[e].item
           k == run[e].stage
           u == <<k, i>>
<1>1. /\ run[e].step = "called" /\ k \in Evaluating /\ At(e) = u
      /\ rows' = [rows EXCEPT ![u] = 1]
      /\ run' = [run EXCEPT ![e] = NextItem(@)]
      /\ UNCHANGED marks
    BY DEF UpsertCaseResult, At
<1>2. i # 0 /\ i \in Items /\ i \in run[e].todo /\ u \in Units /\ k \in Stages
    <2>1. i # 0
        BY <1>1 DEF ResumeInv, ItemInHand
    <2>2. i \in run[e].todo
        BY <2>1 DEF ResumeInv, ItemInHand
    <2> QED BY <2>1, <2>2 DEF TypeOK, Run, Units
<1>3. \A f \in Executors : f = e
    BY SingleAssumption
<1>4. /\ run'[e].step = "items" /\ run'[e].stage = k /\ run'[e].item = 0
      /\ run'[e].todo = run[e].todo \ {i}
    BY <1>1 DEF TypeOK, Run, NextItem
<1>5. /\ \A v \in Units : v # u => rows'[v] = rows[v]
      /\ rows'[u] = 1
    BY <1>1, <1>2 DEF TypeOK
<1>6. Clusters' = Clusters
    <2>1. \A c \in Cases : <<Extracting, c>> \in Units /\ <<Extracting, c>> # u
        BY <1>1, ItemNumbers DEF Units, Extracting, Stages, Evaluating
    <2> QED BY <1>5, <2>1 DEF Clusters, HasRules
<1>7. AnswersOnce' /\ MarksOnce' /\ MarkedInOrder'
    BY <1>1, <1>5 DEF ResumeInv, AnswersOnce, MarksOnce, MarkedInOrder
<1>8. RowsMarked'
    BY <1>1, <1>5 DEF ResumeInv, RowsMarked, Synthesizing, Reviewing, Evaluating, Units, Stages
<1>9. MarkedMeansComplete'
    <2>1. SUFFICES ASSUME NEW j \in Stages, marks'[<<j, 0>>] > 0
                   PROVE  MarkedMeansComplete!(j)!2'
        BY DEF MarkedMeansComplete
    <2>2. marks[<<j, 0>>] > 0
        BY <1>1, <2>1
    <2>3. j < k
        <3>1. ~(j >= k)
            BY <1>1, <2>2, LaterUnmarked DEF Working
        <3> QED BY <1>2, <3>1 DEF Stages
    <2>4. \A c \in Items \cup {0} : rows'[<<j, c>>] = rows[<<j, c>>]
        BY <1>5, <2>3 DEF Units, Stages
    <2>5. j \in Reviewing => \A c \in Items : rows'[<<j - 2, c>>] = rows[<<j - 2, c>>]
        BY <1>2, <1>5, <2>3 DEF Units, Stages, Reviewing
    <2> QED BY <1>1, <1>6, <2>2, <2>4, <2>5, ItemNumbers
            DEF ResumeInv, MarkedMeansComplete, Settled
<1>10. AtNextStage'
    BY <1>1, <1>3, <1>4 DEF ResumeInv, AtNextStage, Working
<1>11. ItemInHand'
    BY <1>3, <1>4 DEF ItemInHand
<1>12. ToDoExact'
    <2>1. k \notin Synthesizing \cup Reviewing
        BY <1>1 DEF Evaluating, Synthesizing, Reviewing
    <2>2. \A c \in run[e].todo \ {i} : rows'[<<k, c>>] = 0
        <3>1. \A c \in run[e].todo \ {i} : <<k, c>> \in Units /\ <<k, c>> # u
            BY <1>2 DEF TypeOK, Run, Units
        <3> QED BY <1>1, <1>5, <3>1 DEF ResumeInv, ToDoExact, Working
    <2>3. \A c \in Cases \ run'[e].todo : Settled(<<k, c>>)'
        <3>1. \A c \in Cases : <<k, c>> \in Units
            BY <1>2, ItemNumbers DEF Units
        <3> QED BY <1>1, <1>4, <1>5, <3>1 DEF ResumeInv, ToDoExact, Working, Settled
    <2> QED BY <1>1, <1>3, <1>4, <2>1, <2>2, <2>3 DEF ToDoExact
<1> QED BY <1>7, <1>8, <1>9, <1>10, <1>11, <1>12 DEF ResumeInv

\* Within a stage, past its items: only the step changes.
LEMMA InvGoto ==
    ASSUME TypeOK, ResumeInv, NEW e \in Executors, run[e].step \in Working,
           NEW step \in {"embedcases", "evalrun", "write", "markread", "markinsert"},
           Goto(e, step), UNCHANGED <<marks, rows>>,
           step = "embedcases" => run[e].item = 0 /\ run[e].stage = Baseline,
           run[e].item = 0 => run[e].todo = {},
           run[e].item # 0 => run[e].step = "markread" /\ step = "markinsert",
           run[e].item = 0 /\ step \in {"markread", "markinsert"}
              /\ run[e].stage \in {Validating} \cup Pruning \cup Compiling \cup Evaluating
              => rows[<<run[e].stage, 0>>] > 0
    PROVE  ResumeInv'
<1>1. TablesInv'
    BY TablesKept, ResumeInvParts
<1>2. \A f \in Executors : f = e
    BY SingleAssumption
<1>3. /\ run'[e].step = step /\ run'[e].stage = run[e].stage /\ run'[e].item = run[e].item
      /\ run'[e].todo = run[e].todo
    BY DEF Goto, TypeOK, Run
<1>4. AtNextStage'
    BY <1>2, <1>3 DEF ResumeInv, AtNextStage, Working
<1>5. ItemInHand'
    BY <1>2, <1>3 DEF ResumeInv, ItemInHand, At
<1>6. ToDoExact'
    <2>1. Clusters' = Clusters
        BY DEF Clusters, HasRules
    <2> QED BY <1>2, <1>3, <2>1 DEF ResumeInv, ToDoExact, Working, Settled
<1> QED BY <1>1, <1>4, <1>5, <1>6, ResumeInvParts, PTL DEF RunsInv

LEMMA InvEndItems ==
    ASSUME TypeOK, ResumeInv, NEW e \in Executors, EndItems(e)
    PROVE  ResumeInv'
<1>1. /\ run[e].step = "items" /\ run[e].todo = {} /\ UNCHANGED <<marks, rows>>
    BY DEF EndItems, tables
<1>2. run[e].item = 0
    BY <1>1 DEF ResumeInv, ItemInHand
<1>3. PICK step \in {"embedcases", "evalrun", "write", "markread"} :
          /\ Goto(e, step)
          /\ step = "embedcases" => run[e].stage = Baseline
          /\ step = "markread" => run[e].stage \in AnswerStages
    BY DEF EndItems
<1>4. step = "markread" =>
          run[e].stage \notin {Validating} \cup Pruning \cup Compiling \cup Evaluating
    BY <1>3 DEF AnswerStages, Extracting, Synthesizing, Reviewing, Validating, Pruning,
                Compiling, Evaluating
<1> QED BY <1>1, <1>2, <1>3, <1>4, InvGoto DEF Working

LEMMA InvEmbedCases ==
    ASSUME TypeOK, ResumeInv, NEW e \in Executors, EmbedCases(e)
    PROVE  ResumeInv'
<1>1. run[e].step = "embedcases" /\ UNCHANGED <<marks, rows>> /\ Goto(e, "evalrun")
    BY DEF EmbedCases, Embed, tables
<1>2. run[e].item = 0 /\ run[e].todo = {}
    <2>1. run[e].item = 0
        BY <1>1 DEF ResumeInv, ItemInHand
    <2> QED BY <1>1, <2>1 DEF ResumeInv, ItemInHand
<1> QED BY <1>1, <1>2, InvGoto DEF Working

LEMMA InvCheckEvalRun ==
    ASSUME TypeOK, ResumeInv, NEW e \in Executors, CheckEvalRun(e)
    PROVE  ResumeInv'
<1>1. run[e].step = "evalrun" /\ UNCHANGED <<marks, rows>>
    BY DEF CheckEvalRun, tables
<1>2. run[e].item = 0 /\ run[e].todo = {}
    BY <1>1 DEF ResumeInv, ItemInHand
<1>3. PICK step \in {"write", "markread"} :
          /\ Goto(e, step)
          /\ step = "markread" => rows[<<run[e].stage, 0>>] > 0
    BY <1>2 DEF CheckEvalRun, At
<1> QED BY <1>1, <1>2, <1>3, InvGoto DEF Working

LEMMA InvWriteArtifact ==
    ASSUME TypeOK, ResumeInv, NEW e \in Executors, WriteArtifact(e)
    PROVE  ResumeInv'
<1> DEFINE k == run[e].stage
           u == <<k, 0>>
<1>1. CASE Fail(e, "duplicate_key")
    BY <1>1, InvFail DEF Fail, tables
<1>2. CASE ~Fail(e, "duplicate_key")
    <2>1. /\ run[e].step = "write" /\ UNCHANGED marks
          /\ rows' = [rows EXCEPT ![At(e)] = Written(k)]
          /\ run' = [run EXCEPT ![e].step = "markread"]
        BY <1>2 DEF WriteArtifact, Goto
    <2>2. run[e].item = 0 /\ run[e].todo = {} /\ k \in Stages /\ u \in Units /\ At(e) = u
        BY <2>1 DEF ResumeInv, ItemInHand, TypeOK, Run, Units, At
    <2>3. \A f \in Executors : f = e
        BY SingleAssumption
    <2>4. /\ run'[e].step = "markread" /\ run'[e].stage = k /\ run'[e].item = 0
          /\ run'[e].todo = {}
        BY <2>1, <2>2 DEF TypeOK, Run
    <2>5. /\ \A v \in Units : v # u => rows'[v] = rows[v]
          /\ rows'[u] = Written(k)
        BY <2>1, <2>2 DEF TypeOK
    <2>6. k \in {Validating} \cup Pruning \cup Compiling \cup Evaluating => Written(k) > 0
        BY <2>2 DEF Written, Validating, Pruning, Compiling, Evaluating, Embedding,
                    Clustering, TypeOK
    <2>7. \A j \in Stages : \A c \in Items : rows'[<<j, c>>] = rows[<<j, c>>]
        BY <2>5, ItemNumbers DEF Units
    <2>8. Clusters' = Clusters
        BY <2>7, ItemNumbers DEF Clusters, HasRules, Extracting, Stages
    <2>9. AnswersOnce' /\ MarksOnce' /\ MarkedInOrder'
        BY <2>1, <2>5 DEF ResumeInv, AnswersOnce, MarksOnce, MarkedInOrder
    <2>10. RowsMarked'
        BY <2>1, <2>7 DEF ResumeInv, RowsMarked, Synthesizing, Reviewing, Stages
    <2>11. MarkedMeansComplete'
        <3>1. SUFFICES ASSUME NEW j \in Stages, marks'[<<j, 0>>] > 0
                       PROVE  MarkedMeansComplete!(j)!2'
            BY DEF MarkedMeansComplete
        <3>2. marks[<<j, 0>>] > 0 /\ j # k
            BY <2>1, <2>2, <3>1 DEF ResumeInv, AtNextStage, Working
        <3>3. rows'[<<j, 0>>] = rows[<<j, 0>>]
            BY <2>5, <3>2 DEF Units
        <3>4. j \in Reviewing => j - 2 \in Stages
            BY DEF Reviewing, Stages
        <3> QED BY <2>1, <2>7, <2>8, <3>2, <3>3, <3>4, ItemNumbers
                DEF ResumeInv, MarkedMeansComplete, Settled
    <2>12. AtNextStage'
        BY <2>1, <2>3, <2>4 DEF ResumeInv, AtNextStage, Working
    <2>13. ItemInHand'
        BY <2>3, <2>4, <2>5, <2>6 DEF ItemInHand
    <2>14. ToDoExact'
        <3>1. k \in Reviewing => k - 2 \in Stages
            BY DEF Reviewing, Stages
        <3> QED BY <2>1, <2>2, <2>3, <2>4, <2>7, <2>8, <3>1, ItemNumbers
                DEF ResumeInv, ToDoExact, Working, Settled
    <2> QED BY <2>9, <2>10, <2>11, <2>12, <2>13, <2>14 DEF ResumeInv
<1> QED BY <1>1, <1>2

LEMMA InvMarkRead ==
    ASSUME TypeOK, ResumeInv, NEW e \in Executors, MarkRead(e)
    PROVE  ResumeInv'
<1>1. CASE Fail(e, "multiple_markers")
    BY <1>1, InvFail DEF Fail, tables
<1>2. CASE ~Fail(e, "multiple_markers")
    <2>1. run[e].step = "markread" /\ UNCHANGED <<marks, rows>>
        BY <1>2 DEF MarkRead, tables
    <2>2. marks[At(e)] # 1
        <3>1. run[e].item # 0 => marks[At(e)] = 0
            BY DEF ResumeInv, ItemInHand
        <3>2. run[e].item = 0 => marks[At(e)] = 0
            BY <2>1 DEF ResumeInv, AtNextStage, Working, At
        <3> QED BY <3>1, <3>2
    <2>3. Goto(e, "markinsert")
        BY <1>2, <2>2 DEF MarkRead, Goto
    <2>4. run[e].item = 0 => run[e].todo = {}
        BY <2>1 DEF ResumeInv, ItemInHand
    <2>5. run[e].item = 0
              /\ run[e].stage \in {Validating} \cup Pruning \cup Compiling \cup Evaluating
              => rows[<<run[e].stage, 0>>] > 0
        BY <2>1 DEF ResumeInv, ItemInHand
    <2> QED BY <2>1, <2>3, <2>4, <2>5, InvGoto DEF Working
<1> QED BY <1>1, <1>2

LEMMA InvMarkStage ==
    ASSUME TypeOK, ResumeInv, NEW e \in Executors, MarkInsert(e), run[e].item = 0
    PROVE  ResumeInv'
<1> DEFINE k == run[e].stage
           u == <<k, 0>>
<1>1. /\ run[e].step = "markinsert" /\ UNCHANGED rows
      /\ marks' = [marks EXCEPT ![u] = @ + 1]
      /\ run' = [run EXCEPT ![e] = Advanced(@)]
    BY DEF MarkInsert, Marked, At
<1>2. run[e].todo = {} /\ k \in Stages /\ u \in Units /\ marks[u] = 0
    BY <1>1 DEF ResumeInv, ItemInHand, AtNextStage, Working, TypeOK, Run, Units
<1>3. /\ \A v \in Units : v # u => marks'[v] = marks[v]
      /\ marks'[u] = 1
    BY <1>1, <1>2 DEF TypeOK
<1>4. \A j \in Stages : \A c \in Items : marks'[<<j, c>>] = marks[<<j, c>>]
    BY <1>3, ItemNumbers DEF Units
<1>5. \A j \in Stages : j <= k => marks'[<<j, 0>>] > 0
    <2>1. \A j \in Stages : j < k => marks[<<j, 0>>] > 0
        BY <1>1 DEF ResumeInv, AtNextStage
    <2> QED BY <1>2, <1>3, <2>1 DEF Units, Stages
<1>6. AnswersOnce' /\ MarksOnce'
    BY <1>1, <1>3 DEF ResumeInv, AnswersOnce, MarksOnce
<1>7. MarkedInOrder'
    <2>1. SUFFICES ASSUME NEW i \in Stages, NEW j \in Stages, i < j, marks'[<<j, 0>>] > 0
                   PROVE  marks'[<<i, 0>>] > 0
        BY DEF MarkedInOrder
    <2>2. CASE j = k
        BY <1>5, <2>1, <2>2 DEF Stages
    <2>3. CASE j # k
        <3>1. marks[<<j, 0>>] > 0
            BY <1>3, <2>1, <2>3 DEF Units
        <3>2. marks[<<i, 0>>] > 0
            BY <2>1, <3>1 DEF ResumeInv, MarkedInOrder
        <3> QED BY <1>3, <3>2 DEF Units
    <2> QED BY <2>2, <2>3
<1>8. RowsMarked'
    BY <1>1, <1>4 DEF ResumeInv, RowsMarked, Synthesizing, Reviewing, Stages
<1>9. Clusters' = Clusters
    BY <1>1 DEF Clusters, HasRules
<1>10. MarkedMeansComplete'
    <2>1. SUFFICES ASSUME NEW j \in Stages, marks'[<<j, 0>>] > 0
                   PROVE  MarkedMeansComplete!(j)!2'
        BY DEF MarkedMeansComplete
    <2>2. CASE j = k
        <3>1. /\ k = Extracting \/ k \in Evaluating => \A c \in Cases : Settled(<<k, c>>)
              /\ k \in Synthesizing => \A i \in Clusters : marks[<<k, i>>] > 0
              /\ k \in Reviewing =>
                    \A i \in Clusters : rows[<<k - 2, i>>] > 0 => marks[<<k, i>>] > 0
            BY <1>1, <1>2 DEF ResumeInv, ToDoExact, Working
        <3>2. k \in {Validating} \cup Pruning \cup Compiling \cup Evaluating => rows[u] > 0
            BY <1>1 DEF ResumeInv, ItemInHand
        <3> QED BY <1>1, <1>2, <1>4, <1>9, <2>2, <3>1, <3>2, ItemNumbers DEF Settled
    <2>3. CASE j # k
        <3>1. marks[<<j, 0>>] > 0
            BY <1>3, <2>1, <2>3 DEF Units
        <3> QED BY <1>1, <1>4, <1>9, <3>1, ItemNumbers
                DEF ResumeInv, MarkedMeansComplete, Settled
    <2> QED BY <2>2, <2>3
<1>11. RunsInv'
    BY <1>1, <1>5, RunAdvances
<1> QED BY <1>6, <1>7, <1>8, <1>10, <1>11 DEF ResumeInv, RunsInv

LEMMA InvMarkItem ==
    ASSUME TypeOK, ResumeInv, NEW e \in Executors, MarkInsert(e), run[e].item # 0
    PROVE  ResumeInv'
<1> DEFINE i == run[e].item
           u == <<Extracting, i>>
<1>1. run[e].step = "markinsert" /\ UNCHANGED rows
    BY DEF MarkInsert
<1>2. run[e].stage = Extracting /\ i \in run[e].todo /\ marks[At(e)] = 0 /\ At(e) = u
    BY <1>1 DEF ResumeInv, ItemInHand, At
<1>3. i \in Items /\ u \in Units
    BY <1>2 DEF TypeOK, Run, Units, Extracting, Stages
<1>4. /\ marks' = [marks EXCEPT ![u] = @ + 1]
      /\ run' = [run EXCEPT ![e] = NextItem(@)]
    BY <1>2 DEF MarkInsert, Marked
<1>5. \A f \in Executors : f = e
    BY SingleAssumption
<1>6. /\ run'[e].step = "items" /\ run'[e].stage = Extracting /\ run'[e].item = 0
      /\ run'[e].todo = run[e].todo \ {i}
    BY <1>2, <1>4 DEF TypeOK, Run, NextItem
<1>7. /\ \A v \in Units : v # u => marks'[v] = marks[v]
      /\ marks'[u] = 1
    BY <1>2, <1>3, <1>4 DEF TypeOK
<1>8. \A j \in Stages : marks'[<<j, 0>>] = marks[<<j, 0>>]
    BY <1>3, <1>7, ItemNumbers DEF Units
<1>9. Clusters' = Clusters
    BY <1>1 DEF Clusters, HasRules
<1>10. AnswersOnce' /\ MarksOnce' /\ MarkedInOrder'
    BY <1>1, <1>7, <1>8 DEF ResumeInv, AnswersOnce, MarksOnce, MarkedInOrder
<1>11. \A v \in Units : marks[v] > 0 => marks'[v] > 0
    BY <1>3, <1>7
<1>12. RowsMarked'
    BY <1>1, <1>11 DEF ResumeInv, RowsMarked, Synthesizing, Reviewing, Stages, Units
<1>13. MarkedMeansComplete'
    <2>1. SUFFICES ASSUME NEW j \in Stages, marks'[<<j, 0>>] > 0
                   PROVE  MarkedMeansComplete!(j)!2'
        BY DEF MarkedMeansComplete
    <2>2. marks[<<j, 0>>] > 0
        BY <1>8, <2>1
    <2>3. \A c \in Items : marks[<<j, c>>] > 0 => marks'[<<j, c>>] > 0
        BY <1>11 DEF Units
    <2> QED BY <1>1, <1>9, <2>2, <2>3, ItemNumbers DEF ResumeInv, MarkedMeansComplete, Settled
<1>14. AtNextStage'
    BY <1>1, <1>2, <1>5, <1>6, <1>8 DEF ResumeInv, AtNextStage, Working, Stages, Extracting
<1>15. ItemInHand'
    BY <1>5, <1>6 DEF ItemInHand
<1>16. ToDoExact'
    <2>1. \A c \in run[e].todo \ {i} : rows'[<<Extracting, c>>] = 0
        BY <1>1, <1>2 DEF ResumeInv, ToDoExact, Working
    <2>2. \A c \in Cases \ run'[e].todo : Settled(<<Extracting, c>>)'
        <3>1. \A c \in Cases : <<Extracting, c>> \in Units
            BY ItemNumbers DEF Units, Extracting, Stages
        <3> QED BY <1>1, <1>2, <1>6, <1>7, <1>11, <3>1 DEF ResumeInv, ToDoExact, Working, Settled
    <2> QED BY <1>5, <1>6, <2>1, <2>2
            DEF ToDoExact, Extracting, Synthesizing, Reviewing, AnswerStages
<1> QED BY <1>10, <1>12, <1>13, <1>14, <1>15, <1>16 DEF ResumeInv

\* Every step preserves the invariant.
LEMMA InvStep == TypeOK /\ ResumeInv /\ [Next]_vars => ResumeInv'
<1> SUFFICES ASSUME TypeOK, ResumeInv, [Next]_vars PROVE ResumeInv'
    OBVIOUS
<1>1. ASSUME NEW e \in Executors, Interrupt(e) PROVE ResumeInv'
    BY <1>1, InvFail DEF Interrupt, tables
<1>2. ASSUME NEW e \in Executors, Step(e) PROVE ResumeInv'
    BY <1>2, InvBegin, InvEmbedRules, InvEmbedCases, InvCheckStage, InvSkipItem, InvCallItem, InvWriteMicroRules,
       InvWriteWithMarker, InvUpsertCaseResult, InvEndItems, InvCheckEvalRun,
       InvWriteArtifact, InvMarkRead, InvMarkStage, InvMarkItem DEF Step
<1>3. CASE UNCHANGED vars
    <2>1. UNCHANGED <<marks, rows, run>>
        BY <1>3 DEF vars
    <2>2. RunsInv'
        BY <2>1 DEF ResumeInv, RunsInv, AtNextStage, ItemInHand, ToDoExact, At, Settled, Clusters, HasRules
    <2>3. TablesInv'
        BY <2>1, TablesKept, ResumeInvParts
    <2> QED BY <2>2, <2>3, ResumeInvParts, PTL
<1> QED BY <1>1, <1>2, <1>3 DEF Next

\* Whatever is interrupted, what the tables hold is what the next run needs.
THEOREM ResumeInvariant == Spec => []ResumeInv
<1>1. Init => TypeOK /\ ResumeInv
    BY TypeInit, InvInit
<1>2. TypeOK /\ ResumeInv /\ [Next]_vars => (TypeOK /\ ResumeInv)'
    BY TypeStep, InvStep
<1> QED BY <1>1, <1>2, PTL DEF Spec

\* No answer is written twice, and no marked stage has left one out.
THEOREM AnswersWrittenOnce == Spec => [](AnswersOnce /\ MarkedMeansComplete)
<1>1. ResumeInv => AnswersOnce /\ MarkedMeansComplete
    BY DEF ResumeInv
<1> QED BY <1>1, ResumeInvariant, PTL

-----------------------------------------------------------------------------
(* Steps *)

\* An embedding pass is no call for an item.
LEMMA PassCalls ==
    ASSUME TypeOK, NEW e \in Executors, EmbedRules(e) \/ EmbedCases(e), run[e].item = 0
    PROVE  /\ UNCHANGED <<marks, rows, budget>>
           /\ \A u \in Units : u[2] > 0 => calls'[u] = calls[u]
           /\ \A k \in Stages : k # run[e].stage => calls'[<<k, 0>>] = calls[<<k, 0>>]
           /\ calls'[<<run[e].stage, 0>>] <= calls[<<run[e].stage, 0>>] + 1
<1>0. UNCHANGED <<marks, rows, budget>>
    BY DEF EmbedRules, EmbedCases, Embed, tables
<1>1. \/ calls' = calls
      \/ calls' = [calls EXCEPT ![At(e)] = IF @ > 1 + MaxInterruptions THEN @ ELSE @ + 1]
    BY DEF EmbedRules, EmbedCases, Embed, tables
<1>2. run[e].stage \in Stages /\ \A k \in Stages : <<k, 0>> \in Units
    BY DEF TypeOK, Run, Units
<1> QED BY <1>0, <1>1, <1>2 DEF At, TypeOK

\* Only CallItem calls a model for an item.
LEMMA CallsOnlyUnanswered ==
    TypeOK /\ ResumeInv /\ [Next]_vars =>
        \A u \in Units : u[2] > 0 /\ calls'[u] > calls[u] => ~Settled(u)
<1> SUFFICES ASSUME TypeOK, ResumeInv, [Next]_vars, NEW u \in Units, u[2] > 0,
                    calls'[u] > calls[u]
             PROVE  ~Settled(u)
    OBVIOUS
<1>1. calls' # calls
    BY DEF TypeOK
<1>0. ~(\E e \in Executors : EmbedRules(e) \/ EmbedCases(e))
    <2> SUFFICES ASSUME NEW e \in Executors, EmbedRules(e) \/ EmbedCases(e) PROVE FALSE
        OBVIOUS
    <2>1. run[e].item = 0 /\ UNCHANGED <<marks, rows, budget>>
        BY DEF EmbedRules, EmbedCases, Embed, tables, ResumeInv, ItemInHand
    <2>2. calls'[u] = calls[u] /\ calls[u] \in Nat
        BY <2>1, PassCalls DEF TypeOK
    <2> QED BY <2>2
<1>2. PICK e \in Executors, i \in Items : CallItem(e, i)
    BY <1>0, <1>1 DEF Next, Step, Begin, CheckStage, Fail, SkipItem, WriteMicroRules, WriteWithMarker,
                UpsertCaseResult, EndItems, CheckEvalRun, WriteArtifact, MarkRead, MarkInsert,
                Interrupt, tables, vars
<1>3. u = <<run[e].stage, i>>
    BY <1>2 DEF CallItem, Call, TypeOK
<1> QED BY <1>2, <1>3, CallsUnanswered

\* No run pays for an answer that an earlier run has committed.
THEOREM PaidOnce == Spec => NoPaidWorkRepeated
<1>1. TypeOK /\ ResumeInv /\ [Next]_vars
          => [\A u \in Units : u[2] > 0 /\ calls'[u] > calls[u] => ~Settled(u)]_vars
    BY CallsOnlyUnanswered
<1> QED BY <1>1, ResumeInvariant, ResumeTypeCorrect, PTL DEF Spec, NoPaidWorkRepeated

-----------------------------------------------------------------------------
(* The refinement *)

complete == {k \in Stages : marks[<<k, 0>>] > 0}
answered == {u \in Units : u[2] > 0 /\ Settled(u)}

\* A step that writes no row and no marker stutters in the chain.
LEMMA ChainStutter ==
    ASSUME UNCHANGED <<marks, rows>>
    PROVE  UNCHANGED <<complete, answered>>
BY DEF complete, answered, Settled

\* An item's first row or marker is an answer of the next stage.
LEMMA ChainAnswers ==
    ASSUME TypeOK, TypeOK', ResumeInv, NEW e \in Executors, run[e].step \in Working,
           NEW k \in Stages, k = run[e].stage, NEW i \in Items,
           \A v \in Units : v # <<k, i>> => marks'[v] = marks[v] /\ rows'[v] = rows[v],
           \A v \in Units : Settled(v) => Settled(v)'
    PROVE  [Chain!Next]_<<complete, answered>>
<1> DEFINE u == <<k, i>>
<1>1. u \in Units /\ u[1] = k /\ u[2] = i /\ i > 0
    BY ItemNumbers DEF TypeOK, Run, Units
<1>2. \A j \in Stages : marks'[<<j, 0>>] = marks[<<j, 0>>]
    BY ItemNumbers DEF Units
<1>3. complete' = complete
    BY <1>2 DEF complete
<1>4. Chain!IsNext(k)
    <2>1. marks[<<k, 0>>] = 0 /\ \A j \in Stages : j < k => marks[<<j, 0>>] > 0
        BY DEF ResumeInv, AtNextStage, Working
    <2> QED BY <1>1, <2>1 DEF Chain!IsNext, complete
<1>5. \A v \in Units : v # u => (Settled(v)' <=> Settled(v))
    BY DEF Settled
<1>6. CASE Settled(u)' /\ ~Settled(u)
    <2>1. u \notin answered /\ answered' = answered \cup {u}
        <3>1. u \in answered' /\ u \notin answered
            BY <1>1, <1>6 DEF answered
        <3>2. \A v : v # u => (v \in answered' <=> v \in answered)
            BY <1>5 DEF answered
        <3> QED BY <3>1, <3>2
    <2>2. Chain!Answer(k, i)
        BY <1>3, <1>4, <2>1 DEF Chain!Answer, complete, answered
    <2> QED BY <1>1, <2>2 DEF Chain!Next
<1>7. CASE ~(Settled(u)' /\ ~Settled(u))
    <2>1. answered' = answered
        <3>1. u \in answered' <=> u \in answered
            BY <1>1, <1>7 DEF answered
        <3>2. \A v : v # u => (v \in answered' <=> v \in answered)
            BY <1>5 DEF answered
        <3>3. answered' \subseteq Units /\ answered \subseteq Units
            BY DEF answered
        <3> QED BY <3>1, <3>2, <3>3
    <2> QED BY <1>3, <2>1
<1> QED BY <1>6, <1>7

\* A marker of a stage completes the next stage.
LEMMA ChainCompletes ==
    ASSUME TypeOK, ResumeInv, NEW e \in Executors, MarkInsert(e), run[e].item = 0
    PROVE  [Chain!Next]_<<complete, answered>>
<1>1. PICK k \in Stages : k = run[e].stage
    BY DEF TypeOK, Run
<1>2. /\ run[e].step = "markinsert" /\ UNCHANGED rows
      /\ marks' = [marks EXCEPT ![<<k, 0>>] = @ + 1]
    BY <1>1 DEF MarkInsert, At
<1>3. <<k, 0>> \in Units /\ marks[<<k, 0>>] = 0 /\ run[e].todo = {}
    BY <1>1, <1>2 DEF ResumeInv, ItemInHand, AtNextStage, Working, Units
<1>4. /\ \A v \in Units : v # <<k, 0>> => marks'[v] = marks[v]
      /\ marks'[<<k, 0>>] = 1
    BY <1>2, <1>3 DEF TypeOK
<1>5. answered' = answered
    <2>1. \A v \in Units : v[2] > 0 => v # <<k, 0>>
        OBVIOUS
    <2>2. \A v \in Units : v[2] > 0 => (Settled(v)' <=> Settled(v))
        BY <1>2, <1>4, <2>1 DEF Settled
    <2>3. \A v : v \in answered' <=> v \in answered
        BY <2>2 DEF answered
    <2> QED BY <2>3
<1>6. k \notin complete /\ complete' = complete \cup {k}
    <2>1. \A j \in Stages : j # k => marks'[<<j, 0>>] = marks[<<j, 0>>]
        BY <1>4 DEF Units
    <2> QED BY <1>3, <1>4, <2>1 DEF complete
<1>7. Chain!IsNext(k)
    <2>1. \A j \in Stages : j < k => marks[<<j, 0>>] > 0
        BY <1>1, <1>2 DEF ResumeInv, AtNextStage
    <2> QED BY <1>6, <2>1 DEF Chain!IsNext, complete
<1>8. k \in {Extracting} \cup Evaluating => \A c \in Cases : <<k, c>> \in answered
    <2>1. k \in {Extracting} \cup Evaluating => \A c \in Cases : Settled(<<k, c>>)
        BY <1>1, <1>2, <1>3 DEF ResumeInv, ToDoExact, Working
    <2> QED BY <2>1, ItemNumbers DEF answered, Units
<1>9. Chain!Complete(k)
    BY <1>5, <1>6, <1>7, <1>8 DEF Chain!Complete, complete, answered
<1> QED BY <1>9 DEF Chain!Next

LEMMA ChainStep ==
    TypeOK /\ TypeOK' /\ ResumeInv /\ [Next]_vars => [Chain!Next]_<<complete, answered>>
<1> SUFFICES ASSUME TypeOK, TypeOK', ResumeInv, [Next]_vars
             PROVE  [Chain!Next]_<<complete, answered>>
    OBVIOUS
<1>1. ASSUME NEW e \in Executors,
             \/ \E i \in Items : SkipItem(e, i) \/ CallItem(e, i)
             \/ Begin(e) \/ CheckStage(e) \/ EndItems(e) \/ CheckEvalRun(e) \/ MarkRead(e)
             \/ EmbedRules(e) \/ EmbedCases(e) \/ Interrupt(e)
      PROVE  [Chain!Next]_<<complete, answered>>
    <2>1. UNCHANGED <<marks, rows>>
        BY <1>1 DEF SkipItem, CallItem, Call, Begin, CheckStage, EndItems, CheckEvalRun, MarkRead,
                    EmbedRules, EmbedCases, Embed, Interrupt, Fail, tables
    <2> QED BY <2>1, ChainStutter
<1>2. ASSUME NEW e \in Executors, run[e].item # 0, run[e].step \in Working,
             \A v \in Units : v # At(e) => marks'[v] = marks[v] /\ rows'[v] = rows[v],
             \A v \in Units : marks'[v] >= marks[v] /\ rows'[v] >= rows[v]
      PROVE  [Chain!Next]_<<complete, answered>>
    <2>1. PICK k \in Stages, i \in Items : k = run[e].stage /\ i = run[e].item
        BY <1>2 DEF TypeOK, Run
    <2>2. \A v \in Units : Settled(v) => Settled(v)'
        BY <1>2 DEF Settled, TypeOK
    <2>3. \A v \in Units : v # <<k, i>> => marks'[v] = marks[v] /\ rows'[v] = rows[v]
        BY <1>2, <2>1 DEF At
    <2> QED BY <1>2, <2>1, <2>2, <2>3, ChainAnswers
<1>3. ASSUME NEW e \in Executors PROVE At(e) \in Units
    BY DEF TypeOK, At, Run, Units
<1>4. ASSUME NEW e \in Executors, run[e].step = "called"
      PROVE  run[e].item # 0 /\ rows[At(e)] = 0 /\ run[e].step \in Working
    <2>1. run[e].item # 0
        BY <1>4 DEF ResumeInv, ItemInHand
    <2>2. rows[At(e)] = 0
        BY <1>4, <2>1 DEF ResumeInv, ItemInHand
    <2> QED BY <1>4, <2>1, <2>2 DEF Working
<1>5. ASSUME NEW e \in Executors, NEW n \in {0, 1}, WriteMicroRules(e, n) \/ WriteWithMarker(e, n)
      PROVE  [Chain!Next]_<<complete, answered>>
    <2>1. run[e].item # 0 /\ run[e].step \in Working
        BY <1>4, <1>5 DEF WriteMicroRules, WriteWithMarker
    <2>2. n \in Nat /\ rows' = [rows EXCEPT ![At(e)] = @ + n]
        BY <1>5 DEF WriteMicroRules, WriteWithMarker
    <2>3. marks' = marks \/ marks' = [marks EXCEPT ![At(e)] = @ + 1]
        BY <1>5 DEF WriteMicroRules, WriteWithMarker
    <2>4. \A v \in Units : v # At(e) => marks'[v] = marks[v] /\ rows'[v] = rows[v]
        BY <2>2, <2>3 DEF TypeOK
    <2>5. \A v \in Units : rows'[v] >= rows[v]
        BY <2>2, <1>3 DEF TypeOK
    <2>6. \A v \in Units : marks'[v] >= marks[v]
        BY <2>3, <1>3 DEF TypeOK
    <2> QED BY <1>2, <2>1, <2>4, <2>5, <2>6
<1>6. ASSUME NEW e \in Executors, UpsertCaseResult(e)
      PROVE  [Chain!Next]_<<complete, answered>>
    BY <1>2, <1>3, <1>4, <1>6 DEF UpsertCaseResult, TypeOK
<1>7. ASSUME NEW e \in Executors, WriteArtifact(e)
      PROVE  [Chain!Next]_<<complete, answered>>
    <2>1. CASE Fail(e, "duplicate_key")
        BY <2>1, ChainStutter DEF Fail, tables
    <2>2. CASE ~Fail(e, "duplicate_key")
        <3>1. /\ run[e].step = "write" /\ UNCHANGED marks
              /\ rows' = [rows EXCEPT ![At(e)] = Written(run[e].stage)]
            BY <1>7, <2>2 DEF WriteArtifact
        <3>2. run[e].item = 0
            BY <3>1 DEF ResumeInv, ItemInHand
        <3>3. \A v \in Units : v[2] > 0 => rows'[v] = rows[v]
            BY <3>1, <3>2 DEF TypeOK, At
        <3>4. complete' = complete
            BY <3>1 DEF complete
        <3>5. \A v : v \in answered' <=> v \in answered
            BY <3>1, <3>3 DEF answered, Settled
        <3> QED BY <3>4, <3>5
    <2> QED BY <2>1, <2>2
<1>8. ASSUME NEW e \in Executors, MarkInsert(e)
      PROVE  [Chain!Next]_<<complete, answered>>
    <2>1. CASE run[e].item = 0
        BY <1>8, <2>1, ChainCompletes
    <2>2. CASE run[e].item # 0
        BY <1>2, <1>3, <1>8, <2>2 DEF MarkInsert, Working, TypeOK
    <2> QED BY <2>1, <2>2
<1>9. CASE UNCHANGED vars
    BY <1>9, ChainStutter DEF vars
<1> QED BY <1>1, <1>5, <1>6, <1>7, <1>8, <1>9 DEF Next, Step

\* The pipeline with one executor at a time implements the chain of stages.
THEOREM PipelineImplementsChain == Spec => ImplementsChain
<1>1. Init => Chain!Init
    <2>1. SUFFICES ASSUME Init PROVE Chain!Init
        OBVIOUS
    <2>2. \A k \in Stages : <<k, 0>> \in Units
        BY DEF Units
    <2> QED BY <2>1, <2>2 DEF Init, Chain!Init, Settled
<1>2. TypeOK /\ TypeOK' /\ ResumeInv /\ [Next]_vars => [Chain!Next]_<<complete, answered>>
    BY ChainStep
<1>3. <<complete, answered>> = <<{k \in Stages : marks[<<k, 0>>] > 0},
                                 {u \in Units : u[2] > 0 /\ Settled(u)}>>
    BY DEF complete, answered
<1> QED BY <1>1, <1>2, <1>3, ResumeInvariant, ResumeTypeCorrect, PTL
        DEF Spec, ImplementsChain, Chain!Spec, complete, answered

-----------------------------------------------------------------------------
(* Sums over a finite set *)

SumOf(f, S) == MapThenSumSet(LAMBDA x : f[x], S)

\* The next element of a set to be added.
Pick(s) == CHOOSE x \in s : TRUE

\* The sums of the subsets of S.
SumsTo(f, S, sum) ==
    sum = [s \in SUBSET S |-> IF s = {} THEN 0 ELSE f[Pick(s)] + sum[s \ {Pick(s)}]]

\* The subsets of S with at most n elements.
UpTo(n, S) == {s \in SUBSET S : Cardinality(s) <= n}

LEMMA LeastNumber ==
    ASSUME NEW T \in SUBSET Nat, T # {}
    PROVE  \E n \in T : \A m \in T : n <= m
<1> DEFINE R == OpToRel(<, Nat)
<1>1. IsWellFoundedOn(R, Nat)
  BY NatLessThanWellFounded
<1> HIDE DEF R
<1>2. \E n \in T : \A m \in T : <<m, n>> \notin R
  BY <1>1, WFMin
<1>3. \A m, n \in Nat : m < n => <<m, n>> \in R
  BY DEF R, OpToRel
<1>4. \A m, n \in T : n <= m \/ m < n
  OBVIOUS
<1> QED
  BY <1>2, <1>3, <1>4

\* A set without an element has one element less when its next element is added.
LEMMA OneLess ==
    ASSUME NEW S, IsFiniteSet(S), NEW n \in Nat, NEW s \in UpTo(n, S), s # {}
    PROVE  /\ Pick(s) \in s /\ n > 0 /\ s \ {Pick(s)} \in UpTo(n - 1, S)
<1>1. Pick(s) \in s
  BY DEF Pick
<1>2. IsFiniteSet(s)
  BY FS_Subset DEF UpTo
<1>3. /\ IsFiniteSet(s \ {Pick(s)})
      /\ Cardinality(s \ {Pick(s)}) = Cardinality(s) - 1
  BY <1>1, <1>2, FS_RemoveElement
<1>4. Cardinality(s \ {Pick(s)}) \in Nat /\ Cardinality(s) \in Nat
  BY <1>2, <1>3, FS_CardinalityType
<1> QED
  BY <1>1, <1>3, <1>4 DEF UpTo

\* Induction on the size of a subset of S, for a set of subsets that it holds for.
LEMMA SubsetInduction ==
    ASSUME NEW S, IsFiniteSet(S), NEW Good,
           \A s \in SUBSET S : s = {} \/ s \ {Pick(s)} \in Good => s \in Good
    PROVE  SUBSET S \subseteq Good
<1> DEFINE Bad == {n \in Nat : \E s \in UpTo(n, S) : s \notin Good}
<1>1. Bad = {}
  <2> SUFFICES ASSUME Bad # {} PROVE FALSE
    OBVIOUS
  <2>1. PICK n \in Bad : \A m \in Bad : n <= m
    BY LeastNumber
  <2>2. PICK s \in UpTo(n, S) : s \notin Good
    BY <2>1
  <2>3. s \in SUBSET S /\ s # {}
    BY <2>2 DEF UpTo
  <2>4. n - 1 \in Nat /\ s \ {Pick(s)} \in UpTo(n - 1, S)
    BY <2>1, <2>2, <2>3, OneLess
  <2>5. n - 1 \notin Bad
    BY <2>1, <2>4
  <2>6. s \ {Pick(s)} \in Good
    BY <2>4, <2>5
  <2> QED
    BY <2>2, <2>3, <2>6
<1>2. ASSUME NEW s \in SUBSET S PROVE s \in Good
  <2>1. Cardinality(s) \in Nat /\ s \in UpTo(Cardinality(s), S)
    BY FS_Subset, FS_CardinalityType DEF UpTo
  <2> QED
    BY <1>1, <2>1
<1> QED
  BY <1>2

\* The sums of the subsets exist, as those of the subsets of a given size do.
LEMMA SumsExist ==
    ASSUME NEW S, IsFiniteSet(S), NEW f
    PROVE  \E sum : SumsTo(f, S, sum)
<1> DEFINE Rule(sum, s) == IF s = {} THEN 0 ELSE f[Pick(s)] + sum[s \ {Pick(s)}]
           Partial(n, sum) == sum = [s \in UpTo(n, S) |-> Rule(sum, s)]
           Bad == {n \in Nat : ~(\E sum : Partial(n, sum))}
<1>1. ASSUME NEW s \in UpTo(0, S) PROVE s = {}
  <2>1. s # {} => 0 > 0
    BY OneLess
  <2> QED
    BY <2>1
<1>2. 0 \notin Bad
  <2>1. Partial(0, [s \in UpTo(0, S) |-> 0])
    BY <1>1
  <2> QED
    BY <2>1
<1>3. ASSUME NEW n \in Nat, n > 0, n - 1 \notin Bad PROVE n \notin Bad
  <2>1. PICK g : Partial(n - 1, g)
    BY <1>3
  <2> DEFINE h == [s \in UpTo(n, S) |-> Rule(g, s)]
  <2>2. ASSUME NEW s \in UpTo(n, S) PROVE Rule(g, s) = Rule(h, s)
    <3>1. CASE s = {}
      BY <3>1
    <3>2. CASE s # {}
      <4> DEFINE t == s \ {Pick(s)}
      <4>1. t \in UpTo(n - 1, S) /\ t \in UpTo(n, S)
        <5>1. t \in UpTo(n - 1, S)
          BY <3>2, OneLess
        <5>2. Cardinality(t) \in Nat
          BY FS_Subset, FS_CardinalityType DEF UpTo
        <5> QED
          BY <5>1, <5>2 DEF UpTo
      <4> HIDE DEF t, Rule
      <4>2. g[t] = Rule(g, t) /\ h[t] = Rule(g, t)
        BY <2>1, <4>1
      <4> QED
        BY <3>2, <4>2 DEF Rule, t
    <3> QED
      BY <3>1, <3>2
  <2>3. Partial(n, h)
    <3> HIDE DEF Rule
    <3> QED
      BY <2>2
  <2> QED
    BY <2>3
<1> HIDE DEF Partial
<1>4. Bad = {}
  <2> SUFFICES ASSUME Bad # {} PROVE FALSE
    OBVIOUS
  <2>1. PICK n \in Bad : \A m \in Bad : n <= m
    BY LeastNumber
  <2>2. n \in Nat /\ n # 0 /\ n - 1 \in Nat
    BY <1>2, <2>1
  <2> QED
    BY <1>3, <2>1, <2>2
<1>5. Cardinality(S) \in Nat /\ UpTo(Cardinality(S), S) = SUBSET S
  BY FS_Subset, FS_CardinalityType DEF UpTo
<1>6. PICK sum : Partial(Cardinality(S), sum)
  BY <1>4, <1>5
<1> QED
  BY <1>5, <1>6 DEF SumsTo, Partial

\* sum gives the sums of the subsets of S.
Sums(f, S, sum) ==
    \A s \in SUBSET S : sum[s] = IF s = {} THEN 0 ELSE f[Pick(s)] + sum[s \ {Pick(s)}]

LEMMA SumIsLast ==
    ASSUME NEW S, IsFiniteSet(S), NEW f
    PROVE  \E sum : Sums(f, S, sum) /\ SumOf(f, S) = sum[S]
<1> DEFINE sum == CHOOSE g : SumsTo(f, S, g)
<1>1. SumsTo(f, S, sum)
  BY SumsExist
<1>2. SumOf(f, S) = sum[S]
  BY DEF SumOf, MapThenSumSet, MapThenFoldSet, SumsTo, Pick
<1> HIDE DEF sum
<1>3. Sums(f, S, sum)
  BY <1>1 DEF SumsTo, Sums
<1> QED
  BY <1>2, <1>3

\* A sum of numbers is a number, of zeros it is zero, and with one of them changed it
\* changes by as much.
LEMMA SumIsNat ==
    ASSUME NEW S, IsFiniteSet(S), NEW f, \A x \in S : f[x] \in Nat
    PROVE  SumOf(f, S) \in Nat
<1>1. PICK sum : Sums(f, S, sum) /\ SumOf(f, S) = sum[S]
  BY SumIsLast
<1> DEFINE Good == {s \in SUBSET S : sum[s] \in Nat}
<1>2. ASSUME NEW s \in SUBSET S, s = {} \/ s \ {Pick(s)} \in Good PROVE sum[s] \in Nat
  <2>1. s # {} => Pick(s) \in s
    BY DEF Pick
  <2>2. sum[s] = IF s = {} THEN 0 ELSE f[Pick(s)] + sum[s \ {Pick(s)}]
    BY <1>1 DEF Sums
  <2>3. s # {} => f[Pick(s)] \in Nat /\ sum[s \ {Pick(s)}] \in Nat
    BY <1>2, <2>1
  <2> QED
    BY <2>2, <2>3
<1>3. SUBSET S \subseteq Good
  <2> HIDE DEF Good
  <2>1. \A s \in SUBSET S : s = {} \/ s \ {Pick(s)} \in Good => s \in Good
    BY <1>2 DEF Good
  <2> QED
    BY <2>1, SubsetInduction
<1> QED
  BY <1>1, <1>3

LEMMA SumOfZeros ==
    ASSUME NEW S, IsFiniteSet(S), NEW f, \A x \in S : f[x] = 0
    PROVE  SumOf(f, S) = 0
<1>1. PICK sum : Sums(f, S, sum) /\ SumOf(f, S) = sum[S]
  BY SumIsLast
<1> DEFINE Good == {s \in SUBSET S : sum[s] = 0}
<1>2. ASSUME NEW s \in SUBSET S, s = {} \/ s \ {Pick(s)} \in Good PROVE sum[s] = 0
  <2>1. s # {} => Pick(s) \in s
    BY DEF Pick
  <2>2. sum[s] = IF s = {} THEN 0 ELSE f[Pick(s)] + sum[s \ {Pick(s)}]
    BY <1>1 DEF Sums
  <2>3. s # {} => f[Pick(s)] = 0 /\ sum[s \ {Pick(s)}] = 0
    BY <1>2, <2>1
  <2> QED
    BY <2>2, <2>3
<1>3. SUBSET S \subseteq Good
  <2> HIDE DEF Good
  <2>1. \A s \in SUBSET S : s = {} \/ s \ {Pick(s)} \in Good => s \in Good
    BY <1>2 DEF Good
  <2> QED
    BY <2>1, SubsetInduction
<1> QED
  BY <1>1, <1>3

LEMMA SumChanged ==
    ASSUME NEW S, IsFiniteSet(S), NEW f, \A x \in S : f[x] \in Nat,
           NEW u \in S, NEW g, g[u] = f[u] + 1, \A x \in S \ {u} : g[x] = f[x]
    PROVE  SumOf(g, S) = SumOf(f, S) + 1
<1>1. PICK a : Sums(f, S, a) /\ SumOf(f, S) = a[S]
  BY SumIsLast
<1>2. PICK b : Sums(g, S, b) /\ SumOf(g, S) = b[S]
  BY SumIsLast
<1> DEFINE Good == {s \in SUBSET S : /\ a[s] \in Nat
                                     /\ b[s] = IF u \in s THEN a[s] + 1 ELSE a[s]}
<1>3. ASSUME NEW s \in SUBSET S, s = {} \/ s \ {Pick(s)} \in Good PROVE s \in Good
  <2>1. /\ a[s] = IF s = {} THEN 0 ELSE f[Pick(s)] + a[s \ {Pick(s)}]
        /\ b[s] = IF s = {} THEN 0 ELSE g[Pick(s)] + b[s \ {Pick(s)}]
    BY <1>1, <1>2 DEF Sums
  <2>2. CASE s = {}
    BY <2>1, <2>2
  <2>3. CASE s # {}
    <3>1. Pick(s) \in s /\ s \ {Pick(s)} \in Good
      BY <1>3, <2>3 DEF Pick
    <3> DEFINE x == Pick(s)
               t == s \ {x}
    <3>2. /\ a[s] = f[x] + a[t] /\ b[s] = g[x] + b[t]
          /\ f[x] \in Nat /\ a[t] \in Nat
          /\ b[t] = IF u \in t THEN a[t] + 1 ELSE a[t]
      BY <2>1, <2>3, <3>1
    <3>3. (u \in s <=> u \in t \/ u = x) /\ (u \in t => u # x) /\ x \in S
      BY <3>1
    <3> HIDE DEF x, t
    <3>4. a[s] \in Nat /\ b[s] = IF u \in s THEN a[s] + 1 ELSE a[s]
      BY <3>2, <3>3
    <3> QED
      BY <3>4
  <2> QED
    BY <2>2, <2>3
<1>4. SUBSET S \subseteq Good
  <2> HIDE DEF Good
  <2> QED
    BY <1>3, SubsetInduction
<1> QED
  BY <1>1, <1>2, <1>4

\* A sum depends on the values in the set only.
LEMMA SumSame ==
    ASSUME NEW S, IsFiniteSet(S), NEW f, NEW g, \A x \in S : f[x] \in Nat,
           \A x \in S : g[x] = f[x], NEW u \in S
    PROVE  SumOf(g, S) = SumOf(f, S)
<1>1. PICK h : h = [x \in S |-> IF x = u THEN f[x] + 1 ELSE f[x]]
  OBVIOUS
<1>2. h[u] = f[u] + 1 /\ h[u] = g[u] + 1
  BY <1>1
<1>3. \A x \in S \ {u} : h[x] = f[x] /\ h[x] = g[x]
  BY <1>1
<1>4. \A x \in S : g[x] \in Nat
  OBVIOUS
<1>5. SumOf(h, S) = SumOf(f, S) + 1
  BY <1>2, <1>3, SumChanged
<1>6. SumOf(h, S) = SumOf(g, S) + 1
  BY <1>2, <1>3, <1>4, SumChanged
<1>7. SumOf(f, S) \in Nat /\ SumOf(g, S) \in Nat
  BY <1>4, SumIsNat
<1> QED
  BY <1>5, <1>6, <1>7

-----------------------------------------------------------------------------
(* What the calls have bought *)

ItemUnits == {u \in Units : u[2] > 0}
AnsweredItems == {u \in ItemUnits : Settled(u)}
InFlight == {e \in Executors : run[e].item # 0 /\ ~Settled(At(e))}
CallsMade == SumOf(calls, ItemUnits)

\* Every call for an item has its answer in the database, is in flight, or was lost with a run.
Balanced ==
    CallsMade <= Cardinality(AnsweredItems) + Cardinality(InFlight) + MaxInterruptions - budget

\* The steps of the baseline stage that follow its embedding pass.
AfterPass == {"evalrun", "write", "markread", "markinsert", "done"}

\* A run is past the embedding pass of stage k.
Passed(e, k) ==
    /\ run[e].step # "off" /\ run[e].stage >= k
    /\ run[e].stage = k =>
          IF k = Embedding THEN run[e].step # "embedrules" ELSE run[e].step \in AfterPass

\* An embedding pass belongs to the run under way or to one that was interrupted.
PassesBounded ==
    \A k \in Stages :
        /\ k \notin {Embedding, Baseline} => calls[<<k, 0>>] = 0
        /\ calls[<<k, 0>>] <= 1 + MaxInterruptions - budget
        /\ k \in {Embedding, Baseline} => \A e \in Executors :
              ~Passed(e, k) => calls[<<k, 0>>] <= MaxInterruptions - budget

LEMMA BalancedMeansLost == Balanced /\ PassesBounded => LostPerInterruption
<1> SUFFICES ASSUME Balanced, PassesBounded PROVE LostPerInterruption
    OBVIOUS
<1>1. \A k \in Stages : calls[<<k, 0>>] <= 1 + (MaxInterruptions - budget)
    BY DEF PassesBounded
<1> QED BY <1>1 DEF Balanced, LostPerInterruption, ItemUnits, AnsweredItems, InFlight,
                CallsMade, SumOf

LEMMA FiniteUnits == IsFiniteSet(ItemUnits)
<1>1. IsFiniteSet(Stages) /\ IsFiniteSet(Items \cup {0})
    <2>1. \A n \in Nat : IsFiniteSet(1..n)
        BY FS_Interval
    <2>2. \E n \in Nat : Items = 1..n
        BY PipelineAssumption DEF Items
    <2> QED BY <2>1, <2>2, FS_AddElement DEF Stages
<1>2. IsFiniteSet(Units)
    BY <1>1, FS_Product DEF Units
<1> QED BY <1>2, FS_Subset DEF ItemUnits

\* There is one executor: none of its items is in flight, or one is.
LEMMA OneInFlight ==
    ASSUME NEW e \in Executors, NEW S \in SUBSET Executors
    PROVE  IsFiniteSet(S) /\ Cardinality(S) = IF e \in S THEN 1 ELSE 0
<1>1. CASE e \in S
    <2>1. S = {e}
        BY <1>1, SingleAssumption
    <2> QED BY <2>1, FS_Singleton
<1>2. CASE e \notin S
    <2>1. S = {}
        BY <1>2, SingleAssumption
    <2> QED BY <2>1, FS_EmptySet
<1> QED BY <1>1, <1>2

\* The numbers of the ledger.
LEMMA LedgerNumbers ==
    ASSUME NEW e \in Executors, NEW f \in [Units -> Nat], NEW A \in SUBSET ItemUnits,
           NEW S \in SUBSET Executors
    PROVE  SumOf(f, ItemUnits) \in Nat /\ Cardinality(A) \in Nat /\ Cardinality(S) \in {0, 1}
<1>1. SumOf(f, ItemUnits) \in Nat
    BY FiniteUnits, SumIsNat DEF ItemUnits
<1>2. Cardinality(A) \in Nat
    BY FiniteUnits, FS_Subset, FS_CardinalityType
<1> QED BY <1>1, <1>2, OneInFlight

\* The ledger before and after a step.
LEMMA Ledger ==
    ASSUME TypeOK, TypeOK', NEW e \in Executors
    PROVE  /\ CallsMade \in Nat /\ CallsMade' \in Nat
           /\ Cardinality(AnsweredItems) \in Nat /\ Cardinality(AnsweredItems)' \in Nat
           /\ Cardinality(InFlight) = (IF e \in InFlight THEN 1 ELSE 0)
           /\ Cardinality(InFlight)' = (IF e \in InFlight' THEN 1 ELSE 0)
           /\ budget \in Nat /\ budget' \in Nat /\ MaxInterruptions \in Nat
<1>1. PICK A, B, S, T : A = AnsweredItems /\ B = AnsweredItems' /\ S = InFlight /\ T = InFlight'
    OBVIOUS
<1>2. PICK f, g \in [Units -> Nat] : f = calls /\ g = calls'
    BY DEF TypeOK
<1>3. A \subseteq ItemUnits /\ B \subseteq ItemUnits /\ S \subseteq Executors /\ T \subseteq Executors
    BY <1>1 DEF ItemUnits, AnsweredItems, InFlight
<1>4. /\ SumOf(f, ItemUnits) \in Nat /\ SumOf(g, ItemUnits) \in Nat
      /\ Cardinality(A) \in Nat /\ Cardinality(B) \in Nat
    BY <1>2, <1>3, LedgerNumbers
<1>5. /\ Cardinality(S) = (IF e \in S THEN 1 ELSE 0)
      /\ Cardinality(T) = (IF e \in T THEN 1 ELSE 0)
    BY <1>3, OneInFlight
<1> QED BY <1>1, <1>2, <1>4, <1>5, PipelineAssumption DEF CallsMade, TypeOK

LEMMA LedgerKept ==
    ASSUME TypeOK, TypeOK', Balanced, NEW e \in Executors,
           calls' = calls, budget' = budget, AnsweredItems' = AnsweredItems,
           e \in InFlight => e \in InFlight'
    PROVE  Balanced'
<1>1. CallsMade' = CallsMade /\ Cardinality(AnsweredItems)' = Cardinality(AnsweredItems)
    BY DEF CallsMade
<1> QED BY <1>1, Ledger DEF Balanced

LEMMA LedgerAnswered ==
    ASSUME TypeOK, TypeOK', Balanced, NEW e \in Executors, calls' = calls, budget' = budget,
           NEW u, u \notin AnsweredItems, AnsweredItems' = AnsweredItems \cup {u}
    PROVE  Balanced'
<1>1. CallsMade' = CallsMade
    BY DEF CallsMade
<1>2. IsFiniteSet(AnsweredItems)
    BY FiniteUnits, FS_Subset DEF ItemUnits, AnsweredItems
<1>3. Cardinality(AnsweredItems)' = Cardinality(AnsweredItems) + 1
    BY <1>2, FS_AddElement
<1> QED BY <1>1, <1>3, Ledger DEF Balanced

LEMMA LedgerInterrupted ==
    ASSUME TypeOK, TypeOK', Balanced, NEW e \in Executors, calls' = calls,
           budget' = budget - 1, AnsweredItems' = AnsweredItems
    PROVE  Balanced'
<1>1. CallsMade' = CallsMade /\ Cardinality(AnsweredItems)' = Cardinality(AnsweredItems)
    BY DEF CallsMade
<1> QED BY <1>1, Ledger DEF Balanced

LEMMA LedgerCalled ==
    ASSUME TypeOK, TypeOK', Balanced, NEW e \in Executors, NEW u \in ItemUnits,
           calls' = [calls EXCEPT ![u] = @ + 1], budget' = budget,
           AnsweredItems' = AnsweredItems, e \notin InFlight, e \in InFlight'
    PROVE  Balanced'
<1>1. PICK f, g : f = calls /\ g = calls'
    OBVIOUS
<1>2. SumOf(g, ItemUnits) = SumOf(f, ItemUnits) + 1
    <2>1. \A x \in ItemUnits : f[x] \in Nat
        BY <1>1 DEF TypeOK, ItemUnits
    <2>2. g[u] = f[u] + 1 /\ \A x \in ItemUnits \ {u} : g[x] = f[x]
        BY <1>1 DEF TypeOK, ItemUnits
    <2> QED BY <2>1, <2>2, FiniteUnits, SumChanged
<1>3. CallsMade' = CallsMade + 1 /\ Cardinality(AnsweredItems)' = Cardinality(AnsweredItems)
    BY <1>1, <1>2 DEF CallsMade
<1> QED BY <1>3, Ledger DEF Balanced

\* A step without an item in hand, before and after.
LEMMA LedgerIdle ==
    ASSUME TypeOK, TypeOK', Balanced, NEW e \in Executors, run[e].item = 0,
           calls' = calls, budget' = budget,
           \A u \in Units : u[2] > 0 => rows'[u] = rows[u] /\ marks'[u] = marks[u]
    PROVE  Balanced'
<1>1. AnsweredItems' = AnsweredItems
    BY DEF ItemUnits, AnsweredItems, Settled
<1>2. e \notin InFlight
    BY DEF InFlight
<1> QED BY <1>1, <1>2, LedgerKept

\* An embedding pass is not among the calls for items.
LEMMA LedgerPass ==
    ASSUME TypeOK, TypeOK', ResumeInv, Balanced, NEW e \in Executors,
           EmbedRules(e) \/ EmbedCases(e)
    PROVE  Balanced'
<1>1. run[e].item = 0
    BY DEF EmbedRules, EmbedCases, ResumeInv, ItemInHand
<1>2. UNCHANGED <<marks, rows, budget>> /\ \A u \in ItemUnits : calls'[u] = calls[u]
    BY <1>1, PassCalls DEF ItemUnits
<1>3. AnsweredItems' = AnsweredItems /\ e \notin InFlight
    BY <1>1, <1>2 DEF ItemUnits, AnsweredItems, InFlight, Settled
<1>4. CallsMade' = CallsMade
    <2>1. PICK f, g : f = calls /\ g = calls'
        OBVIOUS
    <2>2. \A u \in ItemUnits : f[u] \in Nat /\ g[u] = f[u]
        BY <1>2, <2>1 DEF TypeOK, ItemUnits
    <2>3. <<1, 1>> \in ItemUnits
        BY PipelineAssumption, ItemNumbers DEF ItemUnits, Units, Stages, Cases
    <2>4. SumOf(g, ItemUnits) = SumOf(f, ItemUnits)
        BY <2>2, <2>3, FiniteUnits, SumSame
    <2> QED BY <2>1, <2>4 DEF CallsMade
<1>5. Cardinality(AnsweredItems)' = Cardinality(AnsweredItems)
    BY <1>3
<1> QED BY <1>2, <1>3, <1>4, <1>5, Ledger DEF Balanced

\* The answer for the item in hand is committed.
LEMMA LedgerItem ==
    ASSUME TypeOK, TypeOK', Balanced, NEW e \in Executors, run[e].item # 0,
           calls' = calls, budget' = budget, ~Settled(At(e)),
           rows'[At(e)] > 0 \/ marks'[At(e)] > 0,
           \A u \in Units : u # At(e) => rows'[u] = rows[u] /\ marks'[u] = marks[u]
    PROVE  Balanced'
<1>1. PICK u : u = At(e)
    OBVIOUS
<1>2. u \in Units /\ u[2] > 0
    <2>1. run[e].stage \in Stages /\ run[e].item \in Items /\ run[e].item \in Nat
        BY ItemNumbers DEF TypeOK, Run
    <2> QED BY <1>1, <2>1 DEF At, Units
<1>3. u \notin AnsweredItems /\ AnsweredItems' = AnsweredItems \cup {u}
    BY <1>1, <1>2 DEF ItemUnits, AnsweredItems, Settled
<1> QED BY <1>3, LedgerAnswered

\* Every step keeps the ledger.
LEMMA LedgerStep ==
    ASSUME TypeOK, TypeOK', ResumeInv, ResumeInv', Balanced, [Next]_vars
    PROVE  Balanced'
<1>1. \A e \in Executors :
          /\ run[e].step \in {"off", "check", "items", "evalrun", "write"} => run[e].item = 0
          /\ run[e].item # 0 => At(e) \in Units /\ run[e].item > 0 /\ marks[At(e)] = 0
    <2>1. ASSUME NEW e \in Executors
          PROVE  /\ run[e].step \in {"off", "check", "items", "evalrun", "write"}
                        => run[e].item = 0
                 /\ run[e].item # 0 => marks[At(e)] = 0
        BY DEF ResumeInv, ItemInHand
    <2>2. ASSUME NEW e \in Executors, run[e].item # 0
          PROVE  At(e) \in Units /\ run[e].item > 0
        <3>1. run[e].stage \in Stages /\ run[e].item \in Items /\ run[e].item \in Nat
            BY <2>2, ItemNumbers DEF TypeOK, Run
        <3> QED BY <2>2, <3>1 DEF At, Units
    <2> QED BY <2>1, <2>2
<1>2. ASSUME NEW e \in Executors, Begin(e) \/ CheckStage(e) \/ EndItems(e) \/ CheckEvalRun(e)
      PROVE  Balanced'
    <2>1. UNCHANGED <<tables, budget>> /\ run[e].item = 0
        BY <1>1, <1>2 DEF Begin, CheckStage, EndItems, CheckEvalRun, Fail
    <2> QED BY <2>1, LedgerIdle DEF tables
<1>3. ASSUME NEW e \in Executors, NEW i \in Items, SkipItem(e, i) PROVE Balanced'
    <2>1. UNCHANGED <<tables, budget>> /\ run[e].item = 0
        BY <1>1, <1>3 DEF SkipItem, Fail
    <2> QED BY <2>1, LedgerIdle DEF tables
<1>4. ASSUME NEW e \in Executors, NEW i \in Items, CallItem(e, i) PROVE Balanced'
    <2> DEFINE u == <<run[e].stage, i>>
    <2>1. /\ UNCHANGED <<marks, rows, budget>> /\ run[e].item = 0
          /\ calls' = [calls EXCEPT ![u] = @ + 1]
          /\ run' = [run EXCEPT ![e].step = "called", ![e].item = i]
        BY <1>1, <1>4 DEF CallItem, Call
    <2>2. u \in Units /\ i # 0 /\ u \in ItemUnits
        BY ItemNumbers DEF TypeOK, Run, Units, ItemUnits
    <2>3. ~Settled(u)
        BY <1>4, CallsUnanswered
    <2>4. run'[e].item = i /\ run'[e].stage = run[e].stage
        BY <2>1 DEF TypeOK, Run
    <2>5. At(e)' = u /\ ~Settled(u)'
        BY <2>1, <2>3, <2>4 DEF At, Settled
    <2>6. e \notin InFlight /\ e \in InFlight'
        BY <2>1, <2>2, <2>4, <2>5 DEF InFlight, Settled
    <2>7. AnsweredItems' = AnsweredItems
        BY <2>1 DEF ItemUnits, AnsweredItems, Settled
    <2> QED BY <2>1, <2>2, <2>6, <2>7, LedgerCalled
<1>5. ASSUME NEW e \in Executors, NEW n \in {0, 1}, WriteMicroRules(e, n) PROVE Balanced'
    <2>1. /\ UNCHANGED <<marks, calls, budget>> /\ run[e].step = "called"
          /\ rows' = [rows EXCEPT ![At(e)] = @ + n]
          /\ run' = [run EXCEPT ![e].step = "markread"]
        BY <1>5 DEF WriteMicroRules, Goto
    <2>2. run[e].item # 0 /\ rows[At(e)] = 0 /\ marks[At(e)] = 0 /\ At(e) \in Units
        BY <1>1, <2>1 DEF ResumeInv, ItemInHand
    <2>3. CASE n = 1
        <3>1. rows'[At(e)] > 0
            BY <2>1, <2>2, <2>3 DEF TypeOK
        <3>2. \A v \in Units : v # At(e) => rows'[v] = rows[v] /\ marks'[v] = marks[v]
            BY <2>1 DEF TypeOK
        <3> QED BY <2>1, <2>2, <3>1, <3>2, LedgerItem DEF Settled
    <2>4. CASE n = 0
        <3>1. rows' = rows /\ marks' = marks
            BY <2>1, <2>4 DEF TypeOK
        <3>2. run'[e].item = run[e].item /\ run'[e].stage = run[e].stage
            BY <2>1 DEF TypeOK, Run
        <3>3. AnsweredItems' = AnsweredItems
            BY <3>1 DEF ItemUnits, AnsweredItems, Settled
        <3>4. e \in InFlight => e \in InFlight'
            BY <3>1, <3>2 DEF InFlight, At, Settled
        <3> QED BY <2>1, <3>3, <3>4, LedgerKept
    <2> QED BY <2>3, <2>4
<1>6. ASSUME NEW e \in Executors, NEW n \in {0, 1},
             WriteWithMarker(e, n) \/ UpsertCaseResult(e)
      PROVE  Balanced'
    <2>1. /\ UNCHANGED <<calls, budget>> /\ run[e].step = "called"
          /\ \/ rows' = [rows EXCEPT ![At(e)] = 1] /\ marks' = marks
             \/ /\ rows' = [rows EXCEPT ![At(e)] = @ + n]
                /\ marks' = [marks EXCEPT ![At(e)] = @ + 1]
        BY <1>6 DEF WriteWithMarker, UpsertCaseResult
    <2>2. run[e].item # 0 /\ rows[At(e)] = 0 /\ marks[At(e)] = 0 /\ At(e) \in Units
        BY <1>1, <2>1 DEF ResumeInv, ItemInHand
    <2>3. rows'[At(e)] > 0 \/ marks'[At(e)] > 0
        BY <2>1, <2>2 DEF TypeOK
    <2>4. \A v \in Units : v # At(e) => rows'[v] = rows[v] /\ marks'[v] = marks[v]
        BY <2>1 DEF TypeOK
    <2> QED BY <2>1, <2>2, <2>3, <2>4, LedgerItem DEF Settled
<1>7. ASSUME NEW e \in Executors, WriteArtifact(e) PROVE Balanced'
    <2>1. /\ UNCHANGED <<marks, calls, budget>> /\ run[e].item = 0
          /\ rows' = rows \/ rows' = [rows EXCEPT ![At(e)] = Written(run[e].stage)]
        BY <1>1, <1>7 DEF WriteArtifact, Fail, tables
    <2>2. \A v \in Units : v[2] > 0 => rows'[v] = rows[v] /\ marks'[v] = marks[v]
        BY <2>1 DEF TypeOK, At
    <2> QED BY <2>1, <2>2, LedgerIdle
<1>8. ASSUME NEW e \in Executors, MarkRead(e) PROVE Balanced'
    <2>1. UNCHANGED <<marks, rows, calls, budget>>
        BY <1>8 DEF MarkRead, Fail, tables
    <2>2. CASE run[e].item = 0
        BY <2>1, <2>2, LedgerIdle
    <2>3. CASE run[e].item # 0
        <3>1. marks[At(e)] = 0
            BY <1>1, <2>3
        <3>2. run' = [run EXCEPT ![e] = [@ EXCEPT !.step = "markinsert"]]
            BY <1>8, <3>1 DEF MarkRead
        <3>3. run'[e].item = run[e].item /\ run'[e].stage = run[e].stage
            BY <3>2 DEF TypeOK, Run
        <3>4. AnsweredItems' = AnsweredItems
            BY <2>1 DEF ItemUnits, AnsweredItems, Settled
        <3>5. e \in InFlight => e \in InFlight'
            BY <2>1, <3>3 DEF InFlight, At, Settled
        <3> QED BY <2>1, <3>4, <3>5, LedgerKept
    <2> QED BY <2>2, <2>3
<1>9. ASSUME NEW e \in Executors, MarkInsert(e) PROVE Balanced'
    <2>1. UNCHANGED <<rows, calls, budget>> /\ marks' = [marks EXCEPT ![At(e)] = @ + 1]
        BY <1>9 DEF MarkInsert
    <2>2. CASE run[e].item = 0
        <3>1. \A v \in Units : v[2] > 0 => rows'[v] = rows[v] /\ marks'[v] = marks[v]
            BY <2>1, <2>2 DEF TypeOK, At
        <3> QED BY <2>1, <2>2, <3>1, LedgerIdle
    <2>3. CASE run[e].item # 0
        <3>1. /\ marks[At(e)] = 0 /\ marks'[At(e)] > 0 /\ At(e) \in Units
              /\ \A v \in Units : v # At(e) => rows'[v] = rows[v] /\ marks'[v] = marks[v]
            BY <1>1, <2>1, <2>3 DEF TypeOK
        <3>2. CASE rows[At(e)] = 0
            BY <2>1, <2>3, <3>1, <3>2, LedgerItem DEF Settled
        <3>3. CASE rows[At(e)] # 0
            <4>1. Settled(At(e)) /\ e \notin InFlight
                BY <3>1, <3>3 DEF Settled, InFlight, TypeOK
            <4>2. \A v \in Units : Settled(v)' <=> Settled(v)
                BY <2>1, <3>1, <4>1 DEF Settled
            <4>3. AnsweredItems' = AnsweredItems
                BY <4>2 DEF ItemUnits, AnsweredItems
            <4> QED BY <2>1, <4>1, <4>3, LedgerKept
        <3> QED BY <3>2, <3>3
    <2> QED BY <2>2, <2>3
<1>10. ASSUME NEW e \in Executors, Interrupt(e) PROVE Balanced'
    <2>1. UNCHANGED tables /\ budget' = budget - 1
        BY <1>10 DEF Interrupt
    <2>2. AnsweredItems' = AnsweredItems
        BY <2>1 DEF ItemUnits, AnsweredItems, Settled, tables
    <2> QED BY <2>1, <2>2, LedgerInterrupted DEF tables
<1>11. CASE UNCHANGED vars
    BY <1>11 DEF vars, Balanced, CallsMade, AnsweredItems, InFlight, Settled, At
<1>12. ASSUME NEW e \in Executors, EmbedRules(e) \/ EmbedCases(e) PROVE Balanced'
    BY <1>12, LedgerPass
<1> QED BY <1>12, <1>2, <1>3, <1>4, <1>5, <1>6, <1>7, <1>8, <1>9, <1>10, <1>11 DEF Next, Step

-----------------------------------------------------------------------------
(* What the embedding passes have cost *)

\* A step that makes no pass, and takes no run back before one.
LEMMA PassesKept ==
    ASSUME TypeOK, PassesBounded, NEW e \in Executors, budget' = budget,
           \A k \in Stages : calls'[<<k, 0>>] = calls[<<k, 0>>],
           \A k \in {Embedding, Baseline} : Passed(e, k) => Passed(e, k)'
    PROVE  PassesBounded'
<1>1. \A f \in Executors : f = e
    BY SingleAssumption
<1>2. Embedding \in Stages /\ Baseline \in Stages
    BY DEF Embedding, Baseline, Stages
<1>3. \A k \in Stages : calls[<<k, 0>>] \in Nat
    BY DEF TypeOK, Units
<1> QED BY <1>1, <1>2, <1>3 DEF PassesBounded

\* A run that stays in its stage, and goes on.
LEMMA PassedStays ==
    ASSUME TypeOK, NEW e \in Executors,
           run'[e].stage = run[e].stage, run'[e].step \notin {"off", "embedrules"},
           run[e].stage = Baseline /\ run[e].step \in AfterPass => run'[e].step \in AfterPass
    PROVE  \A k \in {Embedding, Baseline} : Passed(e, k) => Passed(e, k)'
<1>1. Embedding # Baseline
    BY DEF Embedding, Baseline
<1> QED BY <1>1 DEF Passed

\* A run that is done with its stage.
LEMMA PassedAdvances ==
    ASSUME TypeOK, NEW e \in Executors, run'[e] = Advanced(run[e])
    PROVE  \A k \in {Embedding, Baseline} : Passed(e, k) => Passed(e, k)'
<1>1. run[e] \in Run /\ run[e].stage \in 1..15 /\ Embedding = 3 /\ Baseline = 13
    BY DEF TypeOK, Run, Stages, Embedding, Baseline
<1>2. CASE run[e].stage >= LastStage
    <2>1. run'[e].step = "done" /\ run'[e].stage = run[e].stage
        BY <1>1, <1>2 DEF Advanced, Run
    <2> QED BY <2>1, PassedStays DEF AfterPass
<1>3. CASE ~(run[e].stage >= LastStage)
    <2>1. run'[e].step = FirstStep(run[e].stage + 1) /\ run'[e].stage = run[e].stage + 1
        BY <1>1, <1>3 DEF Advanced, Run
    <2>2. run'[e].step # "off" /\ (run'[e].step = "embedrules" => run'[e].stage = 3)
        BY <1>1, <2>1 DEF FirstStep
    <2>3. ASSUME NEW k \in {3, 13}, Passed(e, k) PROVE Passed(e, k)'
        <3>1. run'[e].stage > k
            BY <1>1, <2>1, <2>3 DEF Passed
        <3> QED BY <1>1, <2>1, <2>2, <3>1 DEF Passed
    <2> QED BY <1>1, <2>3
<1> QED BY <1>2, <1>3

\* Every step keeps the bound on the passes.
LEMMA PassesStep ==
    ASSUME TypeOK, ResumeInv, PassesBounded, [Next]_vars
    PROVE  PassesBounded'
<1>1. ASSUME NEW e \in Executors
      PROVE  /\ run[e] \in Run /\ At(e) \in Units /\ marks[At(e)] <= 1
             /\ run[e].step \in {"embedrules", "embedcases"} => run[e].item = 0
             /\ run[e].step \in {"markread", "markinsert"} /\ run[e].item # 0
                   => run[e].stage = Extracting
             /\ \A k \in Stages : marks[<<k, 0>>] <= 1
             /\ \A i \in Items : marks[<<run[e].stage, i>>] <= 1
    <2>1. run[e] \in Run /\ At(e) \in Units /\ \A k \in Stages : <<k, 0>> \in Units
        BY DEF TypeOK, Run, At, Units
    <2>2. \A i \in Items : <<run[e].stage, i>> \in Units
        BY <2>1 DEF Run, Units
    <2>3. \A u \in Units : marks[u] <= 1
        BY DEF ResumeInv, MarksOnce
    <2>4. run[e].step \in {"embedrules", "embedcases"} => run[e].item = 0
        BY DEF ResumeInv, ItemInHand
    <2>5. run[e].step \in {"markread", "markinsert"} /\ run[e].item # 0
             => run[e].stage = Extracting
        BY DEF ResumeInv, ItemInHand
    <2> QED BY <2>1, <2>2, <2>3, <2>4, <2>5
<1>2. \A k \in Stages : calls[<<k, 0>>] \in Nat
    BY DEF TypeOK, Units
<1>3. ASSUME NEW e \in Executors, Begin(e) PROVE PassesBounded'
    <2>1. \A k \in {Embedding, Baseline} : ~Passed(e, k)
        BY <1>3 DEF Begin, Passed
    <2> QED BY <1>3, <2>1, PassesKept DEF Begin, tables
<1>4. ASSUME NEW e \in Executors, EmbedRules(e) \/ EmbedCases(e) PROVE PassesBounded'
    <2>0. PICK k \in Stages : k = run[e].stage
        BY <1>1 DEF Run
    <2>1. k \in {Embedding, Baseline} /\ k \in Stages /\ ~Passed(e, k) /\ run[e].item = 0
        <3>1. \/ run[e].step = "embedrules" /\ k = Embedding
              \/ run[e].step = "embedcases" /\ k = Baseline
            BY <1>4, <2>0 DEF EmbedRules, EmbedCases, ResumeInv, ItemInHand
        <3> QED BY <1>1, <2>0, <3>1
                DEF Passed, AfterPass, Embedding, Baseline, Stages
    <2>2. /\ \A j \in Stages : j # k => calls'[<<j, 0>>] = calls[<<j, 0>>]
          /\ calls'[<<k, 0>>] <= calls[<<k, 0>>] + 1 /\ budget' = budget
        BY <1>4, <2>0, <2>1, PassCalls
    <2>3. run'[e].stage = k /\ run'[e].step \in {"check", "evalrun"}
          /\ (run'[e].step = "check" <=> run[e].step = "embedrules")
        BY <1>1, <1>4, <2>0 DEF EmbedRules, EmbedCases, Embed, Goto, TypeOK, Run
    <2>4. \A j \in {Embedding, Baseline} : Passed(e, j) => Passed(e, j)'
        BY <1>4, <2>0, <2>3, PassedStays DEF AfterPass, EmbedRules, EmbedCases
    <2>5. Passed(e, k)'
        <3>1. \/ run[e].step = "embedrules" /\ k = Embedding
              \/ run[e].step = "embedcases" /\ k = Baseline
            BY <1>4, <2>0 DEF EmbedRules, EmbedCases, ResumeInv, ItemInHand
        <3> QED BY <2>1, <2>3, <3>1 DEF Passed, AfterPass, Embedding, Baseline, Stages
    <2>6. \A f \in Executors : f = e
        BY SingleAssumption
    <2>7. calls[<<k, 0>>] <= MaxInterruptions - budget
        BY <2>1 DEF PassesBounded
    <2>8. MaxInterruptions \in Nat /\ budget \in Nat /\ calls'[<<k, 0>>] <= 1 + MaxInterruptions - budget
        <3>1. MaxInterruptions \in Nat /\ budget \in Nat /\ calls[<<k, 0>>] \in Nat
            BY <1>2, <2>1, PipelineAssumption DEF TypeOK
        <3>2. calls'[<<k, 0>>] \in Nat
            BY <1>4, <2>0, <2>1, <3>1 DEF EmbedRules, EmbedCases, Embed, tables, TypeOK, At, Units
        <3> QED BY <2>2, <2>7, <3>1, <3>2
    <2>9. ASSUME NEW j \in Stages
          PROVE  /\ j \notin {Embedding, Baseline} => calls'[<<j, 0>>] = 0
                 /\ calls'[<<j, 0>>] <= 1 + MaxInterruptions - budget'
                 /\ j \in {Embedding, Baseline} => \A f \in Executors :
                       ~Passed(f, j)' => calls'[<<j, 0>>] <= MaxInterruptions - budget'
        <3>1. CASE j = k
            <4>1. \A f \in Executors : Passed(f, j)'
                BY <2>5, <2>6, <3>1
            <4> QED BY <2>1, <2>2, <2>8, <3>1, <4>1
        <3>2. CASE j # k
            BY <2>2, <2>4, <2>6, <3>2 DEF PassesBounded
        <3> QED BY <3>1, <3>2
    <2> QED BY <2>9 DEF PassesBounded
<1>5. ASSUME NEW e \in Executors, CheckStage(e) PROVE PassesBounded'
    <2>1. UNCHANGED <<calls, budget>>
        BY <1>5 DEF CheckStage, Fail, tables
    <2>2. ~Fail(e, "multiple_markers") \/ marks[<<run[e].stage, 0>>] <= 1
        BY <1>1 DEF Run
    <2>3. \/ run'[e] = Advanced(run[e])
          \/ run'[e].step = "items" /\ run'[e].stage = run[e].stage
        <3>1. marks[<<run[e].stage, 0>>] <= 1 /\ run[e].stage \in Stages
            BY <1>1 DEF Run
        <3>2. ~(marks[<<run[e].stage, 0>>] > 1)
            BY <3>1 DEF TypeOK, Units
        <3>3. run' = [run EXCEPT ![e] =
                  IF marks[<<run[e].stage, 0>>] = 1 THEN Skipped(@)
                  ELSE [@ EXCEPT !.step = "items", !.todo = ToDo(run[e].stage)]]
            BY <1>5, <3>2 DEF CheckStage
        <3>4. CASE marks[<<run[e].stage, 0>>] = 1
            <4>1. run' = [run EXCEPT ![e] = Advanced(@)]
                BY <3>3, <3>4 DEF Skipped
            <4>2. run'[e] = Advanced(run[e])
                BY <4>1 DEF TypeOK
            <4> QED BY <4>2
        <3>5. CASE marks[<<run[e].stage, 0>>] # 1
            <4>1. run' = [run EXCEPT ![e] = [@ EXCEPT !.step = "items", !.todo = ToDo(run[e].stage)]]
                BY <3>3, <3>5
            <4> QED BY <1>1, <4>1 DEF TypeOK, Run
        <3> QED BY <3>4, <3>5
    <2>4. run[e].step = "check"
        BY <1>5 DEF CheckStage
    <2> QED BY <2>1, <2>3, <2>4, PassedAdvances, PassedStays, PassesKept DEF AfterPass
<1>6. ASSUME NEW e \in Executors, NEW i \in Items, SkipItem(e, i) \/ CallItem(e, i)
      PROVE  PassesBounded'
    <2>0. ~(marks[<<run[e].stage, i>>] > 1)
        BY <1>1 DEF TypeOK, Run, Units
    <2>1. /\ run[e].step = "items" /\ budget' = budget
          /\ calls' = calls \/ calls' = [calls EXCEPT ![<<run[e].stage, i>>] = @ + 1]
          /\ run'[e].stage = run[e].stage /\ run'[e].step \in {"items", "called"}
        <3>1. CASE SkipItem(e, i)
            <4>1. /\ run[e].step = "items" /\ UNCHANGED <<calls, budget>>
                  /\ run' = [run EXCEPT ![e].todo = @ \ {i}]
                BY <2>0, <3>1 DEF SkipItem, tables
            <4> QED BY <1>1, <4>1 DEF TypeOK, Run
        <3>2. CASE CallItem(e, i)
            <4>1. /\ run[e].step = "items" /\ budget' = budget
                  /\ calls' = [calls EXCEPT ![<<run[e].stage, i>>] = @ + 1]
                  /\ run' = [run EXCEPT ![e] = [@ EXCEPT !.step = "called", !.item = i]]
                BY <3>2 DEF CallItem, Call
            <4> QED BY <1>1, <4>1 DEF TypeOK, Run
        <3> QED BY <1>6, <3>1, <3>2
    <2>2. \A k \in Stages : calls'[<<k, 0>>] = calls[<<k, 0>>]
        BY <2>1, ItemNumbers DEF TypeOK, Units
    <2> QED BY <2>1, <2>2, PassedStays, PassesKept DEF AfterPass
<1>7. ASSUME NEW e \in Executors, NEW n \in {0, 1},
             WriteMicroRules(e, n) \/ WriteWithMarker(e, n) \/ UpsertCaseResult(e)
      PROVE  PassesBounded'
    <2>1. /\ run[e].step = "called" /\ UNCHANGED <<calls, budget>>
          /\ run'[e].stage = run[e].stage /\ run'[e].step \in {"items", "markread"}
        <3>1. /\ run[e].step = "called" /\ UNCHANGED <<calls, budget>>
              /\ \/ run' = [run EXCEPT ![e].step = "markread"]
                 \/ run' = [run EXCEPT ![e] = NextItem(@)]
            BY <1>7 DEF WriteMicroRules, WriteWithMarker, UpsertCaseResult, Goto
        <3>2. CASE run' = [run EXCEPT ![e].step = "markread"]
            BY <1>1, <3>1, <3>2 DEF TypeOK, Run
        <3>3. CASE run' = [run EXCEPT ![e] = NextItem(@)]
            <4>1. run'[e] = [run[e] EXCEPT !.step = "items", !.todo = @ \ {run[e].item}, !.item = 0]
                BY <3>3 DEF NextItem, TypeOK
            <4> QED BY <1>1, <3>1, <4>1 DEF Run
        <3> QED BY <3>1, <3>2, <3>3
    <2> QED BY <2>1, PassedStays, PassesKept DEF AfterPass
<1>8. ASSUME NEW e \in Executors, EndItems(e) \/ CheckEvalRun(e) PROVE PassesBounded'
    <2>1. /\ UNCHANGED <<calls, budget>> /\ run'[e].stage = run[e].stage
          /\ \/ run[e].step = "items" /\ run'[e].step \in {"markread", "embedcases", "evalrun", "write"}
             \/ run[e].step = "evalrun" /\ run'[e].step \in {"markread", "write"}
        BY <1>1, <1>8 DEF EndItems, CheckEvalRun, Goto, tables, TypeOK, Run
    <2> QED BY <2>1, PassedStays, PassesKept DEF AfterPass
<1>9. ASSUME NEW e \in Executors, WriteArtifact(e) PROVE PassesBounded'
    <2>1. UNCHANGED <<calls, budget>> /\ run[e].step = "write"
        BY <1>9 DEF WriteArtifact, Fail, tables
    <2>2. CASE KeyExists(e)
        <3>1. \A k \in {Embedding, Baseline} : ~Passed(e, k)
            BY <1>1, <2>2 DEF KeyExists, Passed, Validating, Embedding, Baseline
        <3> QED BY <2>1, <3>1, PassesKept
    <2>3. CASE ~KeyExists(e)
        <3>1. run'[e].stage = run[e].stage /\ run'[e].step = "markread"
            BY <1>1, <1>9, <2>3 DEF WriteArtifact, Goto, TypeOK, Run
        <3> QED BY <2>1, <3>1, PassedStays, PassesKept DEF AfterPass
    <2> QED BY <2>2, <2>3
<1>10. ASSUME NEW e \in Executors, MarkRead(e) \/ MarkInsert(e) PROVE PassesBounded'
    <2>1. UNCHANGED <<calls, budget>> /\ run[e].step \in {"markread", "markinsert"}
        BY <1>10 DEF MarkRead, MarkInsert, Fail, tables
    <2>2. \/ run'[e] = Marked(run[e])
          \/ run'[e].stage = run[e].stage /\ run'[e].step = "markinsert"
        BY <1>1, <1>10 DEF MarkRead, MarkInsert, TypeOK, Run
    <2>3. CASE run'[e] = Marked(run[e]) /\ run[e].item = 0
        BY <2>1, <2>3, PassedAdvances, PassesKept DEF Marked
    <2>4. CASE run'[e] = Marked(run[e]) /\ run[e].item # 0
        <3>1. run'[e].stage = run[e].stage /\ run'[e].step = "items"
            BY <1>1, <2>4 DEF Marked, NextItem, Run
        <3>2. run[e].stage # Baseline
            BY <1>1, <2>1, <2>4 DEF Extracting, Baseline
        <3> QED BY <2>1, <3>1, <3>2, PassedStays, PassesKept
    <2>5. CASE run'[e].stage = run[e].stage /\ run'[e].step = "markinsert"
        BY <2>1, <2>5, PassedStays, PassesKept DEF AfterPass
    <2> QED BY <2>2, <2>3, <2>4, <2>5
<1>11. ASSUME NEW e \in Executors, Interrupt(e) PROVE PassesBounded'
    <2>1. calls' = calls /\ budget' = budget - 1 /\ budget \in Nat /\ MaxInterruptions \in Nat
        BY <1>11, PipelineAssumption DEF Interrupt, tables, TypeOK
    <2>2. ASSUME NEW k \in Stages
          PROVE  /\ k \notin {Embedding, Baseline} => calls'[<<k, 0>>] = 0
                 /\ calls'[<<k, 0>>] <= 1 + MaxInterruptions - budget'
                 /\ calls'[<<k, 0>>] <= MaxInterruptions - budget'
        <3>1. PICK n \in Nat : n = calls[<<k, 0>>] /\ n = calls'[<<k, 0>>]
            BY <1>2, <2>1
        <3>2. (k \notin {Embedding, Baseline} => n = 0) /\ n <= 1 + MaxInterruptions - budget
            BY <3>1 DEF PassesBounded
        <3> QED BY <2>1, <3>1, <3>2
    <2> QED BY <2>2 DEF PassesBounded
<1>12. CASE UNCHANGED vars
    BY <1>12 DEF vars, PassesBounded, Passed
<1> QED BY <1>3, <1>4, <1>5, <1>6, <1>7, <1>8, <1>9, <1>10, <1>11, <1>12 DEF Next, Step

\* An interruption costs at most the call in flight for an item and one more embedding of
\* the rules and of the cases: as many calls for items as are neither answered in the
\* database nor in flight, there were interruptions, and no embedding is made more often
\* than there were runs.
THEOREM LostWorkBounded == Spec => []LostPerInterruption
<1>1. Init => Balanced /\ PassesBounded
    <2> SUFFICES ASSUME Init PROVE Balanced /\ PassesBounded
        OBVIOUS
    <2>1. CallsMade = 0
        BY FiniteUnits, SumOfZeros DEF Init, CallsMade, ItemUnits
    <2>2. AnsweredItems = {} /\ InFlight = {}
        BY DEF Init, ItemUnits, AnsweredItems, InFlight, Settled, NoRun
    <2>3. budget = MaxInterruptions /\ MaxInterruptions \in Nat
        BY PipelineAssumption DEF Init
    <2>4. \A k \in Stages : calls[<<k, 0>>] = 0
        BY DEF Init, Units
    <2> QED BY <2>1, <2>2, <2>3, <2>4, FS_EmptySet DEF Balanced, PassesBounded
<1>2. TypeOK /\ TypeOK' /\ ResumeInv /\ ResumeInv' /\ Balanced /\ PassesBounded /\ [Next]_vars
          => (Balanced /\ PassesBounded)'
    BY LedgerStep, PassesStep
<1> QED BY <1>1, <1>2, BalancedMeansLost, ResumeInvariant, ResumeTypeCorrect, PTL DEF Spec

=============================================================================
