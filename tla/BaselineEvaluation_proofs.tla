--------------------- MODULE BaselineEvaluation_proofs ---------------------
(***************************************************************************)
(* What BaselineEvaluation's run shows for two cases, for any number of    *)
(* cases, strategies and interruptions.                                    *)
(***************************************************************************)
EXTENDS BaselineEvaluation, FiniteSetTheorems, TLAPS

USE DEF Elements

Complete(s) == \A c \in Cases : rows[s][c] # "none"

\* The memory of a run agrees with what it has committed.
JobMatchesRows ==
    /\ At("case") /\ Strategy \in Embedded =>
          /\ job.results \in Predictions
          /\ \A c \in Cases \ job.todo : rows[Strategy][c] = job.results[c]
    /\ At("case") /\ Strategy \notin Embedded => job.results = rows[Strategy] /\ job.todo = {}
    /\ At("persist") =>
          /\ Strategy \notin Embedded /\ job.todo = {}
          /\ job.case \in Cases /\ rows[Strategy][job.case] = "none"
          /\ job.results = [rows[Strategy] EXCEPT ![job.case] = job.results[job.case]]
          /\ job.results[job.case] # "none"
    /\ At("measure") \/ At("scaffold") => job.results = rows[Strategy] /\ Complete(Strategy)
    /\ At("scaffold") => Strategy = "baseline"
    /\ At("load") => job.todo = {}

\* Its counts are those of its results.
JobCounts ==
    job.at \in {"case", "persist", "measure"} /\ Strategy \notin Embedded =>
        /\ job.lookups = Count(job.results, Cases, "lost")
        /\ job.models = Count(job.results, Cases, "malformed")

\* The strategies before the current one have their rows of eval_runs.
JobProgress ==
    /\ ~At("off") => \A k \in 1..(job.i - 1) : runs[Order[k]] # NoMetric
    /\ ~At("off") /\ job.i > 1 => runs["scaffold"] # NoMetric
    /\ At("scaffold") \/ At("end") => runs[Strategy] # NoMetric
    /\ At("end") => job.i = Len(Order) /\ runs["scaffold"] # NoMetric

\* The inductive invariant.
BaselineInv ==
    /\ TypeOK /\ RunsMatchRows
    /\ JobMatchesRows /\ JobCounts /\ JobProgress

-----------------------------------------------------------------------------
(* Counts and metrics *)

ResultOrNone == Results \cup {"none"}

\* A count of cases is at most the number of cases.
LEMMA CountInSizes ==
    ASSUME NEW results, NEW S \in SUBSET Cases, NEW r
    PROVE  Count(results, S, r) \in Sizes
<1>1. IsFiniteSet({c \in S : results[c] = r})
      /\ Cardinality({c \in S : results[c] = r}) <= Cardinality(Cases)
  BY FS_Subset, BaselineAssumption
<1>2. Cardinality({c \in S : results[c] = r}) \in Nat /\ Cardinality(Cases) \in Nat
  BY <1>1, FS_CardinalityType, BaselineAssumption
<1>3. QED BY <1>1, <1>2 DEF Count, Sizes

\* An answer for a case without one adds one to the count of its kind.
LEMMA CountUpdated ==
    ASSUME NEW results \in [Cases -> ResultOrNone], NEW c \in Cases, results[c] = "none",
           NEW a, NEW r, r # "none"
    PROVE  Count([results EXCEPT ![c] = a], Cases, r)
               = Count(results, Cases, r) + (IF a = r THEN 1 ELSE 0)
<1> DEFINE old == {d \in Cases : results[d] = r}
           new == {d \in Cases : [results EXCEPT ![c] = a][d] = r}
<1>1. IsFiniteSet(old) /\ Cardinality(old) \in Nat
  BY FS_Subset, FS_CardinalityType, BaselineAssumption
<1>2. c \notin old
  OBVIOUS
<1>3. CASE a = r
  <2>1. new = old \cup {c}
    BY <1>3
  <2>2. Cardinality(new) = Cardinality(old) + 1
    BY <2>1, <1>1, <1>2, FS_AddElement
  <2>3. QED BY <2>2, <1>3 DEF Count
<1>4. CASE a # r
  <2>1. new = old
    BY <1>4, <1>2
  <2>2. QED BY <2>1, <1>1, <1>4 DEF Count
<1>5. QED BY <1>3, <1>4

\* Metrics of any results are metrics, and never the absence of them.
LEMMA MetricsType ==
    ASSUME NEW results, config \in Configs
    PROVE  Metrics(results) \in Metric /\ Metrics(results) # NoMetric
<1>1. Scored(results) \in SUBSET Cases
  BY DEF Scored, Configs
<1>2. 0 \in Sizes
  BY FS_CardinalityType, BaselineAssumption DEF Sizes
<1>3. Cardinality(Scored(results)) \in Sizes
  <2>1. Cardinality(Scored(results)) <= Cardinality(Cases) /\ IsFiniteSet(Scored(results))
    BY <1>1, FS_Subset, BaselineAssumption
  <2>2. QED BY <2>1, FS_CardinalityType, BaselineAssumption DEF Sizes
<1>4. Count(results, Scored(results), "right") \in Sizes
  BY <1>1, CountInSizes
<1>5. Count(results, Cases, "right") \in Sizes /\ Count(results, Cases, "malformed") \in Sizes
  BY CountInSizes
<1>6. Metrics(results) \in Metric
  BY <1>2, <1>3, <1>4, <1>5 DEF Metrics, Metric
<1>7. Metrics(results).malformed \in Nat
  BY <1>5 DEF Metrics, Sizes
<1>8. QED BY <1>6, <1>7 DEF NoMetric

\* Recomputed metrics are metrics.
LEMMA RefreshedType ==
    ASSUME NEW metric \in Metric, NEW results, config \in Configs
    PROVE  Refreshed(metric, results) \in Metric
<1>1. config.labelled \in SUBSET Cases
  BY DEF Configs
<1>2. Count(results, config.labelled, "right") \in Sizes
  BY <1>1, CountInSizes
<1>3. Cardinality(config.labelled) \in Sizes
  <2>1. Cardinality(config.labelled) <= Cardinality(Cases) /\ IsFiniteSet(config.labelled)
    BY <1>1, FS_Subset, BaselineAssumption
  <2>2. QED BY <2>1, FS_CardinalityType, BaselineAssumption DEF Sizes
<1>4. QED BY <1>2, <1>3 DEF Refreshed, Metric

\* The order begins with the baseline and never names its scaffold.
LEMMA OrderFacts ==
    /\ Len(Order) \in Nat /\ Len(Order) >= 1
    /\ Order[1] = "baseline"
    /\ \A k \in 1..Len(Order) : Order[k] \in Strategies \ {"scaffold"}
<1>1. /\ FewShot \in Seq(STRING) /\ Knn \in Seq(STRING)
      /\ \A k \in 1..Len(FewShot) : FewShot[k] # "scaffold" /\ FewShot[k] \in Strategies
      /\ \A k \in 1..Len(Knn) : Knn[k] # "scaffold" /\ Knn[k] \in Strategies
  BY NamesAssumption DEF Strategies, Asked, Embedded
<1>2. {"baseline", "centroid", "retrieval"} \subseteq Strategies \ {"scaffold"}
  BY DEF Strategies, Asked, Embedded
<1> DEFINE S == Strategies \ {"scaffold"}
<1>3. FewShot \in Seq(S) /\ Knn \in Seq(S)
  BY <1>1
<1> HIDE DEF S
<1>4. {"baseline", "centroid", "retrieval"} \subseteq S
  BY <1>2 DEF S
<1> DEFINE tail == IF config.train = {} THEN <<>> ELSE <<"centroid">> \o Knn \o <<"retrieval">>
<1>5. tail \in Seq(S)
  BY <1>3, <1>4
<1> HIDE DEF tail
<1>6. <<"baseline">> \in Seq(S) /\ Len(<<"baseline">>) = 1
  BY <1>4
<1>7. <<"baseline">> \o FewShot \in Seq(S) /\ Len(<<"baseline">> \o FewShot) = 1 + Len(FewShot)
      /\ (<<"baseline">> \o FewShot)[1] = "baseline"
  BY <1>3, <1>6
<1>8. Order = (<<"baseline">> \o FewShot) \o tail
  BY DEF Order, tail
<1>9. Order \in Seq(S) /\ Len(Order) = Len(<<"baseline">> \o FewShot) + Len(tail)
  BY <1>5, <1>7, <1>8
<1>10. Len(Order) \in Nat /\ Len(Order) >= 1
  BY <1>3, <1>5, <1>7, <1>9
<1>11. Order[1] = "baseline"
  BY <1>3, <1>5, <1>7, <1>8
<1>12. QED BY <1>9, <1>10, <1>11 DEF S

-----------------------------------------------------------------------------
(* The initial states, and what most steps leave as it is *)

LEMMA StrategyType ==
    ASSUME job.i \in 1..Len(Order)
    PROVE  Strategy \in Strategies \ {"scaffold"}
BY OrderFacts DEF Strategy

JobType == [at: Places, i: 1..Len(Order), results: [Cases -> ResultOrNone],
            todo: SUBSET Cases, case: Cases \cup {Other}, lookups: Sizes, models: Sizes]

LEMMA IdleType ==
    /\ Idle \in JobType
    /\ Idle.at = "off" /\ Idle.i = 1 /\ Idle.todo = {}
<1>1. 0 \in Sizes
  BY FS_CardinalityType, BaselineAssumption DEF Sizes
<1>2. NoRows \in [Cases -> ResultOrNone]
  BY DEF NoRows, ResultOrNone
<1>3. 1 \in 1..Len(Order)
  BY OrderFacts
<1>4. QED BY <1>1, <1>2, <1>3 DEF Idle, JobType, Places

LEMMA InvInit == Init => BaselineInv
<1> SUFFICES ASSUME Init PROVE BaselineInv
  OBVIOUS
<1>1. job = Idle
  BY DEF Init
<1>2. job \in [at: Places, i: 1..Len(Order), results: [Cases -> ResultOrNone],
               todo: SUBSET Cases, case: Cases \cup {Other}, lookups: Sizes, models: Sizes]
  BY <1>1, IdleType DEF JobType
<1>3. NoRows \in [Cases -> ResultOrNone]
  BY DEF NoRows, ResultOrNone
<1>4. TypeOK
  <2>1. runs \in [Strategies -> Metric \cup {NoMetric}]
        /\ compared \in [Strategies -> Metric \cup {NoMetric}]
    BY DEF Init
  <2>2. rows \in [Strategies -> [Cases -> ResultOrNone]]
    BY <1>3 DEF Init
  <2>3. faults \in 0..MaxFaults
    BY BaselineAssumption DEF Init
  <2>4. config \in Configs /\ marked \in BOOLEAN
    BY DEF Init
  <2>5. QED BY <1>2, <2>1, <2>2, <2>3, <2>4 DEF TypeOK, ResultOrNone
<1>5. job.at = "off"
  BY <1>1, IdleType
<1>6. Embedded \subseteq Strategies
  BY DEF Strategies
<1>7. RunsMatchRows
  BY <1>6 DEF Init, RunsMatchRows, NoRows
<1>8. JobMatchesRows /\ JobCounts /\ JobProgress
  BY <1>5 DEF JobMatchesRows, JobCounts, JobProgress, At
<1>9. QED BY <1>4, <1>7, <1>8 DEF BaselineInv

\* A step of memory only: what it has to show.
LEMMA MemoryStep ==
    ASSUME BaselineInv, UNCHANGED <<config, rows, runs, marked>>,
           job' \in JobType,
           compared' \in [Strategies -> Metric \cup {NoMetric}], faults' \in 0..MaxFaults
    PROVE  TypeOK' /\ RunsMatchRows' /\ Order' = Order
<1>1. Order' = Order
  BY DEF Order
<1>2. TypeOK'
  <2>1. /\ rows' \in [Strategies -> [Cases -> Results \cup {"none"}]] /\ config' \in Configs
        /\ runs' \in [Strategies -> Metric \cup {NoMetric}] /\ marked' \in BOOLEAN
    BY DEF BaselineInv, TypeOK
  <2>2. job' \in [at: Places, i: 1..Len(Order), results: [Cases -> Results \cup {"none"}],
                  todo: SUBSET Cases, case: Cases \cup {Other}, lookups: Sizes, models: Sizes]
    BY DEF JobType, ResultOrNone
  <2>3. QED BY <1>1, <2>1, <2>2 DEF TypeOK
<1>3. RunsMatchRows'
  BY <1>1, Zenon DEF BaselineInv, RunsMatchRows, Metrics, Scored
<1>4. QED BY <1>1, <1>2, <1>3

-----------------------------------------------------------------------------
(* One lemma per action *)

LEMMA InvStartStage == BaselineInv /\ StartStage => BaselineInv'
<1> SUFFICES ASSUME BaselineInv, StartStage PROVE BaselineInv'
  OBVIOUS
<1>1. job' = [Idle EXCEPT !.at = "load"]
  BY DEF StartStage
<1>2. job' \in JobType
  BY <1>1, IdleType DEF Places, JobType
<1>3. TypeOK' /\ RunsMatchRows' /\ Order' = Order
  BY <1>2, MemoryStep DEF StartStage, BaselineInv, TypeOK
<1>4. job'.at = "load" /\ job'.i = 1 /\ job'.todo = {}
  BY <1>1, IdleType DEF JobType
<1>5. JobMatchesRows' /\ JobCounts' /\ JobProgress'
  BY <1>4 DEF JobMatchesRows, JobCounts, JobProgress, At
<1>6. QED BY <1>3, <1>5 DEF BaselineInv

LEMMA InvInterrupt == BaselineInv /\ Interrupt => BaselineInv'
<1> SUFFICES ASSUME BaselineInv, Interrupt PROVE BaselineInv'
  OBVIOUS
<1>1. job' = Idle
  BY DEF Interrupt
<1>2. job' \in JobType
  BY <1>1, IdleType
<1>3. faults' \in 0..MaxFaults
  BY BaselineAssumption DEF Interrupt, BaselineInv, TypeOK
<1>4. TypeOK' /\ RunsMatchRows' /\ Order' = Order
  BY <1>2, <1>3, MemoryStep DEF Interrupt, BaselineInv, TypeOK
<1>5. job'.at = "off"
  BY <1>1, IdleType
<1>6. JobMatchesRows' /\ JobCounts' /\ JobProgress'
  BY <1>5 DEF JobMatchesRows, JobCounts, JobProgress, At
<1>7. QED BY <1>4, <1>6 DEF BaselineInv

LEMMA InvLoadRows == BaselineInv /\ LoadRows => BaselineInv'
<1> SUFFICES ASSUME BaselineInv, LoadRows PROVE BaselineInv'
  OBVIOUS
<1>1. Strategy \in Strategies \ {"scaffold"}
  BY StrategyType DEF BaselineInv, TypeOK
<1>2. Known \in [Cases -> ResultOrNone]
  BY <1>1 DEF BaselineInv, TypeOK, Known, ResultOrNone
<1>3. FailedBefore.lookups \in Sizes /\ FailedBefore.models \in Sizes
  BY CountInSizes DEF FailedBefore
<1>4. job \in JobType
  BY DEF BaselineInv, TypeOK, JobType, ResultOrNone
<1>5. /\ job'.at = "case" /\ job'.i = job.i /\ job'.case = job.case /\ job'.results = Known
      /\ job'.todo = job.todo /\ job.todo = {}
      /\ job'.lookups = FailedBefore.lookups /\ job'.models = FailedBefore.models
      /\ job' \in JobType
  BY <1>2, <1>3, <1>4 DEF LoadRows, JobType, Places, BaselineInv, JobMatchesRows
<1>6. TypeOK' /\ RunsMatchRows' /\ Order' = Order
  BY <1>5, MemoryStep DEF LoadRows, BaselineInv, TypeOK
<1>7. Strategy' = Strategy
  BY <1>5, <1>6 DEF Strategy
<1>8. JobMatchesRows'
  BY <1>5, <1>7 DEF JobMatchesRows, LoadRows, At, Known, Embedded
<1>9. JobCounts'
  BY <1>5, <1>7 DEF JobCounts, LoadRows, Known, FailedBefore
<1>10. JobProgress'
  BY <1>5, <1>6, <1>7 DEF JobProgress, LoadRows, At, BaselineInv
<1>11. QED BY <1>6, <1>8, <1>9, <1>10 DEF BaselineInv

\* An answer in memory.
LEMMA GotStep ==
    ASSUME BaselineInv, At("case"), Strategy \notin Embedded,
           NEW c \in Cases, NEW r \in Results, job.results[c] = "none",
           Got(c, r), UNCHANGED <<config, rows, runs, marked, compared, faults>>
    PROVE  BaselineInv'
<1>1. job \in JobType
  BY DEF BaselineInv, TypeOK, JobType, ResultOrNone
<1>2. job.results \in [Cases -> ResultOrNone]
  BY <1>1 DEF JobType
<1>3. /\ job'.at = "persist" /\ job'.i = job.i /\ job'.case = c
      /\ job'.results = [job.results EXCEPT ![c] = r]
      /\ job'.lookups = job.lookups + (IF r = "lost" THEN 1 ELSE 0)
      /\ job'.models = job.models + (IF r = "malformed" THEN 1 ELSE 0)
      /\ DOMAIN job' = DOMAIN job
  BY <1>1 DEF Got, JobType
<1>4. job.lookups = Count(job.results, Cases, "lost")
      /\ job.models = Count(job.results, Cases, "malformed")
  BY DEF BaselineInv, JobCounts, At
<1>5. job'.lookups = Count(job'.results, Cases, "lost")
      /\ job'.models = Count(job'.results, Cases, "malformed")
  BY <1>2, <1>3, <1>4, CountUpdated
<1>6. job'.lookups \in Sizes /\ job'.models \in Sizes
  BY <1>5, CountInSizes
<1>7. job'.results \in [Cases -> ResultOrNone]
  BY <1>2, <1>3 DEF ResultOrNone
<1>8. job' \in JobType
  BY <1>1, <1>3, <1>6, <1>7 DEF JobType, Places, Got
<1>9. TypeOK' /\ RunsMatchRows' /\ Order' = Order
  BY <1>8, MemoryStep DEF BaselineInv, TypeOK
<1>10. Strategy' = Strategy
  BY <1>3, <1>9 DEF Strategy
<1>11. job.results = rows[Strategy] /\ job'.todo = {}
  BY <1>1 DEF BaselineInv, JobMatchesRows, Got, JobType
<1>12. job'.results[c] = r /\ r # "none"
  BY <1>2, <1>3 DEF Results
<1>13. JobMatchesRows'
  BY <1>3, <1>10, <1>11, <1>12 DEF JobMatchesRows, At, Embedded
<1>14. JobCounts'
  BY <1>5 DEF JobCounts
<1>0. JobProgress'
  BY <1>3, <1>9, <1>10 DEF JobProgress, At, BaselineInv
<1>16. QED BY <1>9, <1>13, <1>14, <1>0 DEF BaselineInv

LEMMA InvAskStudent ==
    ASSUME BaselineInv, NEW c \in Cases, NEW r \in Answers, AskStudent(c, r)
    PROVE  BaselineInv'
<1>1. Strategy \notin Embedded
  BY NamesAssumption DEF AskStudent, Asked, Embedded
<1>2. r \in Results
  BY DEF Answers, Results
<1>3. QED BY <1>1, <1>2, GotStep DEF AskStudent

LEMMA InvAskWithRetrieved ==
    ASSUME BaselineInv, NEW c \in Cases, NEW r \in Results, AskWithRetrieved(c, r)
    PROVE  BaselineInv'
<1>1. Strategy \notin Embedded
  BY NamesAssumption DEF AskWithRetrieved, Embedded
<1>2. QED BY <1>1, GotStep DEF AskWithRetrieved

LEMMA InvAllAnswered == BaselineInv /\ AllAnswered => BaselineInv'
<1> SUFFICES ASSUME BaselineInv, AllAnswered PROVE BaselineInv'
  OBVIOUS
<1>1. job \in JobType
  BY DEF BaselineInv, TypeOK, JobType, ResultOrNone
<1>2. /\ job'.at = "measure" /\ job'.i = job.i /\ job'.results = job.results
      /\ job'.lookups = job.lookups /\ job'.models = job.models /\ job' \in JobType
  BY <1>1 DEF AllAnswered, JobType, Places
<1>3. TypeOK' /\ RunsMatchRows' /\ Order' = Order
  BY <1>2, MemoryStep DEF AllAnswered, BaselineInv, TypeOK
<1>4. Strategy' = Strategy
  BY <1>2, <1>3 DEF Strategy
<1>5. job.results = rows[Strategy] /\ Complete(Strategy)
  <2>1. job.results \in [Cases -> ResultOrNone]
    BY <1>1 DEF JobType
  <2>2. rows[Strategy] \in [Cases -> ResultOrNone]
    BY StrategyType DEF BaselineInv, TypeOK, ResultOrNone
  <2>3. \A c \in Cases : rows[Strategy][c] = job.results[c]
    BY DEF AllAnswered, BaselineInv, JobMatchesRows
  <2>4. QED BY <2>1, <2>2, <2>3 DEF AllAnswered, Complete
<1>6. JobMatchesRows'
  BY <1>2, <1>4, <1>5 DEF JobMatchesRows, At, AllAnswered, Complete
<1>7. JobCounts'
  BY <1>2, <1>4 DEF JobCounts, AllAnswered, At, BaselineInv, Embedded
<1>8. JobProgress'
  BY <1>2, <1>3, <1>4 DEF JobProgress, AllAnswered, At, BaselineInv
<1>9. QED BY <1>3, <1>6, <1>7, <1>8 DEF BaselineInv

\* A result is committed: for a case that had none, or by a strategy that embeds.
LEMMA CommitStep ==
    ASSUME BaselineInv, NEW s \in Strategies, NEW c \in Cases, NEW r \in Results,
           rows[s][c] = "none" \/ s \in Embedded,
           rows' = [rows EXCEPT ![s][c] = r], job' \in JobType,
           UNCHANGED <<config, runs, marked, compared, faults>>
    PROVE  TypeOK' /\ RunsMatchRows' /\ Order' = Order
<1>1. Order' = Order
  BY DEF Order
<1>2. rows \in [Strategies -> [Cases -> ResultOrNone]]
  BY DEF BaselineInv, TypeOK, ResultOrNone
<1>3. rows' \in [Strategies -> [Cases -> ResultOrNone]]
  BY <1>2 DEF ResultOrNone
<1>4. TypeOK'
  BY <1>1, <1>3 DEF BaselineInv, TypeOK, JobType, ResultOrNone
<1>5. ASSUME NEW t \in Strategies, t \notin Embedded, \A d \in Cases : rows[t][d] # "none"
      PROVE  rows'[t] = rows[t]
  BY <1>2, <1>5
<1>6. \A t \in Strategies : (IF t = "scaffold" THEN "baseline" ELSE t) \in Strategies
  BY DEF Strategies, Asked
<1>a. "baseline" \notin Embedded
  BY NamesAssumption DEF Embedded
<1>b. \A t \in Strategies, d \in Cases : rows[t][d] # "none" => rows'[t][d] # "none"
  <2>1. r # "none"
    BY DEF Results
  <2>2. QED BY <1>2, <2>1
<1>7. RunsMatchRows'
  <2>1. ASSUME NEW t \in Strategies, runs[t] # NoMetric,
               NEW u, u = IF t = "scaffold" THEN "baseline" ELSE t
        PROVE  /\ t \notin Embedded => runs[t] = Metrics(rows[u])'
               /\ \A d \in Cases : rows'[u][d] # "none"
    <3>1. /\ t \notin Embedded => runs[t] = Metrics(rows[u])
          /\ \A d \in Cases : rows[u][d] # "none"
      BY <2>1 DEF BaselineInv, RunsMatchRows
    <3>2. u \in Strategies /\ (t \notin Embedded => u \notin Embedded)
      BY <1>6, <1>a, <2>1
    <3>3. t \notin Embedded => rows'[u] = rows[u]
      BY <1>5, <3>1, <3>2
    <3>4. t \notin Embedded => Metrics(rows[u])' = Metrics(rows[u])
      BY <3>3 DEF Metrics, Scored
    <3>5. QED BY <1>b, <3>1, <3>2, <3>4
  <2>2. marked' => \A t \in Elements(Order') \cup {"scaffold"} : runs'[t] # NoMetric
    BY <1>1 DEF BaselineInv, RunsMatchRows
  <2>3. QED BY <2>1, <2>2 DEF RunsMatchRows
<1>8. QED BY <1>1, <1>4, <1>7

LEMMA InvPersistResult == BaselineInv /\ PersistResult => BaselineInv'
<1> SUFFICES ASSUME BaselineInv, PersistResult PROVE BaselineInv'
  OBVIOUS
<1>1. job \in JobType
  BY DEF BaselineInv, TypeOK, JobType, ResultOrNone
<1>2. /\ job'.at = "case" /\ job'.i = job.i /\ job'.results = job.results
      /\ job'.lookups = job.lookups /\ job'.models = job.models /\ job' \in JobType
      /\ job'.todo = job.todo
  BY <1>1 DEF PersistResult, JobType, Places
<1>3. Strategy \in Strategies \ {"scaffold"}
  BY StrategyType DEF BaselineInv, TypeOK
<1> DEFINE c == job.case
           r == job.results[job.case]
<1>4. /\ Strategy \notin Embedded /\ job.todo = {} /\ c \in Cases /\ rows[Strategy][c] = "none"
      /\ job.results = [rows[Strategy] EXCEPT ![c] = r] /\ r # "none"
  BY DEF PersistResult, BaselineInv, JobMatchesRows
<1>5. r \in Results
  BY <1>1, <1>4 DEF JobType, ResultOrNone
<1>6. TypeOK' /\ RunsMatchRows' /\ Order' = Order
  BY <1>2, <1>3, <1>4, <1>5, CommitStep DEF PersistResult
<1>7. Strategy' = Strategy
  BY <1>2, <1>6 DEF Strategy
<1>8. rows'[Strategy] = job.results
  BY <1>3, <1>4 DEF PersistResult, BaselineInv, TypeOK
<1>9. JobMatchesRows'
  BY <1>2, <1>4, <1>7, <1>8 DEF JobMatchesRows, At, Embedded
<1>10. JobCounts'
  BY <1>2, <1>4, <1>7 DEF JobCounts, PersistResult, At, BaselineInv
<1>11. JobProgress'
  BY <1>2, <1>6, <1>7 DEF JobProgress, PersistResult, At, BaselineInv
<1>12. QED BY <1>6, <1>9, <1>10, <1>11 DEF BaselineInv

LEMMA InvPredict ==
    ASSUME BaselineInv, NEW p \in Predictions, Predict(p)
    PROVE  BaselineInv'
<1>1. job \in JobType
  BY DEF BaselineInv, TypeOK, JobType, ResultOrNone
<1>2. p \in [Cases -> ResultOrNone]
  BY DEF Predictions, ResultOrNone, Results
<1>3. /\ job'.at = "case" /\ job'.i = job.i /\ job'.results = p /\ job'.todo = Cases
      /\ job' \in JobType
  BY <1>1, <1>2 DEF Predict, JobType, Places
<1>4. TypeOK' /\ RunsMatchRows' /\ Order' = Order
  BY <1>3, MemoryStep DEF Predict, BaselineInv, TypeOK
<1>5. Strategy' = Strategy /\ Strategy \in Embedded
  BY <1>3, <1>4 DEF Strategy, Predict
<1>6. JobMatchesRows'
  BY <1>3, <1>5 DEF JobMatchesRows, At, Embedded
<1>7. JobCounts'
  BY <1>5 DEF JobCounts, Embedded
<1>8. JobProgress'
  BY <1>3, <1>4, <1>5 DEF JobProgress, Predict, At, BaselineInv
<1>9. QED BY <1>4, <1>6, <1>7, <1>8 DEF BaselineInv

LEMMA InvPersistPredicted ==
    ASSUME BaselineInv, NEW c \in Cases, PersistPredicted(c)
    PROVE  BaselineInv'
<1>1. job \in JobType
  BY DEF BaselineInv, TypeOK, JobType, ResultOrNone
<1>2. Strategy \in Embedded /\ job.results \in Predictions
  BY DEF PersistPredicted, BaselineInv, JobMatchesRows
<1>3. Strategy \in Strategies
  BY <1>2 DEF Strategies
<1>4. job.results[c] \in Results
  BY <1>2 DEF Predictions, Results
<1>5. /\ job'.at = "case" /\ job'.i = job.i /\ job'.results = job.results
      /\ job'.todo = job.todo \ {c} /\ job' \in JobType
  BY <1>1 DEF PersistPredicted, At, JobType
<1>6. TypeOK' /\ RunsMatchRows' /\ Order' = Order
  BY <1>2, <1>3, <1>4, <1>5, CommitStep DEF PersistPredicted
<1>7. Strategy' = Strategy
  BY <1>5, <1>6 DEF Strategy
<1>8. \A d \in Cases \ job'.todo : rows'[Strategy][d] = job.results[d]
  <2>1. rows \in [Strategies -> [Cases -> ResultOrNone]]
    BY DEF BaselineInv, TypeOK, ResultOrNone
  <2>2. \A d \in Cases \ job.todo : rows[Strategy][d] = job.results[d]
    BY <1>2 DEF PersistPredicted, BaselineInv, JobMatchesRows
  <2>3. rows' = [rows EXCEPT ![Strategy][c] = job.results[c]]
    BY DEF PersistPredicted
  <2>4. QED BY <1>3, <1>5, <2>1, <2>2, <2>3
<1>9. JobMatchesRows'
  BY <1>2, <1>5, <1>7, <1>8 DEF JobMatchesRows, At, Embedded
<1>10. JobCounts'
  BY <1>2, <1>7 DEF JobCounts, Embedded
<1>11. JobProgress'
  BY <1>5, <1>6, <1>7 DEF JobProgress, PersistPredicted, At, BaselineInv
<1>12. QED BY <1>6, <1>9, <1>10, <1>11 DEF BaselineInv

\* A row of metrics that is inserted is that of a complete strategy.
LEMMA InsertStep ==
    ASSUME BaselineInv, NEW s \in Strategies, InsertRun(s),
           job.results = rows[IF s = "scaffold" THEN "baseline" ELSE s],
           Complete(IF s = "scaffold" THEN "baseline" ELSE s),
           job' \in JobType, UNCHANGED <<config, rows, marked, compared, faults>>
    PROVE  /\ TypeOK' /\ RunsMatchRows' /\ Order' = Order
           /\ runs'[s] # NoMetric
           /\ \A t \in Strategies : runs[t] # NoMetric => runs'[t] = runs[t]
<1>1. Order' = Order
  BY DEF Order
<1>2. Metrics(job.results) \in Metric /\ Metrics(job.results) # NoMetric
  BY MetricsType DEF BaselineInv, TypeOK
<1>3. runs \in [Strategies -> Metric \cup {NoMetric}]
  BY DEF BaselineInv, TypeOK
<1>4. \A t \in Strategies :
          runs'[t] = IF t = s /\ runs[t] = NoMetric THEN Metrics(job.results) ELSE runs[t]
  BY <1>3 DEF InsertRun, Measured
<1>5. runs' \in [Strategies -> Metric \cup {NoMetric}]
  BY <1>2, <1>3 DEF InsertRun, Measured
<1>6. TypeOK'
  BY <1>1, <1>5 DEF BaselineInv, TypeOK, JobType, ResultOrNone
<1>7. RunsMatchRows'
  <2>1. ASSUME NEW t \in Strategies, runs'[t] # NoMetric,
               NEW u, u = IF t = "scaffold" THEN "baseline" ELSE t
        PROVE  /\ t \notin Embedded => runs'[t] = Metrics(rows[u])'
               /\ \A d \in Cases : rows'[u][d] # "none"
    <3>1. /\ t \notin Embedded => runs'[t] = Metrics(rows[u])
          /\ \A d \in Cases : rows[u][d] # "none"
      <4>1. CASE runs[t] # NoMetric
        BY <1>4, <2>1, <4>1 DEF BaselineInv, RunsMatchRows
      <4>2. CASE runs[t] = NoMetric
        BY <1>4, <2>1, <4>2 DEF Complete
      <4>3. QED BY <4>1, <4>2
    <3>2. QED BY <3>1 DEF Metrics, Scored
  <2>2. marked' => \A t \in Elements(Order') \cup {"scaffold"} : runs'[t] # NoMetric
    <3>1. Elements(Order) \cup {"scaffold"} \subseteq Strategies
      BY OrderFacts DEF Strategies
    <3>2. QED BY <1>1, <1>2, <1>4, <3>1 DEF BaselineInv, RunsMatchRows
  <2>3. QED BY <2>1, <2>2 DEF RunsMatchRows
<1>8. QED BY <1>1, <1>2, <1>4, <1>6, <1>7

\* The place after a strategy is the end, or the next one from its beginning.
LEMMA NextPlace ==
    ASSUME job \in JobType, NextStrategy
    PROVE  /\ job' \in JobType
           /\ \/ job.i = Len(Order) /\ job'.at = "end" /\ job'.i = job.i
              \/ job'.at = "load" /\ job'.i = job.i + 1 /\ job'.todo = {}
<1>1. CASE job.i = Len(Order)
  <2>1. job' = [job EXCEPT !.at = "end"]
    BY <1>1 DEF NextStrategy
  <2>2. QED BY <1>1, <2>1 DEF JobType, Places
<1>2. CASE job.i # Len(Order)
  <2>1. job' = [Idle EXCEPT !.at = "load", !.i = job.i + 1]
    BY <1>2 DEF NextStrategy
  <2>2. job.i + 1 \in 1..Len(Order)
    BY <1>2, OrderFacts DEF JobType
  <2>3. [Idle EXCEPT !.at = "load"] \in JobType
    BY IdleType DEF JobType, Places
  <2>4. job' = [[Idle EXCEPT !.at = "load"] EXCEPT !.i = job.i + 1]
    BY <2>1
  <2> DEFINE loading == [Idle EXCEPT !.at = "load"]
  <2>5. loading.at = "load" /\ loading.todo = {}
    BY IdleType DEF JobType
  <2> HIDE DEF loading
  <2>6. job' = [loading EXCEPT !.i = job.i + 1] /\ loading \in JobType
    BY <2>3, <2>4 DEF loading
  <2>7. job' \in JobType /\ job'.at = loading.at /\ job'.todo = loading.todo /\ job'.i = job.i + 1
    BY <2>2, <2>6 DEF JobType
  <2>8. QED BY <2>5, <2>7
<1>3. QED BY <1>1, <1>2

\* When the strategy and, after the baseline, its scaffold have their rows.
LEMMA NextStep ==
    ASSUME BaselineInv, NextStrategy, ~At("off"), Order' = Order,
           runs'[Strategy] # NoMetric, runs'["scaffold"] # NoMetric,
           \A t \in Strategies : runs[t] # NoMetric => runs'[t] = runs[t]
    PROVE  JobMatchesRows' /\ JobCounts' /\ JobProgress'
<1>1. /\ job.i \in 1..Len(Order) /\ job' \in JobType
      /\ \/ job.i = Len(Order) /\ job'.at = "end" /\ job'.i = job.i
         \/ job'.at = "load" /\ job'.i = job.i + 1 /\ job'.todo = {}
  BY NextPlace DEF BaselineInv, TypeOK, JobType, ResultOrNone
<1>2. JobMatchesRows' /\ JobCounts'
  BY <1>1 DEF JobMatchesRows, JobCounts, At
<1>3. \A k \in 1..(job.i - 1) : runs'[Order[k]] # NoMetric
  BY <1>1, OrderFacts DEF BaselineInv, JobProgress
<1>4. \A k \in 1..(job'.i - 1) : runs'[Order'[k]] # NoMetric
  <2>1. ASSUME NEW k \in 1..(job'.i - 1) PROVE k \in 1..(job.i - 1) \/ k = job.i
    BY <1>1, <2>1, OrderFacts
  <2>2. QED BY <1>3, <2>1 DEF Strategy
<1>5. job'.at = "end" => runs'[Strategy'] # NoMetric
  BY <1>1 DEF Strategy
<1>6. QED BY <1>1, <1>2, <1>4, <1>5 DEF JobProgress, At

LEMMA InvInsertEvalRun == BaselineInv /\ InsertEvalRun => BaselineInv'
<1> SUFFICES ASSUME BaselineInv, InsertEvalRun PROVE BaselineInv'
  OBVIOUS
<1>1. job \in JobType
  BY DEF BaselineInv, TypeOK, JobType, ResultOrNone
<1>2. Strategy \in Strategies \ {"scaffold"}
  BY StrategyType DEF BaselineInv, TypeOK
<1>3. job.results = rows[Strategy] /\ Complete(Strategy)
  BY DEF InsertEvalRun, BaselineInv, JobMatchesRows
<1>4. CASE Strategy = "baseline"
  <2>1. /\ job'.at = "scaffold" /\ job'.i = job.i /\ job'.results = job.results
        /\ job' \in JobType
    BY <1>1, <1>4 DEF InsertEvalRun, JobType, Places
  <2>2. /\ TypeOK' /\ RunsMatchRows' /\ Order' = Order
        /\ runs'[Strategy] # NoMetric
        /\ \A t \in Strategies : runs[t] # NoMetric => runs'[t] = runs[t]
    BY <1>2, <1>3, <2>1, InsertStep DEF InsertEvalRun
  <2>3. Strategy' = Strategy
    BY <2>1, <2>2 DEF Strategy
  <2>4. JobMatchesRows' /\ JobCounts'
    BY <1>3, <1>4, <2>1, <2>3 DEF JobMatchesRows, JobCounts, At, InsertEvalRun, Complete
  <2>5. JobProgress'
    <3>1. "scaffold" \in Strategies
      BY DEF Strategies
    <3>2. \A k \in 1..(job.i - 1) : Order[k] \in Strategies
      BY <1>1, OrderFacts DEF JobType
    <3>3. QED BY <2>1, <2>2, <2>3, <3>1, <3>2 DEF JobProgress, At, BaselineInv, InsertEvalRun
  <2>6. QED BY <2>2, <2>4, <2>5 DEF BaselineInv
<1>5. CASE Strategy # "baseline"
  <2>1. NextStrategy
    BY <1>5 DEF InsertEvalRun
  <2>2. job' \in JobType
    BY <1>1, <2>1, NextPlace
  <2>3. /\ TypeOK' /\ RunsMatchRows' /\ Order' = Order
        /\ runs'[Strategy] # NoMetric
        /\ \A t \in Strategies : runs[t] # NoMetric => runs'[t] = runs[t]
    BY <1>2, <1>3, <2>2, InsertStep DEF InsertEvalRun
  <2>4. job.i > 1
    BY <1>1, <1>5, OrderFacts DEF Strategy, JobType
  <2>5. runs'["scaffold"] # NoMetric
    BY <2>3, <2>4 DEF BaselineInv, JobProgress, At, InsertEvalRun, Strategies
  <2>6. JobMatchesRows' /\ JobCounts' /\ JobProgress'
    BY <2>1, <2>3, <2>5, NextStep DEF At, InsertEvalRun
  <2>7. QED BY <2>3, <2>6 DEF BaselineInv
<1>6. QED BY <1>4, <1>5

LEMMA InvInsertScaffoldRun == BaselineInv /\ InsertScaffoldRun => BaselineInv'
<1> SUFFICES ASSUME BaselineInv, InsertScaffoldRun PROVE BaselineInv'
  OBVIOUS
<1>1. job \in JobType
  BY DEF BaselineInv, TypeOK, JobType, ResultOrNone
<1>2. job.results = rows["baseline"] /\ Complete("baseline") /\ Strategy = "baseline"
  BY DEF InsertScaffoldRun, BaselineInv, JobMatchesRows
<1>3. job' \in JobType
  BY <1>1, NextPlace DEF InsertScaffoldRun
<1>4. "scaffold" \in Strategies /\ "baseline" \in Strategies
  BY DEF Strategies, Asked
<1>5. /\ TypeOK' /\ RunsMatchRows' /\ Order' = Order
      /\ runs'["scaffold"] # NoMetric
      /\ \A t \in Strategies : runs[t] # NoMetric => runs'[t] = runs[t]
  BY <1>2, <1>3, <1>4, InsertStep DEF InsertScaffoldRun
<1>6. runs'[Strategy] # NoMetric
  BY <1>2, <1>4, <1>5 DEF BaselineInv, JobProgress, InsertScaffoldRun
<1>7. JobMatchesRows' /\ JobCounts' /\ JobProgress'
  BY <1>5, <1>6, NextStep DEF At, InsertScaffoldRun
<1>8. QED BY <1>5, <1>7 DEF BaselineInv

LEMMA InvMarkStage == BaselineInv /\ MarkStage => BaselineInv'
<1> SUFFICES ASSUME BaselineInv, MarkStage PROVE BaselineInv'
  OBVIOUS
<1>1. Order' = Order
  BY DEF MarkStage, Order
<1>2. job' = Idle /\ job' \in JobType /\ job'.at = "off" /\ marked' = TRUE
  BY IdleType DEF MarkStage
<1>3. TypeOK'
  BY <1>1, <1>2 DEF BaselineInv, TypeOK, MarkStage, JobType, ResultOrNone
<1>4. \A k \in 1..Len(Order) : runs[Order[k]] # NoMetric
  <2>1. job.i = Len(Order) /\ runs[Order[job.i]] # NoMetric
    BY DEF MarkStage, BaselineInv, JobProgress, Strategy
  <2>2. \A k \in 1..(Len(Order) - 1) : runs[Order[k]] # NoMetric
    BY <2>1 DEF MarkStage, At, BaselineInv, JobProgress
  <2>3. QED BY <2>1, <2>2, OrderFacts
<1>5. runs["scaffold"] # NoMetric
  BY DEF MarkStage, BaselineInv, JobProgress
<1>6. RunsMatchRows'
  BY <1>1, <1>2, <1>4, <1>5 DEF BaselineInv, RunsMatchRows, MarkStage, Metrics, Scored
<1>8. JobMatchesRows' /\ JobCounts' /\ JobProgress'
  BY <1>2 DEF JobMatchesRows, JobCounts, JobProgress, At
<1>9. QED BY <1>3, <1>6, <1>8 DEF BaselineInv

LEMMA InvLoadEvaluations == BaselineInv /\ LoadEvaluations => BaselineInv'
<1> SUFFICES ASSUME BaselineInv, LoadEvaluations PROVE BaselineInv'
  OBVIOUS
<1>1. \A s \in Strategies : Refreshed(runs[s], rows[s]) \in Metric \/ runs[s] = NoMetric
  BY RefreshedType DEF BaselineInv, TypeOK
<1>2. compared' \in [Strategies -> Metric \cup {NoMetric}]
  BY <1>1 DEF LoadEvaluations, BaselineInv, TypeOK
<1>3. job \in JobType
  BY DEF BaselineInv, TypeOK, JobType, ResultOrNone
<1>4. TypeOK' /\ RunsMatchRows' /\ Order' = Order
  BY <1>2, <1>3, MemoryStep DEF LoadEvaluations, BaselineInv, TypeOK
<1>5. JobMatchesRows' /\ JobCounts' /\ JobProgress'
  BY DEF LoadEvaluations, At, JobMatchesRows, JobCounts, JobProgress
<1>6. QED BY <1>4, <1>5 DEF BaselineInv

LEMMA InvNext == BaselineInv /\ [Next]_vars => BaselineInv'
<1> SUFFICES ASSUME BaselineInv, [Next]_vars PROVE BaselineInv'
  OBVIOUS
<1>1. CASE StartStage
  BY <1>1, InvStartStage
<1>2. CASE LoadRows
  BY <1>2, InvLoadRows
<1>3. CASE PersistAny
  BY <1>3, InvPersistPredicted DEF PersistAny
<1>4. CASE PersistResult
  BY <1>4, InvPersistResult
<1>5. CASE AllAnswered
  BY <1>5, InvAllAnswered
<1>6. CASE InsertEvalRun
  BY <1>6, InvInsertEvalRun
<1>7. CASE InsertScaffoldRun
  BY <1>7, InvInsertScaffoldRun
<1>8. CASE MarkStage
  BY <1>8, InvMarkStage
<1>9. CASE AskAny
  BY <1>9, InvAskStudent DEF AskAny
<1>10. CASE RetrieveAny
  BY <1>10, InvAskWithRetrieved DEF RetrieveAny
<1>11. CASE Interrupt
  BY <1>11, InvInterrupt
<1>12. CASE LoadEvaluations
  BY <1>12, InvLoadEvaluations
<1>0. CASE PredictAny
  BY <1>0, InvPredict DEF PredictAny
<1>13. CASE UNCHANGED vars
  <2>1. job' = job /\ Order' = Order /\ Strategy' = Strategy
    BY <1>13 DEF vars, Order, Strategy
  <2>2. TypeOK' /\ RunsMatchRows'
    <3>1. job \in JobType
      BY DEF BaselineInv, TypeOK, JobType, ResultOrNone
    <3>2. QED BY <1>13, <3>1, MemoryStep DEF vars, BaselineInv, TypeOK
  <2>3. JobMatchesRows'
    BY <1>13, <2>1 DEF vars, BaselineInv, JobMatchesRows, At, Complete
  <2>4. JobCounts' /\ JobProgress'
    BY <1>13, <2>1 DEF vars, BaselineInv, JobCounts, JobProgress, At
  <2>5. QED BY <2>2, <2>3, <2>4 DEF BaselineInv
<1>14. QED
  BY <1>1, <1>2, <1>3, <1>4, <1>5, <1>6, <1>7, <1>8, <1>9, <1>10, <1>11, <1>12, <1>13, <1>0
     DEF Next

-----------------------------------------------------------------------------
(* Theorems *)

\* The stage evaluating_baseline keeps its tables and its memory in agreement: the
\* inductive invariant of everything below.
THEOREM BaselineInvariant == Spec => []BaselineInv
<1>1. QED BY InvInit, InvNext, PTL DEF Spec

\* Every variable of the stage has its type.
THEOREM BaselineTypeCorrect == Spec => []TypeOK
<1>1. BaselineInv => TypeOK
  BY DEF BaselineInv
<1>2. QED BY <1>1, BaselineInvariant, PTL

\* However often the stage is interrupted, a row of eval_runs stands for committed
\* results of all cases, and holds their metrics if the strategy asks the student.
THEOREM MetricsOfCommittedRows == Spec => []RunsMatchRows
<1>1. BaselineInv => RunsMatchRows
  BY DEF BaselineInv
<1>2. QED BY <1>1, BaselineInvariant, PTL

\* A run that has all results of a strategy measures the rows as they are, those that an
\* earlier run embedded written over, and reports the failures that are in them.
THEOREM CommittedIsMeasured == Spec => []MeasuredIsCommitted
<1>1. "retrieval" \notin Embedded
  BY NamesAssumption DEF Embedded
<1>2. BaselineInv => MeasuredIsCommitted
  BY <1>1 DEF BaselineInv, MeasuredIsCommitted, JobCounts, JobMatchesRows, At
<1>3. QED BY <1>2, BaselineInvariant, PTL

\* A committed result of a strategy that asks the student is never replaced.
THEOREM CommittedResultsFinal == Spec => ResultsFinal
<1> DEFINE A == \A s \in Strategies \ Embedded, c \in Cases :
                   rows[s][c] # "none" => rows'[s][c] = rows[s][c]
<1>1. BaselineInv /\ [Next]_vars => [A]_vars
  <2> SUFFICES ASSUME BaselineInv, Next PROVE A
    BY DEF vars
  <2>1. CASE PersistAny
    <3>1. PICK c \in Cases : PersistPredicted(c)
      BY <2>1 DEF PersistAny
    <3>2. Strategy \in Embedded
      BY <3>1 DEF PersistPredicted, BaselineInv, JobMatchesRows
    <3>3. QED BY <3>1, <3>2 DEF PersistPredicted, BaselineInv, TypeOK
  <2>2. CASE PersistResult
    <3>1. rows[Strategy][job.case] = "none"
      BY <2>2 DEF PersistResult, BaselineInv, JobMatchesRows
    <3>2. QED BY <2>2, <3>1 DEF PersistResult, BaselineInv, TypeOK
  <2>3. CASE ~PersistAny /\ ~PersistResult
    BY <2>3 DEF Next, StartStage, LoadRows, PredictAny, Predict, AllAnswered, InsertEvalRun,
                InsertScaffoldRun, MarkStage, AskAny, AskStudent, RetrieveAny,
                AskWithRetrieved, Interrupt, LoadEvaluations
  <2>4. QED BY <2>1, <2>2, <2>3
<1>2. QED BY <1>1, BaselineInvariant, PTL DEF Spec, ResultsFinal
=============================================================================
