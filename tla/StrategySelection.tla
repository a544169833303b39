------------------------- MODULE StrategySelection -------------------------
(***************************************************************************)
(* Which cases are evaluated (pipeline/split_policy.py), the gates of a    *)
(* candidate (quality_gates.py) and the choice among them                  *)
(* (strategy_selection.py).  Rates and metrics are numbers of cases.       *)
(***************************************************************************)
EXTENDS FailureAnalysis

CONSTANTS
    MinDelta,           \* min_metric_delta
    MaxMalformed,       \* max_malformed_output_rate
    MaxGolden,          \* max_golden_failures
    MaxRegressions,     \* max_regression_rate, in percent
    MaxTokens,          \* max_prompt_tokens
    ScoreEpsilon        \* _PRIMARY_METRIC_EPSILON

ASSUME SelectionAssumption == ScoreEpsilon \in Nat /\ MaxTokens \in Nat

\* The candidates in the order of their names.
Candidates == <<"baseline_few_shot_k3", "dbscan", "hdbscan">>

SplitOrder == <<"validation", "train", "test", "golden">>

\* resolve_split_policy
EvaluationSplit(splits) ==
    LET present == {i \in 1..3 : \E c \in DOMAIN splits : splits[c] = SplitOrder[i]}
    IN IF present = {} THEN "golden"
       ELSE SplitOrder[CHOOSE i \in present : \A j \in present : i <= j]

EvaluationCases(splits) == {c \in DOMAIN splits : splits[c] = EvaluationSplit(splits)}

PassedCases(results) == {c \in DOMAIN results : results[c].passed}
MalformedCases(results) == {c \in DOMAIN results : results[c] = Malformed}
Score(results) == Cardinality(PassedCases(results))

\* check_quality_gates
GoldenFailures(results, splits) ==
    Cardinality({c \in DOMAIN results : splits[c] = "golden" /\ ~results[c].passed})

DeltaGate(results, base) == Score(results) - Score(base) >= MinDelta

RegressionGate(results, base) ==
    100 * Cardinality(PassedCases(base) \ PassedCases(results))
        <= MaxRegressions * Cardinality(PassedCases(base))

Gate(results, base, splits, tokens) ==
    [golden |-> GoldenFailures(results, splits),
     passed |-> /\ DeltaGate(results, base)
                /\ Cardinality(MalformedCases(results)) <= MaxMalformed
                /\ GoldenFailures(results, splits) <= MaxGolden
                /\ RegressionGate(results, base)
                /\ tokens <= MaxTokens]

-----------------------------------------------------------------------------
(* select_strategy_generic: evals, gates and tokens are functions of the
   candidates that have an evaluation *)

\* Mutant: the gates are not looked at.
PoolUngated(gates) == DOMAIN gates

\* The candidates that pass their gates or, if none does, all.
Pool(gates) ==
    LET passing == {s \in DOMAIN gates : gates[s].passed}
    IN IF passing = {} THEN DOMAIN gates ELSE passing

\* Those of S whose measure is within slack of the lowest.
Lowest(S, measure, slack) == {s \in S : \A t \in S : measure[s] <= measure[t] + slack}

Contenders(S, evals) == Lowest(S, [s \in S |-> -Score(evals[s])], ScoreEpsilon)

TieBroken(S, evals, gates, tokens) ==
    LET golden == Lowest(S, [s \in S |-> gates[s].golden], 0)
        formed == Lowest(golden, [s \in S |-> Cardinality(MalformedCases(evals[s]))], 0)
    IN Lowest(formed, tokens, 0)

First(S) ==
    LET places == {i \in DOMAIN Candidates : Candidates[i] \in S}
    IN IF "hdbscan" \in S THEN "hdbscan"
       ELSE Candidates[CHOOSE i \in places : \A j \in places : i <= j]

SelectStrategy(evals, gates, tokens) ==
    IF DOMAIN gates = {} THEN "baseline_scaffold"
    ELSE First(TieBroken(Contenders(Pool(gates), evals), evals, gates, tokens))
=============================================================================
