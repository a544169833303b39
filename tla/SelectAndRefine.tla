-------------------------- MODULE SelectAndRefine --------------------------
(***************************************************************************)
(* From the evaluations to the refined rules, as the aggregate phase goes  *)
(* (_run and _run_refinement_loop of workers/distillation_worker.py):      *)
(* gates, selection, failure analysis, the teacher's actions, pruning.     *)
(* Aggregation has the same stages with their markers and interruptions,   *)
(* and any outcome; here are the outcomes, of one run and one iteration.   *)
(* What is not read again is dropped from the state.                       *)
(***************************************************************************)
EXTENDS RulePruning, RuleActions, StrategySelection

CONSTANTS
    Cases,              \* all cases of the job, numbers
    Contents,           \* rules as the database has them, up to their ids
    Revisions,          \* rules as the teacher revises them
    RankingModes,       \* task.rule_pruning_mode
    MaxFailureCases,    \* task.refinement_max_failure_cases
    MaxAnswer           \* bound on the entries in an answer of the teacher

\* Every rule has its fields, whatever the teacher says in the ones it returns.
ASSUME SelectAndRefineAssumption ==
    /\ Cases \subseteq Nat /\ IsFiniteSet(Cases) /\ MaxFailureCases \in Nat
    /\ MaxAnswer \in Nat
    /\ \A r \in Contents \cup Revisions : IsRule(r)

VARIABLES
    at,         \* the step that comes next
    splits,     \* the split of every case
    base,       \* case results of the baseline
    evals,      \* case results per candidate that was evaluated
    tokens,     \* prompt tokens per candidate
    gates,      \* gate results per candidate
    selected,   \* the selected strategy
    analysis,   \* the failure analysis
    rules,      \* the rules of the selected strategy, then the current ones
    shown       \* the ids of the rules the teacher is shown, and its answer

vars == <<at, splits, base, evals, tokens, gates, selected, analysis, rules, shown>>

Empty == <<>>

\* RefinementResult, with no actions and no revised rules.
NoAnswer == [actions |-> Empty, revised |-> Empty]

\* The label a case expects is its number.
Expected == [c \in Cases |-> c]

\* One assertion per case, on its label.
Outcome(c) == {Pass, Malformed, Fail({c})}
Evaluations(S) == {r \in [S -> UNION {Outcome(c) : c \in S}] : \A c \in S : r[c] \in Outcome(c)}

\* In the phases of the workflow the case results of baseline_scaffold are missing.
Baselines(S) == Evaluations(S) \cup {[c \in S |-> Missing]}

AllSplits == {s \in [Cases -> {"validation", "golden"}] : s[1] = "golden" => s[2] = "golden"}

Init ==
    /\ at = "gates"
    /\ splits \in AllSplits
    /\ base \in Baselines(EvaluationCases(splits))
    /\ \E S \in SUBSET Range(Candidates) :
          /\ evals \in [S -> Evaluations(EvaluationCases(splits))]
          /\ tokens \in [S -> {MaxTokens, MaxTokens + 1}]
    /\ gates = Empty /\ selected = "none" /\ analysis = Empty /\ rules = Empty
    /\ shown = [ids |-> {}, answer |-> NoAnswer]

CheckGates ==
    /\ at = "gates"
    /\ gates' = [s \in DOMAIN evals |-> Gate(evals[s], base, splits, tokens[s])]
    /\ at' = "select"
    /\ UNCHANGED <<splits, base, evals, tokens, selected, analysis, rules, shown>>

SelectOne ==
    /\ at = "select"
    /\ selected' = SelectStrategy(evals, gates, tokens)
    /\ at' = "selected"
    /\ UNCHANGED <<splits, base, evals, tokens, gates, analysis, rules, shown>>

\* get_selected_synthesized_rules_for_job; a baseline has no rules, and its failures
\* are not analysed.
Analyze ==
    /\ at = "selected" /\ selected \in {"dbscan", "hdbscan"}
    /\ \E a, b \in Contents :
          rules' = <<WithId(a, <<1>>), WithId(b, <<2>>)>>
    /\ analysis' = Analyzed(rules', base, evals[selected], Expected)
    /\ at' = "ask"
    /\ splits' = Empty /\ base' = Empty /\ evals' = Empty /\ tokens' = Empty /\ gates' = Empty
    /\ UNCHANGED <<selected, shown>>

Actions ==
    {[rule |-> id, kind |-> k, revised |-> v] :
        id \in {<<1>>, <<2>>}, k \in {"keep", "discard"}, v \in {<<>>}}
    \cup {[rule |-> id, kind |-> "modify", revised |-> v] :
        id \in {<<1>>, <<2>>}, v \in {<<>>} \cup {<<r>> : r \in Revisions}}
    \cup {[rule |-> id, kind |-> "split", revised |-> v] :
        id \in {<<1>>, <<2>>}, v \in {<<>>} \cup {<<r, q>> : r, q \in Revisions}}

\* RuleRevision of revised_rules, which the schema of the answer still has.
RuleRevisions == [rule: {<<1>>, <<2>>}, revised: Revisions]

Answers ==
    UNION {[actions: [1..n[1] -> Actions], revised: [1..n[2] -> RuleRevisions]] :
              n \in {k \in (0..MaxAnswer) \X (0..MaxAnswer) : k[1] + k[2] <= MaxAnswer}}

\* Without signals there is nothing to refine; without a failure in the sample that
\* rules answer for the teacher is not asked.  The loop ends without an action and
\* without a revised rule.
AskTeacher ==
    /\ at = "ask" /\ Signals(analysis) # Empty
    /\ LET fit == IF Cardinality(Attributable(analysis)) < MaxFailureCases
                  THEN Cardinality(Attributable(analysis)) ELSE MaxFailureCases
       IN \E sample \in {S \in SUBSET Attributable(analysis) : Cardinality(S) = fit} :
             LET ids == {r.id : r \in Range(rules)} \cap Implicated(analysis, sample) IN
             /\ ids # {}
             /\ \E answer \in Answers :
                   /\ Accepted(answer, ids) # NoAnswer
                   /\ shown' = [ids |-> ids, answer |-> Accepted(answer, ids)]
    /\ at' = "apply"
    /\ UNCHANGED <<splits, base, evals, tokens, gates, selected, analysis, rules>>

ApplyActions ==
    /\ at = "apply"
    /\ rules' = Applied(rules, shown.answer)
    /\ at' = "prune"
    /\ UNCHANGED <<splits, base, evals, tokens, gates, selected, analysis, shown>>

\* Nothing left by pruning ends the loop and the rules stay as they were.
Prune ==
    /\ at = "prune"
    /\ \E mode \in RankingModes : rules' = Pruned(rules, mode, Signals(analysis))
    /\ at' = "pruned"
    /\ UNCHANGED <<splits, base, evals, tokens, gates, selected, analysis, shown>>

Next == CheckGates \/ SelectOne \/ Analyze \/ AskTeacher \/ ApplyActions \/ Prune

Spec == Init /\ [][Next]_vars

-----------------------------------------------------------------------------

\* The strategy that is selected passes its gates if any candidate does; its metric is
\* within the tolerance of the best of those it competes with; and who competes with a
\* metric as good has as many golden failures or more.  The baseline is selected only
\* when there is nothing else.  (select_strategy_generic, check_quality_gates)
SelectionSound ==
    at = "selected" =>
        LET passing == {s \in DOMAIN gates : gates[s].passed}
            rivals == IF passing = {} THEN DOMAIN gates ELSE passing
            best == {s \in rivals : \A t \in rivals : Score(evals[t]) <= Score(evals[s])}
        IN IF rivals = {} THEN selected = "baseline_scaffold"
           ELSE /\ selected \in rivals
                /\ \A s \in best : /\ Score(evals[s]) <= Score(evals[selected]) + ScoreEpsilon
                                   /\ gates[selected].golden <= gates[s].golden

\* The signals of a rule count the cases themselves: fixed are cases that the baseline
\* is known to have failed and that pass, broken ones it is known to have passed and
\* that fail; a rule without signals answers for neither, nor for any other failure.
\* (analyze_failures, build_utility_signals)
SignalsCountCases ==
    [][at = "selected" =>
          LET now == evals[selected]
              Governs(r) == {c \in DOMAIN now : Expected[c] \in r.labels}
              fixed == {c \in DOMAIN now : base[c].stored /\ ~base[c].passed /\ now[c].passed}
              broken == {c \in DOMAIN now : base[c].passed /\ now[c].failed # {}}
              failing == {c \in DOMAIN now : now[c].failed # {}}
              signals == Signals(analysis')
          IN \A r \in Range(rules') :
                IF r.id \in DOMAIN signals
                THEN /\ signals[r.id].fixed = Cardinality(fixed \cap Governs(r))
                     /\ signals[r.id].broken = Cardinality(broken \cap Governs(r))
                ELSE Governs(r) \cap (fixed \cup failing) = {}]_vars

\* The rule failed a case that the teacher may have been shown.
AnswersFor(r, a) == \E c \in DOMAIN a : r.id \in a[c].violated

\* An action of the teacher changes only a rule that answers for a failing case, whatever
\* it returns: every other rule is still there, as it was.  An answer without an accepted
\* action may name any rule in its revised rules, and leaves those it does not name, and
\* number, order and ids of all.  No two rules get the same id.
\* (refine_rules_with_teacher, apply_refinements)
OnlyImplicatedChange ==
    [][at = "apply" =>
          /\ IF shown.answer.actions # Empty
             THEN \A r \in Range(rules) : ~AnswersFor(r, analysis) => r \in Range(rules')
             ELSE /\ DOMAIN rules' = DOMAIN rules
                  /\ \A i \in DOMAIN rules :
                        /\ rules'[i].id = rules[i].id
                        /\ Named(shown.answer.revised, rules[i].id) = {} => rules'[i] = rules[i]
          /\ \A i, j \in DOMAIN rules' : rules'[i].id = rules'[j].id => i = j]_vars

\* Whatever the answer, a rule that answers for no failing case stays as it is.  The
\* teacher is asked for "the implicated rule IDs only, leaving unrelated rules untouched"
\* (src/docs/specs/SPEC_close_conflict_resolution_loop.md:160); the revised rules of an
\* answer without an accepted action are not held to it, and TLC refutes this.
UnrelatedUntouched ==
    [][at = "apply" =>
          \A r \in Range(rules) : ~AnswersFor(r, analysis) => r \in Range(rules')]_vars

Total(S) == FoldSet(LAMBDA r, sum : sum + Cost(r), 0, S)

\* Pruned rules are within both limits, and each rule that was left out in spite of its
\* support has been left out for rules of its priority or before it: they fill the cap,
\* or leave no room for it in the prompt.  (prune_rules)
PruningSound ==
    [][at = "prune" =>
          LET kept == Range(rules')
              Before(S, r) == {q \in S : q.priority <= r.priority}
          IN /\ kept \subseteq Range(rules) /\ Len(rules') <= MaxRules
             /\ Total(kept) <= MaxPromptTokens
             /\ \A r \in {q \in Range(rules) : Eligible(q)} \ kept :
                   \/ Cardinality(Before({q \in Range(rules) : Eligible(q)} \ {r}, r)) >= MaxRules
                   \/ Total(Before(kept, r)) + Cost(r) > MaxPromptTokens]_vars

\* A candidate that fails a golden case, or was not tried on it, does not pass its gates
\* and is not promoted.
GoldenCasesPass ==
    at = "selected" /\ selected \in DOMAIN gates /\ gates[selected].passed =>
        \A c \in Cases : splits[c] = "golden" =>
            c \in DOMAIN evals[selected] /\ evals[selected][c].passed
=============================================================================
