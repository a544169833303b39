---------------------------- MODULE RulePruning ----------------------------
(***************************************************************************)
(* prune_rules of pipeline/rule_pruning.py: which of a list of rules go    *)
(* into the prompt.  A rule is a record; its text is known by its tokens.  *)
(***************************************************************************)
EXTENDS Integers, Sequences, FiniteSets, SequencesExt

CONSTANTS
    MaxRules,           \* task.max_rules
    MaxPromptTokens,    \* task.max_prompt_tokens
    MinSupport,         \* task.min_rule_support_count
    Penalty             \* task.rule_regression_penalty

ASSUME PruningAssumption == MaxRules \in Nat /\ MaxPromptTokens \in Nat /\ Penalty \in Int

\* estimated: estimated_token_count, 0 when the teacher left it out; text: the tokens
\* that count_tokens_approx finds.  labels: the outcomes of the rule.
IsRule(r) ==
    /\ {"id", "priority", "support", "ratio", "estimated", "text"} \subseteq DOMAIN r
    /\ r.priority \in Int /\ r.support \in Int /\ r.ratio \in Int
    /\ r.estimated \in Nat /\ r.text \in Nat

Cost(r) == IF r.estimated # 0 THEN r.estimated ELSE r.text

\* _utility_score: a rule without signals is worth its support.
Utility(r, signals) ==
    IF r.id \in DOMAIN signals THEN signals[r.id].fixed - Penalty * signals[r.id].broken
    ELSE r.support

Divisor(r) == IF r.estimated # 0 THEN r.estimated ELSE 1

\* r before q in the order of a mode.  The call in the loop has no signals of a
\* classroom, and the two modes of a classroom fall back to the support.
Better(r, q, mode, signals) ==
    CASE mode \in {"utility", "anchor_utility"} -> Utility(r, signals) > Utility(q, signals)
      [] mode = "utility_per_token" ->
            Utility(r, signals) * Divisor(q) > Utility(q, signals) * Divisor(r)
      [] mode \in {"mean_classroom_utility", "worst_student_utility"} -> r.support > q.support
      [] OTHER -> r.support > q.support \/ (r.support = q.support /\ r.ratio > q.ratio)

Outranks(r, q, mode, signals) ==
    \/ r.priority < q.priority
    \/ r.priority = q.priority /\ Better(r, q, mode, signals)

Eligible(r) == ~r.conflicts /\ (r.support >= MinSupport \/ r.golden)

\* The sort is stable.
Precedes(rules, i, j, mode, signals) ==
    \/ Outranks(rules[i], rules[j], mode, signals)
    \/ i < j /\ ~Outranks(rules[j], rules[i], mode, signals)

\* The rules that can stay, sorted: a rule comes after as many as precede it.
Ranked(rules, mode, signals) ==
    LET able == {i \in DOMAIN rules : Eligible(rules[i])}
        Behind(i) == Cardinality({j \in able : Precedes(rules, j, i, mode, signals)})
    IN [n \in 1..Cardinality(able) |-> rules[CHOOSE i \in able : Behind(i) = n - 1]]

\* Mutant: the first rule over the budget ends the list.
CutAtBudget(rules) ==
    FoldLeft(LAMBDA acc, r :
                IF acc.used + Cost(r) > MaxPromptTokens
                THEN [acc EXCEPT !.used = MaxPromptTokens]
                ELSE [used |-> acc.used + Cost(r), kept |-> Append(acc.kept, r)],
             [used |-> 0, kept |-> <<>>], rules).kept

\* A rule that does not fit is passed over; a later one may fit.
WithinBudget(rules) ==
    FoldLeft(LAMBDA acc, r :
                IF acc.used + Cost(r) > MaxPromptTokens THEN acc
                ELSE [used |-> acc.used + Cost(r), kept |-> Append(acc.kept, r)],
             [used |-> 0, kept |-> <<>>], rules).kept

Capped(rules) == SubSeq(rules, 1, IF Len(rules) > MaxRules THEN MaxRules ELSE Len(rules))

Pruned(rules, mode, signals) ==
    WithinBudget(Capped(Ranked(rules, mode, signals)))
=============================================================================
