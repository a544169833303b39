-------------------------- MODULE FailureAnalysis --------------------------
(***************************************************************************)
(* pipeline/failure_analysis.py: what became of each case between the      *)
(* baseline and the selected strategy, and the rules that answer for it.   *)
(* A case result is a record with the labels of its failed assertions; a   *)
(* malformed answer fails without any.                                     *)
(***************************************************************************)
EXTENDS Integers, Sequences, FiniteSets, Functions

Unattributed == <<>>        \* UNATTRIBUTED_RULE_ID

Missing == [passed |-> FALSE, failed |-> {}, stored |-> FALSE]
Pass == [passed |-> TRUE, failed |-> {}, stored |-> TRUE]
Malformed == [passed |-> FALSE, failed |-> {}, stored |-> TRUE]
Fail(labels) == [passed |-> FALSE, failed |-> labels, stored |-> TRUE]

\* Mutant: a missing result of the baseline is one it failed.
ClassMissingFailed(b, d) ==
    IF d.passed THEN IF b.passed THEN "unchanged_correct" ELSE "fixed"
    ELSE IF b.passed THEN "broken" ELSE "unchanged_wrong"

Class(b, d) ==
    IF b.stored /\ b.passed # d.passed THEN IF d.passed THEN "fixed" ELSE "broken"
    ELSE IF d.passed THEN "unchanged_correct" ELSE "unchanged_wrong"

\* _build_outcome_to_rule_ids: the rules that govern some of the labels.
Governing(rules, labels) == {r.id : r \in {q \in Range(rules) : q.labels \cap labels # {}}}

\* Mutant: a failure without a rule is left without the sentinel.
ViolatedOrNone(rules, failed) == Governing(rules, failed)

Violated(rules, failed) ==
    IF Governing(rules, failed) = {} /\ failed # {} THEN {Unattributed}
    ELSE Governing(rules, failed)

\* _add_structured_failure; label is what the case expects.
Failure(rules, b, d, label) ==
    [class |-> Class(b, d),
     matched |-> IF d.passed THEN Governing(rules, {label}) ELSE {},
     violated |-> IF d.passed THEN {} ELSE Violated(rules, d.failed)]

Analyzed(rules, base, eval, label) ==
    [c \in DOMAIN eval |-> Failure(rules, base[c], eval[c], label[c])]

Having(analysis, class) == {c \in DOMAIN analysis : analysis[c].class = class}

\* violated_rule_summary and build_utility_signals: rules that only match a case that
\* was correct before have no signals.
Signals(analysis) ==
    LET fixed == Having(analysis, "fixed")
        ids == UNION ({analysis[c].matched : c \in fixed}
                          \cup {analysis[c].violated : c \in DOMAIN analysis})
    IN [id \in ids \ {Unattributed} |->
           [fixed |-> Cardinality({c \in fixed : id \in analysis[c].matched}),
            broken |-> Cardinality({c \in Having(analysis, "broken") :
                                       id \in analysis[c].violated})]]

\* refine_rules_with_teacher: the failures that rules answer for.
Attributable(analysis) ==
    {c \in Having(analysis, "broken") \cup Having(analysis, "unchanged_wrong") :
        analysis[c].violated \notin {{}, {Unattributed}}}

Implicated(analysis, sample) == UNION {analysis[c].violated : c \in sample} \ {Unattributed}
=============================================================================
