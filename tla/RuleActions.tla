---------------------------- MODULE RuleActions ----------------------------
(***************************************************************************)
(* apply_refinements of pipeline/rule_refinement.py: what the teacher's    *)
(* answer makes of the rules.  An answer is a RefinementResult: `actions`, *)
(* and `revised`, the revised_rules of its first version.  An id is a      *)
(* sequence: the rule i of a split of `id` is Append(id, i), which the     *)
(* code writes id__refined_i.                                              *)
(***************************************************************************)
EXTENDS Integers, Sequences, FiniteSets, SequencesExt, FiniteSetsExt

Named(entries, id) == {i \in DOMAIN entries : entries[i].rule = id}

\* actions_by_id and revised_by_id keep the last entry for a rule.
LastFor(entries, id) == entries[Max(Named(entries, id))]

WithId(r, id) == [r EXCEPT !.id = id]

\* What stands in the place of a rule: an action that does not have the rules it needs
\* leaves it as it is.
Replacement(r, actions) ==
    LET action == LastFor(actions, r.id)
        revised == action.revised
    IN IF Named(actions, r.id) = {} THEN <<r>>
       ELSE CASE action.kind = "modify" /\ Len(revised) = 1 -> <<WithId(revised[1], r.id)>>
              [] action.kind = "split" /\ revised # <<>> ->
                    [i \in DOMAIN revised |-> WithId(revised[i], Append(r.id, i))]
              [] action.kind = "discard" -> <<>>
              [] OTHER -> <<r>>

ActionsApplied(rules, actions) ==
    FlattenSeq([i \in DOMAIN rules |-> Replacement(rules[i], actions)])

\* The first version of an answer has one revised rule for a rule.
Revised(r, entries) ==
    IF Named(entries, r.id) = {} THEN r ELSE WithId(LastFor(entries, r.id).revised, r.id)

\* Where there is no action the revised rules count.
Applied(rules, answer) ==
    IF answer.actions # <<>> THEN ActionsApplied(rules, answer.actions)
    ELSE [i \in DOMAIN rules |-> Revised(rules[i], answer.revised)]

\* Mutant: the actions are taken as the teacher gave them.
AcceptedAll(answer, implicated) == answer

\* Actions on rules that the teacher was not shown are rejected, and the others keep
\* their places; revised rules are not looked at.
Accepted(answer, implicated) ==
    [answer EXCEPT !.actions =
        Restrict(@, {i \in DOMAIN answer.actions : answer.actions[i].rule \in implicated})]
=============================================================================
