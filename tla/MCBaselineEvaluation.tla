------------------------ MODULE MCBaselineEvaluation ------------------------
(* Two cases, one strategy of few-shot prompts and one of neighbours. *)
EXTENDS BaselineEvaluation, TLC

FewShotOne == <<"few_shot_3">>
KnnNone == <<>>
KnnOne == <<"knn_3">>

\* No definition tells the evaluation cases apart.
CaseSymmetry == Permutations(Cases)
=============================================================================
