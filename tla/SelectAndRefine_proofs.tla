----------------------- MODULE SelectAndRefine_proofs -----------------------
(***************************************************************************)
(* Proofs about SelectAndRefine: what the selection promises, what the     *)
(* signals of a rule count, which rules the teacher can change, and which  *)
(* rules are pruned.                                                       *)
(***************************************************************************)
EXTENDS SelectAndRefine, FiniteSetTheorems, SequenceTheorems,
        WellFoundedInduction, TLAPS

Names == {"baseline_few_shot_k3", "dbscan", "hdbscan"}

LEMMA CandidateNames == Range(Candidates) = Names
  BY DEF Range, Candidates, Names

-----------------------------------------------------------------------------
(* The tie-breaks *)

\* Some candidate has the lowest measure.
LEMMA SomeLowest ==
    ASSUME NEW S \in SUBSET Names, S # {}, NEW m, \A s \in S : m[s] \in Int, NEW slack \in Nat
    PROVE  Lowest(S, m, slack) # {} /\ Lowest(S, m, slack) \subseteq S
<1> DEFINE Least(T) == \E s \in T : \A t \in T : m[s] <= m[t]
<1>0. ASSUME NEW T \in SUBSET S, NEW x \in S, T = {} \/ Least(T) PROVE Least(T \cup {x})
  <2>1. CASE T = {}
    BY <2>1
  <2>2. CASE Least(T)
    <3>1. PICK s \in T : \A t \in T : m[s] <= m[t]
      BY <2>2
    <3>2. m[s] \in Int /\ m[x] \in Int /\ \A t \in T : m[t] \in Int
      OBVIOUS
    <3> QED
      BY <3>1, <3>2
  <2> QED
    BY <1>0, <2>1, <2>2
<1>1. Least(S)
  <2> DEFINE Only(T, x) == IF x \in S THEN T \cup {x} ELSE T
             one == Only({}, "baseline_few_shot_k3")
             two == Only(one, "dbscan")
             three == Only(two, "hdbscan")
  <2>1. ASSUME NEW T \in SUBSET S, NEW x, T = {} \/ Least(T)
        PROVE  Only(T, x) \subseteq S /\ (Only(T, x) = {} \/ Least(Only(T, x)))
    <3>1. CASE x \notin S
      BY <2>1, <3>1
    <3>2. CASE x \in S
      BY <1>0, <2>1, <3>2
    <3> QED
      BY <3>1, <3>2
  <2>2. three = S
    BY DEF Names
  <2> HIDE DEF Only, Least
  <2>3. three \subseteq S /\ (three = {} \/ Least(three))
    BY <2>1
  <2> HIDE DEF three
  <2> QED
    BY <2>2, <2>3
<1> QED
  BY <1>1 DEF Lowest

\* The first of some candidates is one of them.
LEMMA FirstIsOne ==
    ASSUME NEW S \in SUBSET Names, S # {}
    PROVE  First(S) \in S
<1> DEFINE places == {i \in DOMAIN Candidates : Candidates[i] \in S}
<1>1. /\ DOMAIN Candidates = 1..3 /\ Candidates[1] = "baseline_few_shot_k3"
      /\ Candidates[2] = "dbscan" /\ Candidates[3] = "hdbscan"
  BY DEF Candidates
<1>2. \E i \in places : \A j \in places : i <= j
  <2>1. places \subseteq 1..3 /\ (1 \in places \/ 2 \in places \/ 3 \in places)
    <3>1. PICK s \in S : s \in Names
      OBVIOUS
    <3>2. s = Candidates[1] \/ s = Candidates[2] \/ s = Candidates[3]
      BY <1>1, <3>1 DEF Names
    <3> QED
      BY <1>1, <3>2
  <2> HIDE DEF places
  <2> QED
    BY <2>1
<1> QED
  BY <1>2 DEF First

\* The numbers that candidates are compared by.
Measured(C, evals_, gates_, tokens_) ==
    \A s \in C : /\ Score(evals_[s]) \in Nat /\ Cardinality(MalformedCases(evals_[s])) \in Nat
                 /\ gates_[s].golden \in Nat /\ tokens_[s] \in Int

LEMMA TieBrokenIsSome ==
    ASSUME NEW S \in SUBSET Names, S # {}, NEW ev, NEW ga, NEW to, Measured(S, ev, ga, to)
    PROVE  /\ TieBroken(S, ev, ga, to) # {} /\ TieBroken(S, ev, ga, to) \subseteq S
           /\ \A s \in TieBroken(S, ev, ga, to), t \in S : ga[s].golden <= ga[t].golden
<1> DEFINE byGolden == [s \in S |-> ga[s].golden]
           golden == Lowest(S, byGolden, 0)
           byForm == [s \in S |-> Cardinality(MalformedCases(ev[s]))]
           formed == Lowest(golden, byForm, 0)
<1>1. /\ \A s \in S : byGolden[s] = ga[s].golden /\ byGolden[s] \in Int /\ byForm[s] \in Int
      /\ \A s \in S : to[s] \in Int
  BY DEF Measured
<1>2. golden # {} /\ golden \subseteq S
  BY <1>1, SomeLowest
<1>3. formed # {} /\ formed \subseteq golden
  BY <1>1, <1>2, SomeLowest
<1>4. Lowest(formed, to, 0) # {} /\ Lowest(formed, to, 0) \subseteq formed
  BY <1>1, <1>2, <1>3, SomeLowest
<1>5. \A s \in golden, t \in S : ga[s].golden <= ga[t].golden
  BY <1>1 DEF Lowest
<1> QED
  BY <1>2, <1>3, <1>4, <1>5 DEF TieBroken

-----------------------------------------------------------------------------
(* What is known until the strategy is selected *)

\* The evaluated cases are cases of the job, and every candidate was tried on all of them.
Evaluated ==
    at \in {"gates", "select", "selected"} =>
        /\ splits \in AllSplits
        /\ base \in Baselines(EvaluationCases(splits))
        /\ \E S \in SUBSET Range(Candidates) :
              /\ evals \in [S -> Evaluations(EvaluationCases(splits))]
              /\ tokens \in [S -> {MaxTokens, MaxTokens + 1}]

Gated ==
    at \in {"select", "selected"} =>
        gates = [s \in DOMAIN evals |-> Gate(evals[s], base, splits, tokens[s])]

Chosen == at = "selected" => selected = SelectStrategy(evals, gates, tokens)

ChoiceInv == Evaluated /\ Gated /\ Chosen

LEMMA ChoiceStep == ChoiceInv /\ [Next]_vars => ChoiceInv'
<1> SUFFICES ASSUME ChoiceInv, [Next]_vars PROVE ChoiceInv'
  OBVIOUS
<1> USE DEF ChoiceInv
<1>1. CASE CheckGates
  BY <1>1 DEF CheckGates, Evaluated, Gated, Chosen
<1>2. CASE SelectOne
  BY <1>2 DEF SelectOne, Evaluated, Gated, Chosen
<1>3. CASE Analyze \/ AskTeacher \/ ApplyActions \/ Prune
  <2>1. at' \notin {"gates", "select", "selected"}
    BY <1>3 DEF Analyze, AskTeacher, ApplyActions, Prune
  <2> QED
    BY <2>1 DEF Evaluated, Gated, Chosen
<1>4. CASE UNCHANGED vars
  BY <1>4 DEF vars, Evaluated, Gated, Chosen
<1> QED
  BY <1>1, <1>2, <1>3, <1>4 DEF Next

LEMMA ChoiceHolds == Spec => []ChoiceInv
<1>1. Init => ChoiceInv
  BY DEF Init, ChoiceInv, Evaluated, Gated, Chosen
<1> QED
  BY <1>1, ChoiceStep, PTL DEF Spec

\* The cases of an evaluation can be counted.
LEMMA Counted ==
    ASSUME NEW E \in SUBSET Cases, NEW r \in Evaluations(E), NEW sp
    PROVE  /\ Score(r) \in Nat /\ Cardinality(MalformedCases(r)) \in Nat
           /\ GoldenFailures(r, sp) \in Nat
<1>1. IsFiniteSet(E) /\ DOMAIN r = E
  BY SelectAndRefineAssumption, FS_Subset DEF Evaluations
<1>2. \A T \in SUBSET E : Cardinality(T) \in Nat
  BY <1>1, FS_Subset, FS_CardinalityType
<1>3. /\ PassedCases(r) \subseteq E /\ MalformedCases(r) \subseteq E
      /\ {c \in DOMAIN r : sp[c] = "golden" /\ ~r[c].passed} \subseteq E
  BY <1>1 DEF PassedCases, MalformedCases
<1> QED
  BY <1>2, <1>3 DEF Score, GoldenFailures

LEMMA ChoiceIsSound == ChoiceInv => SelectionSound
<1> SUFFICES ASSUME ChoiceInv, at = "selected" PROVE SelectionSound
  BY DEF SelectionSound
<1> DEFINE passing == {s \in DOMAIN gates : gates[s].passed}
           rivals == IF passing = {} THEN DOMAIN gates ELSE passing
           best == {s \in rivals : \A t \in rivals : Score(evals[t]) <= Score(evals[s])}
           contenders == Contenders(rivals, evals)
           minus == [s \in rivals |-> -Score(evals[s])]
<1>1. PICK S \in SUBSET Names :
          /\ evals \in [S -> Evaluations(EvaluationCases(splits))]
          /\ tokens \in [S -> {MaxTokens, MaxTokens + 1}]
  BY CandidateNames DEF ChoiceInv, Evaluated
<1>2. EvaluationCases(splits) \subseteq Cases
  BY DEF ChoiceInv, Evaluated, AllSplits, EvaluationCases
<1>3. /\ gates = [s \in S |-> Gate(evals[s], base, splits, tokens[s])]
      /\ selected = SelectStrategy(evals, gates, tokens)
  BY <1>1 DEF ChoiceInv, Gated, Chosen
<1>4. Measured(S, evals, gates, tokens)
  <2> SUFFICES ASSUME NEW s \in S
               PROVE  /\ Score(evals[s]) \in Nat
                      /\ Cardinality(MalformedCases(evals[s])) \in Nat
                      /\ gates[s].golden \in Nat /\ tokens[s] \in Int
    BY DEF Measured
  <2>1. evals[s] \in Evaluations(EvaluationCases(splits)) /\ tokens[s] \in Int
    BY <1>1, SelectionAssumption
  <2>2. gates[s].golden = GoldenFailures(evals[s], splits)
    BY <1>3 DEF Gate
  <2> QED
    BY <1>2, <2>1, <2>2, Counted
<1>5. rivals \subseteq S /\ rivals = Pool(gates) /\ (rivals = {} <=> DOMAIN gates = {})
  BY <1>3 DEF Pool
<1>6. ASSUME rivals # {}
      PROVE  /\ selected \in rivals
             /\ \A s \in best : /\ Score(evals[s]) <= Score(evals[selected]) + ScoreEpsilon
                                /\ gates[selected].golden <= gates[s].golden
  <2> HIDE DEF rivals
  <2>1. /\ rivals \subseteq Names /\ Measured(rivals, evals, gates, tokens)
        /\ \A s \in rivals : Score(evals[s]) \in Nat /\ minus[s] = -Score(evals[s])
        /\ ScoreEpsilon \in Nat
    BY <1>4, <1>5, SelectionAssumption DEF Measured
  <2>2. contenders # {} /\ contenders \subseteq rivals
    <3>1. \A s \in rivals : minus[s] \in Int
      BY <2>1
    <3>2. contenders = Lowest(rivals, minus, ScoreEpsilon)
      BY DEF Contenders
    <3> HIDE DEF minus, contenders
    <3> QED
      BY <1>6, <2>1, <3>1, <3>2, SomeLowest
  <2>3. /\ best \subseteq contenders
        /\ \A s \in rivals, t \in contenders :
              Score(evals[s]) <= Score(evals[t]) + ScoreEpsilon
    BY <2>1 DEF Contenders, Lowest
  <2>4. Measured(contenders, evals, gates, tokens)
    BY <2>1, <2>2 DEF Measured
  <2> HIDE DEF contenders
  <2>5. LET T == TieBroken(contenders, evals, gates, tokens)
        IN /\ T # {} /\ T \subseteq contenders /\ selected = First(T)
           /\ \A s \in T, t \in contenders : gates[s].golden <= gates[t].golden
    <3>1. selected = First(TieBroken(contenders, evals, gates, tokens))
      BY <1>3, <1>5, <1>6 DEF SelectStrategy, contenders
    <3> QED
      BY <2>1, <2>2, <2>4, <3>1, TieBrokenIsSome
  <2>6. /\ selected \in contenders
        /\ \A t \in contenders : gates[selected].golden <= gates[t].golden
    BY <2>1, <2>2, <2>5, FirstIsOne
  <2> QED
    BY <2>2, <2>3, <2>6
<1>7. rivals = {} => selected = "baseline_scaffold"
  BY <1>3, <1>5 DEF SelectStrategy
<1> QED
  BY <1>6, <1>7 DEF SelectionSound

\* Whatever the candidates are evaluated to, the selection is sound: one that passes its
\* gates if any does, within the tolerance of the best, with the fewest golden failures.
THEOREM SelectionHolds == Spec => []SelectionSound
  BY ChoiceHolds, ChoiceIsSound, PTL

-----------------------------------------------------------------------------
(* What the signals of a rule count *)

\* The part of a rule in the failure analysis of a case.
LEMMA PartOfRule ==
    ASSUME NEW E \in SUBSET Cases, NEW now \in Evaluations(E), NEW was \in Baselines(E),
           NEW rs, \A q, r \in Range(rs) : q.id = r.id => q = r,
           NEW r \in Range(rs), r.id # Unattributed, NEW c \in E
    PROVE  LET f == Analyzed(rs, was, now, Expected)[c] IN
           /\ f.class = "fixed" <=> was[c].stored /\ ~was[c].passed /\ now[c].passed
           /\ f.class = "broken" <=> was[c].passed /\ ~now[c].passed
           /\ r.id \in f.matched <=> now[c].passed /\ Expected[c] \in r.labels
           /\ r.id \in f.violated <=> now[c].failed # {} /\ Expected[c] \in r.labels
           /\ now[c].passed => now[c].failed = {}
<1> DEFINE f == Analyzed(rs, was, now, Expected)[c]
<1>1. now[c] \in Outcome(c) /\ was[c] \in Outcome(c) \cup {Missing}
  BY DEF Evaluations, Baselines
<1>2. /\ now[c].passed \in BOOLEAN /\ now[c].failed \in {{}, {c}}
      /\ now[c].passed => now[c].failed = {}
      /\ was[c].passed \in BOOLEAN /\ was[c].stored \in BOOLEAN
      /\ was[c].passed => was[c].stored
  <2>1. now[c] \in {Pass, Malformed, Fail({c})}
    BY <1>1 DEF Outcome
  <2>2. was[c] \in {Pass, Malformed, Fail({c}), Missing}
    BY <1>1 DEF Outcome
  <2>3. ASSUME NEW x \in {Pass, Malformed, Fail({c}), Missing}
        PROVE  /\ x.passed \in BOOLEAN /\ x.failed \in {{}, {c}} /\ x.stored \in BOOLEAN
               /\ x.passed => x.failed = {} /\ x.stored
    <3>1. x = Pass \/ x = Malformed \/ x = Missing \/ x = Fail({c})
      BY <2>3
    <3>2. /\ x.passed = (x = Pass) /\ x.stored = (x # Missing)
          /\ x.failed = IF x = Fail({c}) THEN {c} ELSE {}
      <4>1. CASE x = Pass
        BY <4>1 DEF Pass, Fail, Missing
      <4>2. CASE x = Malformed
        BY <4>2 DEF Pass, Malformed, Fail, Missing
      <4>3. CASE x = Missing
        BY <4>3 DEF Pass, Fail, Missing
      <4>4. CASE x = Fail({c})
        BY <4>4 DEF Pass, Fail, Missing
      <4> QED
        BY <3>1, <4>1, <4>2, <4>3, <4>4
    <3>3. Pass # Fail({c}) /\ Pass # Missing
      BY DEF Pass, Fail, Missing
    <3> QED
      BY <3>2, <3>3
  <2> QED
    BY <2>1, <2>2, <2>3
<1>3. f = Failure(rs, was[c], now[c], Expected[c]) /\ Expected[c] = c
  BY DEF Analyzed, Evaluations, Expected
<1>4. /\ f.class = Class(was[c], now[c])
      /\ f.matched = IF now[c].passed THEN Governing(rs, {Expected[c]}) ELSE {}
      /\ f.violated = IF now[c].passed THEN {} ELSE Violated(rs, now[c].failed)
  BY <1>3 DEF Failure
<1>5. \A labels : r.id \in Governing(rs, labels) <=> r.labels \cap labels # {}
  BY DEF Governing
<1>6. \A labels : r.id \in Violated(rs, labels) <=> r.labels \cap labels # {}
  BY <1>5 DEF Violated
<1>7. /\ r.id \in f.matched <=> now[c].passed /\ Expected[c] \in r.labels
      /\ r.id \in f.violated <=> now[c].failed # {} /\ Expected[c] \in r.labels
  BY <1>2, <1>3, <1>4, <1>5, <1>6
<1>8. /\ f.class = "fixed" <=> was[c].stored /\ ~was[c].passed /\ now[c].passed
      /\ f.class = "broken" <=> was[c].passed /\ ~now[c].passed
  BY <1>2, <1>4 DEF Class
<1> QED
  BY <1>2, <1>7, <1>8

\* The signals of a rule, given the results of the strategy and of the baseline.
CountsCases(r, signals, now, was) ==
    LET Governs(q) == {c \in DOMAIN now : Expected[c] \in q.labels}
        fixed == {c \in DOMAIN now : was[c].stored /\ ~was[c].passed /\ now[c].passed}
        broken == {c \in DOMAIN now : was[c].passed /\ now[c].failed # {}}
        failing == {c \in DOMAIN now : now[c].failed # {}}
    IN IF r.id \in DOMAIN signals
       THEN /\ signals[r.id].fixed = Cardinality(fixed \cap Governs(r))
            /\ signals[r.id].broken = Cardinality(broken \cap Governs(r))
       ELSE Governs(r) \cap (fixed \cup failing) = {}

LEMMA SignalsOfRule ==
    ASSUME NEW E \in SUBSET Cases, NEW now \in Evaluations(E), NEW was \in Baselines(E),
           NEW rs, \A q, r \in Range(rs) : q.id = r.id => q = r,
           NEW r \in Range(rs), r.id # Unattributed
    PROVE  CountsCases(r, Signals(Analyzed(rs, was, now, Expected)), now, was)
<1> DEFINE a == Analyzed(rs, was, now, Expected)
           governed == {c \in E : Expected[c] \in r.labels}
           fixed == {c \in E : was[c].stored /\ ~was[c].passed /\ now[c].passed}
           broken == {c \in E : was[c].passed /\ now[c].failed # {}}
           failing == {c \in E : now[c].failed # {}}
           ids == UNION ({a[c].matched : c \in Having(a, "fixed")}
                             \cup {a[c].violated : c \in DOMAIN a})
<1>1. DOMAIN a = E
  BY DEF Analyzed, Evaluations
<1>2. ASSUME NEW c \in E
      PROVE  /\ a[c].class = "fixed" <=> c \in fixed
             /\ a[c].class = "broken" <=> was[c].passed /\ ~now[c].passed
             /\ r.id \in a[c].matched <=> now[c].passed /\ c \in governed
             /\ r.id \in a[c].violated <=> c \in failing \cap governed
             /\ now[c].passed => now[c].failed = {}
  BY PartOfRule
<1> HIDE DEF a
<1>3. {c \in Having(a, "fixed") : r.id \in a[c].matched} = fixed \cap governed
  BY <1>1, <1>2 DEF Having
<1>4. {c \in Having(a, "broken") : r.id \in a[c].violated} = broken \cap governed
  BY <1>1, <1>2 DEF Having
<1>5. r.id \in ids <=> governed \cap (fixed \cup failing) # {}
  BY <1>1, <1>2 DEF Having
<1>6. DOMAIN Signals(a) = ids \ {Unattributed}
  BY DEF Signals
<1>7. r.id \in DOMAIN Signals(a) =>
          /\ Signals(a)[r.id].fixed = Cardinality(fixed \cap governed)
          /\ Signals(a)[r.id].broken = Cardinality(broken \cap governed)
  BY <1>3, <1>4 DEF Signals
<1>8. DOMAIN now = E
  BY DEF Evaluations
<1> QED
  BY <1>5, <1>6, <1>7, <1>8 DEF CountsCases, a

LEMMA OtherId ==
    ASSUME NEW r, IsRule(r), NEW id
    PROVE  WithId(r, id).id = id /\ IsRule(WithId(r, id))
  BY DEF WithId, IsRule

\* A rule of the strategy, with the id it has in the analysis.
RulesOf(rs) ==
    \E a, b \in Contents : rs = <<WithId(a, <<1>>), WithId(b, <<2>>)>>

LEMMA TwoRules ==
    ASSUME NEW rs, RulesOf(rs)
    PROVE  /\ DOMAIN rs = 1..2 /\ rs[1].id = <<1>> /\ rs[2].id = <<2>>
           /\ Range(rs) = {rs[1], rs[2]} /\ rs = <<rs[1], rs[2]>>
           /\ \A q, r \in Range(rs) : q.id = r.id => q = r
           /\ \A r \in Range(rs) : r.id # Unattributed
           /\ IsRule(rs[1]) /\ IsRule(rs[2])
<1>1. PICK a \in Contents, b \in Contents : rs = <<WithId(a, <<1>>), WithId(b, <<2>>)>>
  BY DEF RulesOf
<1>2. /\ WithId(a, <<1>>).id = <<1>> /\ WithId(b, <<2>>).id = <<2>>
      /\ IsRule(WithId(a, <<1>>)) /\ IsRule(WithId(b, <<2>>))
  BY SelectAndRefineAssumption, OtherId
<1>3. /\ DOMAIN rs = 1..2 /\ rs[1].id = <<1>> /\ rs[2].id = <<2>> /\ rs = <<rs[1], rs[2]>>
      /\ IsRule(rs[1]) /\ IsRule(rs[2])
  BY <1>1, <1>2
<1>4. Range(rs) = {rs[1], rs[2]}
  BY <1>3 DEF Range
<1>5. <<1>> # <<2>> /\ <<1>> # <<>> /\ <<2>> # <<>>
  OBVIOUS
<1> QED
  BY <1>3, <1>4, <1>5 DEF Unattributed

\* The results of the selected strategy, of the cases of its evaluation.
LEMMA EvaluatedNow ==
    ASSUME ChoiceInv, Analyze
    PROVE  LET E == EvaluationCases(splits) IN
           E \in SUBSET Cases /\ base \in Baselines(E) /\ evals[selected] \in Evaluations(E)
<1> DEFINE E == EvaluationCases(splits)
<1>0. at = "selected" /\ selected \in {"dbscan", "hdbscan"}
  BY DEF Analyze
<1>1. E \in SUBSET Cases /\ base \in Baselines(E)
  BY <1>0 DEF ChoiceInv, Evaluated, AllSplits, EvaluationCases
<1>2. PICK S \in SUBSET Range(Candidates) : evals \in [S -> Evaluations(E)]
  BY <1>0 DEF ChoiceInv, Evaluated
<1>3. SelectionSound /\ DOMAIN gates = S
  BY <1>0, <1>2, ChoiceIsSound DEF ChoiceInv, Gated
<1>4. selected \in S
  BY <1>0, <1>3 DEF SelectionSound
<1> QED
  BY <1>1, <1>2, <1>4

LEMMA SignalsStep ==
    ASSUME ChoiceInv, [Next]_vars, vars' # vars, at = "selected"
    PROVE  \A r \in Range(rules') :
              CountsCases(r, Signals(analysis'), evals[selected], base)
<1> DEFINE now == evals[selected]
           E == EvaluationCases(splits)
<1>1. Analyze
  BY DEF Next, CheckGates, SelectOne, AskTeacher, ApplyActions, Prune, vars
<1>2. /\ RulesOf(rules') /\ selected \in {"dbscan", "hdbscan"}
      /\ analysis' = Analyzed(rules', base, now, Expected)
  BY <1>1 DEF Analyze, RulesOf
<1>3. E \in SUBSET Cases /\ base \in Baselines(E) /\ now \in Evaluations(E)
  BY <1>1, EvaluatedNow
<1>4. PICK rs : rs = rules'
  OBVIOUS
<1>5. /\ \A q, r \in Range(rs) : q.id = r.id => q = r
      /\ \A r \in Range(rs) : r.id # Unattributed
  BY <1>2, <1>4, TwoRules
<1> HIDE DEF now, E
<1>6. ASSUME NEW r \in Range(rs)
      PROVE  CountsCases(r, Signals(Analyzed(rs, base, now, Expected)), now, base)
  BY <1>3, <1>5, SignalsOfRule
<1> QED
  BY <1>2, <1>4, <1>6 DEF now

\* The signals that the rules of a strategy are weighed by count the cases themselves,
\* whatever became of each case and whatever labels the rules govern.
THEOREM SignalsCount == Spec => SignalsCountCases
<1>1. ChoiceInv /\ [Next]_vars =>
          [at = "selected" =>
             \A r \in Range(rules') :
                CountsCases(r, Signals(analysis'), evals[selected], base)]_vars
  BY SignalsStep
<1> QED
  BY <1>1, ChoiceHolds, PTL DEF Spec, SignalsCountCases, CountsCases

-----------------------------------------------------------------------------
(* What the teacher can change *)

LEMMA AppendToOne ==
    ASSUME NEW k \in Nat, NEW n \in Nat
    PROVE  Append(<<k>>, n) = <<k, n>>
<1>1. /\ <<k>> \in Seq(Nat) /\ <<k, n>> \in Seq(Nat)
      /\ Len(<<k>>) = 1 /\ Len(<<k, n>>) = 2
  OBVIOUS
<1>2. Append(<<k>>, n) \in Seq(Nat) /\ Len(Append(<<k>>, n)) = 2
  BY <1>1
<1>3. \A i \in 1..2 : Append(<<k>>, n)[i] = <<k, n>>[i]
  BY <1>1, AppendProperties
<1> QED
  BY <1>1, <1>2, <1>3, SeqEqual

LEMMA FlattenTwo ==
    ASSUME NEW T, NEW s \in Seq(Seq(T)), Len(s) = 2
    PROVE  FlattenSeq(s) = s[1] \o s[2]
<1> DEFINE Step(f) == [i \in 1..Len(s) |-> IF i = 1 THEN s[i] ELSE f[i - 1] \o s[i]]
           g == [i \in 1..2 |-> IF i = 1 THEN s[1] ELSE s[1] \o s[2]]
           h == CHOOSE f : f = Step(f)
<1>1. g = Step(g)
  OBVIOUS
<1>2. h = Step(h)
  <2> HIDE DEF g, Step
  <2> QED
    BY <1>1
<1>3. FlattenSeq(s) = h[2]
  BY DEF FlattenSeq
<1> HIDE DEF h
<1>4. h[1] = s[1]
  BY <1>2
<1>5. h[2] = h[1] \o s[2]
  BY <1>2
<1> QED
  BY <1>3, <1>4, <1>5

\* A set of positions in a finite sequence has a last one.
LEMMA LastPosition ==
    ASSUME NEW n \in Nat, NEW S \in SUBSET (1..n), S # {}
    PROVE  Max(S) \in S
<1> DEFINE R == OpToRel(<, Nat)
           T == {n - i : i \in S}
<1> HIDE DEF R
<1>1. T \subseteq Nat /\ T # {}
  <2>1. \A i \in S : n - i \in Nat
    OBVIOUS
  <2> QED
    BY <2>1
<1>2. PICK x \in T : \A y \in T : <<y, x>> \notin R
  <2> HIDE DEF T
  <2>1. IsWellFoundedOn(R, Nat)
    BY NatLessThanWellFounded DEF R
  <2> QED
    BY <1>1, <2>1, WFMin
<1>3. \A y \in T : ~(y < x)
  BY <1>1, <1>2 DEF OpToRel, R
<1>4. PICK i \in S : x = n - i
  OBVIOUS
<1>5. \A j \in S : i >= j
  BY <1>3, <1>4
<1> QED
  BY <1>4, <1>5 DEF Max

\* The parts of an answer, and what is accepted of it.
LEMMA AnswerParts ==
    ASSUME NEW answer \in Answers, NEW ids
    PROVE  /\ \E n \in Nat :
                 /\ answer.actions \in [1..n -> Actions]
                 /\ DOMAIN Accepted(answer, ids).actions
                        = {i \in 1..n : answer.actions[i].rule \in ids}
                 /\ \A i \in DOMAIN Accepted(answer, ids).actions :
                       Accepted(answer, ids).actions[i] = answer.actions[i]
           /\ \E m \in Nat : Accepted(answer, ids).revised \in [1..m -> RuleRevisions]
<1>1. PICK n \in (0..MaxAnswer) \X (0..MaxAnswer) :
          answer \in [actions: [1..n[1] -> Actions], revised: [1..n[2] -> RuleRevisions]]
  BY DEF Answers
<1>2. n[1] \in Nat /\ n[2] \in Nat
  BY <1>1, SelectAndRefineAssumption
<1> DEFINE some == {i \in DOMAIN answer.actions : answer.actions[i].rule \in ids}
<1>3. /\ Accepted(answer, ids).actions = Restrict(answer.actions, some)
      /\ Accepted(answer, ids).revised = answer.revised
  BY <1>1 DEF Accepted
<1>4. /\ DOMAIN Restrict(answer.actions, some) = some
      /\ \A i \in some : Restrict(answer.actions, some)[i] = answer.actions[i]
  BY DEF Restrict
<1>5. answer.actions \in [1..n[1] -> Actions] /\ answer.revised \in [1..n[2] -> RuleRevisions]
  BY <1>1
<1>6. some = {i \in 1..n[1] : answer.actions[i].rule \in ids}
  BY <1>5
<1> QED
  BY <1>2, <1>3, <1>4, <1>5, <1>6

\* The action that is applied is one the teacher returned for a rule it was shown.
LEMMA LastAction ==
    ASSUME NEW answer \in Answers, NEW ids, NEW id,
           Named(Accepted(answer, ids).actions, id) # {}
    PROVE  LastFor(Accepted(answer, ids).actions, id) \in Actions /\ id \in ids
<1> DEFINE got == Accepted(answer, ids).actions
<1>1. PICK n \in Nat :
          /\ answer.actions \in [1..n -> Actions]
          /\ DOMAIN got = {i \in 1..n : answer.actions[i].rule \in ids}
          /\ \A i \in DOMAIN got : got[i] = answer.actions[i]
  BY AnswerParts
<1>2. Named(got, id) \subseteq 1..n
  BY <1>1 DEF Named
<1>3. Max(Named(got, id)) \in Named(got, id)
  BY <1>2, LastPosition
<1> HIDE DEF got
<1> QED
  BY <1>1, <1>3 DEF Named, LastFor, got

\* A revised rule takes the id of the rule it replaces.
LEMMA RevisedKeepsId ==
    ASSUME NEW m \in Nat, NEW entries \in [1..m -> RuleRevisions], NEW r, IsRule(r)
    PROVE  /\ Revised(r, entries).id = r.id /\ IsRule(Revised(r, entries))
           /\ Named(entries, r.id) = {} => Revised(r, entries) = r
<1>1. CASE Named(entries, r.id) = {}
  BY <1>1 DEF Revised
<1>2. CASE Named(entries, r.id) # {}
  <2>1. Max(Named(entries, r.id)) \in 1..m
    <3>1. Named(entries, r.id) \subseteq 1..m
      BY DEF Named
    <3> QED
      BY <1>2, <3>1, LastPosition
  <2>2. LastFor(entries, r.id).revised \in Revisions
    BY <2>1 DEF LastFor, RuleRevisions
  <2> QED
    BY <1>2, <2>2, SelectAndRefineAssumption, OtherId DEF Revised
<1> QED
  BY <1>1, <1>2

\* What stands in the place of a rule: one rule with its id, the two parts of a split, or
\* nothing.
Takes(R, k) ==
    \/ R = <<>>
    \/ \E q : R = <<q>> /\ q.id = <<k>> /\ IsRule(q)
    \/ \E p, q : /\ R = <<p, q>> /\ p.id = <<k, 1>> /\ q.id = <<k, 2>>
                 /\ IsRule(p) /\ IsRule(q)

\* The rules that come with an action.
LEMMA RevisedRules ==
    ASSUME NEW a \in Actions
    PROVE  /\ a.kind = "modify" /\ Len(a.revised) = 1 =>
                 \E q \in Revisions : a.revised = <<q>>
           /\ a.kind = "split" /\ a.revised # <<>> =>
                 \E p, q \in Revisions : a.revised = <<p, q>>
<1>1. \/ a.kind \in {"keep", "discard"}
      \/ a.kind = "modify" /\ a.revised \in {<<>>} \cup {<<q>> : q \in Revisions}
      \/ a.kind = "split" /\ a.revised \in {<<>>} \cup {<<p, q>> : p, q \in Revisions}
  BY DEF Actions
<1>2. Len(<<>>) # 1
  OBVIOUS
<1> QED
  BY <1>1, <1>2

LEMMA WhatTakesAPlace ==
    ASSUME NEW answer \in Answers, NEW ids, NEW k \in Nat,
           NEW r, r.id = <<k>>, IsRule(r)
    PROVE  /\ Takes(Replacement(r, Accepted(answer, ids).actions), k)
           /\ r.id \notin ids => Replacement(r, Accepted(answer, ids).actions) = <<r>>
<1> DEFINE got == Accepted(answer, ids).actions
           action == LastFor(got, r.id)
           revised == action.revised
<1> SUFFICES /\ Takes(Replacement(r, got), k)
             /\ r.id \notin ids => Replacement(r, got) = <<r>>
  OBVIOUS
<1> HIDE DEF got, action, revised
<1>1. CASE Named(got, r.id) = {}
  <2>1. Replacement(r, got) = <<r>>
    BY <1>1 DEF Replacement
  <2> QED
    BY <2>1 DEF Takes
<1>2. CASE Named(got, r.id) # {}
  <2>1. action \in Actions /\ r.id \in ids
    BY <1>2, LastAction DEF got, action
  <2>2. \A q \in Revisions : \A id : WithId(q, id).id = id /\ IsRule(WithId(q, id))
    BY SelectAndRefineAssumption, OtherId
  <2> DEFINE parts == [i \in DOMAIN revised |-> WithId(revised[i], Append(r.id, i))]
  <2>3. CASE action.kind = "modify" /\ Len(revised) = 1
    <3>1. PICK q \in Revisions : revised = <<q>>
      BY <2>1, <2>3, RevisedRules DEF revised
    <3>2. Replacement(r, got) = <<WithId(q, r.id)>>
      BY <1>2, <2>3, <3>1 DEF Replacement, action, revised
    <3> QED
      BY <2>1, <2>2, <3>2 DEF Takes
  <2>4. CASE action.kind = "split" /\ revised # <<>>
    <3>1. PICK p, q \in Revisions : revised = <<p, q>>
      BY <2>1, <2>4, RevisedRules DEF revised
    <3>2. Append(<<k>>, 1) = <<k, 1>> /\ Append(<<k>>, 2) = <<k, 2>>
      BY AppendToOne
    <3>3. parts = <<WithId(p, <<k, 1>>), WithId(q, <<k, 2>>)>>
      <4> DEFINE both == [i \in 1..2 |-> IF i = 1 THEN WithId(p, <<k, 1>>)
                                                 ELSE WithId(q, <<k, 2>>)]
      <4>1. DOMAIN revised = 1..2 /\ revised[1] = p /\ revised[2] = q
        BY <3>1
      <4>2. \A i \in 1..2 : i = 1 \/ i = 2
        OBVIOUS
      <4>3. \A i \in 1..2 : WithId(revised[i], Append(r.id, i)) = both[i]
        BY <3>2, <4>1, <4>2
      <4>4. parts = both
        BY <4>1, <4>3
      <4> QED
        BY <4>4
    <3>4. Replacement(r, got) = parts
      BY <1>2, <2>4 DEF Replacement, action, revised
    <3>5. /\ WithId(p, <<k, 1>>).id = <<k, 1>> /\ WithId(q, <<k, 2>>).id = <<k, 2>>
          /\ IsRule(WithId(p, <<k, 1>>)) /\ IsRule(WithId(q, <<k, 2>>))
      BY <2>2
    <3> HIDE DEF parts
    <3> QED
      BY <2>1, <3>3, <3>4, <3>5 DEF Takes
  <2>5. CASE action.kind = "discard"
    BY <1>2, <2>1, <2>5 DEF Replacement, Takes, action
  <2>6. CASE /\ ~(action.kind = "modify" /\ Len(revised) = 1)
             /\ ~(action.kind = "split" /\ revised # <<>>)
             /\ action.kind # "discard"
    <3>1. Replacement(r, got) = <<r>>
      BY <1>2, <2>6 DEF Replacement, action, revised
    <3> QED
      BY <2>1, <3>1 DEF Takes
  <2> QED
    BY <2>3, <2>4, <2>5, <2>6
<1> QED
  BY <1>1, <1>2

\* The rules that take two places have different ids.
LEMMA TwoPlaces ==
    ASSUME NEW X, NEW Y, Takes(X, 1), Takes(Y, 2)
    PROVE  /\ DOMAIN FlattenSeq(<<X, Y>>) = 1..(Len(X) + Len(Y))
           /\ Len(X) + Len(Y) \in Nat
           /\ \A i \in DOMAIN FlattenSeq(<<X, Y>>) : IsRule(FlattenSeq(<<X, Y>>)[i])
           /\ Range(FlattenSeq(<<X, Y>>)) = Range(X) \cup Range(Y)
           /\ \A i, j \in DOMAIN FlattenSeq(<<X, Y>>) :
                 FlattenSeq(<<X, Y>>)[i].id = FlattenSeq(<<X, Y>>)[j].id => i = j
<1> DEFINE T == Range(X) \cup Range(Y)
           all == X \o Y
<1>1. ASSUME NEW Z, NEW k \in {1, 2}, Takes(Z, k)
      PROVE  /\ Len(Z) \in 0..2 /\ DOMAIN Z = 1..Len(Z) /\ Z \in Seq(Range(Z))
             /\ \A i \in 1..Len(Z) : Z[i].id[1] = k /\ IsRule(Z[i])
             /\ \A i, j \in 1..Len(Z) : Z[i].id = Z[j].id => i = j
  <2>1. CASE Z = <<>>
    BY <2>1
  <2>2. ASSUME NEW q, Z = <<q>>, q.id = <<k>>, IsRule(q)
        PROVE  /\ Len(Z) \in 0..2 /\ DOMAIN Z = 1..Len(Z) /\ Z \in Seq(Range(Z))
               /\ \A i \in 1..Len(Z) : Z[i].id[1] = k /\ IsRule(Z[i])
               /\ \A i, j \in 1..Len(Z) : Z[i].id = Z[j].id => i = j
    BY <2>2 DEF Range
  <2>3. ASSUME NEW p, NEW q, Z = <<p, q>>, p.id = <<k, 1>>, q.id = <<k, 2>>,
              IsRule(p), IsRule(q)
        PROVE  /\ Len(Z) \in 0..2 /\ DOMAIN Z = 1..Len(Z) /\ Z \in Seq(Range(Z))
               /\ \A i \in 1..Len(Z) : Z[i].id[1] = k /\ IsRule(Z[i])
               /\ \A i, j \in 1..Len(Z) : Z[i].id = Z[j].id => i = j
    <3>1. Len(Z) = 2 /\ Z[1] = p /\ Z[2] = q /\ DOMAIN Z = 1..2
      BY <2>3
    <3>2. Z \in Seq(Range(Z))
      BY <2>3 DEF Range
    <3>3. p.id # q.id /\ p.id[1] = k /\ q.id[1] = k
      BY <2>3
    <3> QED
      BY <2>3, <3>1, <3>2, <3>3
  <2> QED
    BY <1>1, <2>1, <2>2, <2>3 DEF Takes
<1>2. /\ X \in Seq(T) /\ Y \in Seq(T) /\ Len(X) \in Nat /\ Len(Y) \in Nat
      /\ DOMAIN X = 1..Len(X) /\ DOMAIN Y = 1..Len(Y)
  BY <1>1
<1>3. FlattenSeq(<<X, Y>>) = all
  <2> HIDE DEF T, all
  <2>1. <<X, Y>> \in Seq(Seq(T)) /\ Len(<<X, Y>>) = 2
    BY <1>2
  <2>2. PICK s : s = <<X, Y>>
    OBVIOUS
  <2>3. FlattenSeq(s) = s[1] \o s[2]
    BY <2>1, <2>2, FlattenTwo
  <2> QED
    BY <2>2, <2>3 DEF all
<1>4. /\ DOMAIN all = 1..(Len(X) + Len(Y)) /\ all \in Seq(T)
      /\ \A i \in DOMAIN all :
            all[i] = IF i <= Len(X) THEN X[i] ELSE Y[i - Len(X)]
  BY <1>2
<1>5. \A i, j \in DOMAIN all : all[i].id = all[j].id => i = j
  <2> SUFFICES ASSUME NEW i \in DOMAIN all, NEW j \in DOMAIN all, all[i].id = all[j].id
               PROVE  i = j
    OBVIOUS
  <2>1. CASE i <= Len(X) /\ j <= Len(X)
    BY <1>1, <1>2, <1>4, <2>1
  <2>2. CASE i > Len(X) /\ j > Len(X)
    <3>1. /\ i - Len(X) \in DOMAIN Y /\ all[i] = Y[i - Len(X)]
          /\ j - Len(X) \in DOMAIN Y /\ all[j] = Y[j - Len(X)]
      BY <1>2, <1>4, <2>2
    <3>2. \A m, n \in DOMAIN Y : Y[m].id = Y[n].id => m = n
      BY <1>1
    <3>3. PICK m, n \in DOMAIN Y : m = i - Len(X) /\ n = j - Len(X)
      BY <3>1
    <3>4. m = n
      BY <3>1, <3>2, <3>3
    <3> QED
      BY <1>2, <1>4, <3>3, <3>4
  <2>3. CASE i <= Len(X) /\ j > Len(X)
    <3>1. all[i].id[1] = 1 /\ all[j].id[1] = 2
      BY <1>1, <1>2, <1>4, <2>3
    <3> QED
      BY <3>1
  <2>4. CASE i > Len(X) /\ j <= Len(X)
    <3>1. all[i].id[1] = 2 /\ all[j].id[1] = 1
      BY <1>1, <1>2, <1>4, <2>4
    <3> QED
      BY <3>1
  <2> QED
    BY <1>2, <1>4, <2>1, <2>2, <2>3, <2>4
<1>6. Range(all) = Range(X) \cup Range(Y)
  <2>1. \A i \in DOMAIN all : all[i] \in Range(X) \cup Range(Y)
    BY <1>2, <1>4
  <2>2. \A i \in DOMAIN X : i \in DOMAIN all /\ all[i] = X[i]
    BY <1>2, <1>4
  <2>3. \A i \in DOMAIN Y : Len(X) + i \in DOMAIN all /\ all[Len(X) + i] = Y[i]
    BY <1>2, <1>4
  <2> HIDE DEF all
  <2> QED
    BY <2>1, <2>2, <2>3 DEF Range
<1>7. \A i \in DOMAIN all : IsRule(all[i])
  <2>1. SUFFICES ASSUME NEW i \in DOMAIN all PROVE IsRule(all[i])
    OBVIOUS
  <2>2. CASE i <= Len(X)
    BY <1>1, <1>2, <1>4, <2>2
  <2>3. CASE i > Len(X)
    <3>1. i - Len(X) \in DOMAIN Y /\ all[i] = Y[i - Len(X)]
      BY <1>2, <1>4, <2>3
    <3> QED
      BY <1>1, <1>2, <3>1
  <2> QED
    BY <1>2, <1>4, <2>2, <2>3
<1>8. Len(X) + Len(Y) \in Nat
  BY <1>2
<1> QED
  BY <1>3, <1>4, <1>5, <1>6, <1>7, <1>8

\* What is known when the teacher has answered: the two rules of the strategy, and its
\* actions on those that answer for some failing case.
Asked ==
    /\ at \in {"ask", "apply"} => RulesOf(rules)
    /\ at = "apply" =>
          \E answer \in Answers,
             ids \in SUBSET UNION {analysis[c].violated : c \in DOMAIN analysis} :
              shown.answer = Accepted(answer, ids)

LEMMA AskedStep == Asked /\ [Next]_vars => Asked'
<1> SUFFICES ASSUME Asked, [Next]_vars PROVE Asked'
  OBVIOUS
<1>1. CASE CheckGates \/ SelectOne \/ ApplyActions \/ Prune
  <2>1. at' \notin {"ask", "apply"}
    BY <1>1 DEF CheckGates, SelectOne, ApplyActions, Prune
  <2> QED
    BY <2>1 DEF Asked
<1>2. CASE Analyze
  BY <1>2 DEF Analyze, Asked, RulesOf
<1>3. CASE AskTeacher
  <2>1. PICK sample \in SUBSET Attributable(analysis), answer \in Answers :
            shown'.answer = Accepted(answer, {r.id : r \in Range(rules)}
                                                 \cap Implicated(analysis, sample))
    <3> DEFINE Ids(s) == {r.id : r \in Range(rules)} \cap Implicated(analysis, s)
    <3>1. PICK sample \in SUBSET Attributable(analysis) :
              \E answer \in Answers :
                 shown' = [ids |-> Ids(sample), answer |-> Accepted(answer, Ids(sample))]
      BY <1>3, Zenon DEF AskTeacher
    <3> QED
      BY <3>1
  <2>2. /\ at = "ask" /\ at' = "apply" /\ rules' = rules /\ analysis' = analysis
    BY <1>3 DEF AskTeacher
  <2> DEFINE violated == UNION {analysis[c].violated : c \in DOMAIN analysis}
             ids == {r.id : r \in Range(rules)} \cap Implicated(analysis, sample)
  <2>3. sample \subseteq DOMAIN analysis
    BY DEF Attributable, Having
  <2>4. ids \in SUBSET violated
    BY <2>3 DEF Implicated
  <2>5. \E given \in Answers, known \in SUBSET violated :
            shown'.answer = Accepted(given, known)
    BY <2>1, <2>4
  <2> QED
    BY <2>2, <2>5 DEF Asked
<1>4. CASE UNCHANGED vars
  BY <1>4 DEF vars, Asked
<1> QED
  BY <1>1, <1>2, <1>3, <1>4 DEF Next

\* The rules that do not answer for a failing case stay where actions are applied, those
\* that are not named where revised rules are, and ids stay distinct.
OthersStay ==
    /\ IF shown.answer.actions # Empty
       THEN \A r \in Range(rules) : ~AnswersFor(r, analysis) => r \in Range(rules')
       ELSE /\ DOMAIN rules' = DOMAIN rules
            /\ \A i \in DOMAIN rules :
                  /\ rules'[i].id = rules[i].id
                  /\ Named(shown.answer.revised, rules[i].id) = {} => rules'[i] = rules[i]
    /\ \A i, j \in DOMAIN rules' : rules'[i].id = rules'[j].id => i = j

\* The rules once the actions are applied.
LEMMA RulesAfterActions ==
    ASSUME Asked, at = "apply", shown.answer.actions # Empty,
           NEW new, new = Applied(rules, shown.answer)
    PROVE  /\ \A r \in Range(rules) : ~AnswersFor(r, analysis) => r \in Range(new)
           /\ \A i, j \in DOMAIN new : new[i].id = new[j].id => i = j
           /\ \A i \in DOMAIN new : IsRule(new[i])
           /\ \E n \in Nat : DOMAIN new = 1..n
<1>1. PICK answer \in Answers,
           ids \in SUBSET UNION {analysis[c].violated : c \in DOMAIN analysis} :
               shown.answer = Accepted(answer, ids)
  BY DEF Asked
<1>2. PICK p, q : /\ rules = <<p, q>> /\ p.id = <<1>> /\ q.id = <<2>> /\ Range(rules) = {p, q}
                  /\ IsRule(p) /\ IsRule(q)
  BY TwoRules DEF Asked
<1> DEFINE X == Replacement(p, shown.answer.actions)
           Y == Replacement(q, shown.answer.actions)
<1>3. /\ Takes(X, 1) /\ Takes(Y, 2)
      /\ p.id \notin ids => X = <<p>>
      /\ q.id \notin ids => Y = <<q>>
  BY <1>1, <1>2, WhatTakesAPlace
<1>4. [i \in DOMAIN rules |-> Replacement(rules[i], shown.answer.actions)] = <<X, Y>>
  <2>1. DOMAIN rules = 1..2 /\ rules[1] = p /\ rules[2] = q
    BY <1>2
  <2>2. \A i \in 1..2 :
            Replacement(rules[i], shown.answer.actions) = IF i = 1 THEN X ELSE Y
    BY <2>1
  <2>3. [i \in DOMAIN rules |-> Replacement(rules[i], shown.answer.actions)]
            = [i \in 1..2 |-> IF i = 1 THEN X ELSE Y]
    BY <2>1, <2>2
  <2> QED
    BY <2>3
<1> HIDE DEF X, Y
<1>5. new = FlattenSeq(<<X, Y>>)
  BY <1>4 DEF Applied, ActionsApplied, Empty
<1>6. /\ Range(new) = Range(X) \cup Range(Y)
      /\ DOMAIN new = 1..(Len(X) + Len(Y)) /\ Len(X) + Len(Y) \in Nat
      /\ \A i \in DOMAIN new : IsRule(new[i])
      /\ \A i, j \in DOMAIN new : new[i].id = new[j].id => i = j
  BY <1>3, <1>5, TwoPlaces
<1>7. \A r \in Range(rules) : r.id \notin ids => r \in Range(new)
  <2>1. \A z : z \in Range(<<z>>)
    BY DEF Range
  <2> QED
    BY <1>2, <1>3, <1>6, <2>1
<1>8. \A r : ~AnswersFor(r, analysis) => r.id \notin ids
  BY DEF AnswersFor
<1> QED
  BY <1>6, <1>7, <1>8

\* The rules once the revised rules of an answer without actions are applied.
LEMMA RulesAfterRevisions ==
    ASSUME Asked, at = "apply", shown.answer.actions = Empty,
           NEW new, new = Applied(rules, shown.answer)
    PROVE  /\ DOMAIN new = DOMAIN rules /\ DOMAIN rules = 1..2
           /\ \A i \in DOMAIN rules :
                 /\ new[i].id = rules[i].id /\ IsRule(new[i])
                 /\ Named(shown.answer.revised, rules[i].id) = {} => new[i] = rules[i]
           /\ \A i, j \in DOMAIN new : new[i].id = new[j].id => i = j
<1>1. PICK m \in Nat : shown.answer.revised \in [1..m -> RuleRevisions]
  BY AnswerParts DEF Asked
<1>2. PICK p, q : /\ rules = <<p, q>> /\ p.id = <<1>> /\ q.id = <<2>>
                  /\ IsRule(p) /\ IsRule(q)
  BY TwoRules DEF Asked
<1>3. new = [i \in DOMAIN rules |-> Revised(rules[i], shown.answer.revised)]
  BY DEF Applied, Empty
<1>4. DOMAIN rules = 1..2 /\ rules[1] = p /\ rules[2] = q
  BY <1>2
<1>5. \A i \in DOMAIN rules : IsRule(rules[i])
  BY <1>2, <1>4
<1>6. \A i \in DOMAIN rules :
          /\ new[i].id = rules[i].id /\ IsRule(new[i])
          /\ Named(shown.answer.revised, rules[i].id) = {} => new[i] = rules[i]
  BY <1>1, <1>3, <1>5, RevisedKeepsId
<1>7. <<1>> # <<2>>
  OBVIOUS
<1>8. \A i, j \in DOMAIN rules : rules[i].id = rules[j].id => i = j
  BY <1>2, <1>4, <1>7
<1>9. DOMAIN new = DOMAIN rules
  BY <1>3
<1> QED
  BY <1>4, <1>6, <1>8, <1>9

\* Either way they are rules, in a sequence, with ids of their own.
LEMMA AppliedRules ==
    ASSUME Asked, at = "apply", NEW new, new = Applied(rules, shown.answer)
    PROVE  /\ \A i, j \in DOMAIN new : new[i].id = new[j].id => i = j
           /\ \A i \in DOMAIN new : IsRule(new[i])
           /\ \E n \in Nat : DOMAIN new = 1..n
<1>1. CASE shown.answer.actions # Empty
  BY <1>1, RulesAfterActions
<1>2. CASE shown.answer.actions = Empty
  <2>1. /\ DOMAIN new = DOMAIN rules /\ DOMAIN rules = 1..2
        /\ \A i \in DOMAIN rules : IsRule(new[i])
        /\ \A i, j \in DOMAIN new : new[i].id = new[j].id => i = j
    BY <1>2, RulesAfterRevisions
  <2> QED
    BY <2>1
<1> QED
  BY <1>1, <1>2

LEMMA ApplyKeepsOthers ==
    ASSUME Asked, [Next]_vars, vars' # vars, at = "apply"
    PROVE  OthersStay
<1>1. rules' = Applied(rules, shown.answer)
  BY DEF Next, CheckGates, SelectOne, Analyze, AskTeacher, ApplyActions, Prune, vars
<1>2. PICK new : new = rules'
  OBVIOUS
<1>3. CASE shown.answer.actions # Empty
  <2>1. /\ \A r \in Range(rules) : ~AnswersFor(r, analysis) => r \in Range(new)
        /\ \A i, j \in DOMAIN new : new[i].id = new[j].id => i = j
    BY <1>1, <1>2, <1>3, RulesAfterActions
  <2> QED
    BY <1>2, <1>3, <2>1 DEF OthersStay
<1>4. CASE shown.answer.actions = Empty
  <2>1. /\ DOMAIN new = DOMAIN rules
        /\ \A i \in DOMAIN rules :
              /\ new[i].id = rules[i].id
              /\ Named(shown.answer.revised, rules[i].id) = {} => new[i] = rules[i]
        /\ \A i, j \in DOMAIN new : new[i].id = new[j].id => i = j
    BY <1>1, <1>2, <1>4, RulesAfterRevisions
  <2> QED
    BY <1>2, <1>4, <2>1 DEF OthersStay
<1> QED
  BY <1>3, <1>4

\* Whatever the teacher returns, its actions leave the rules that answer for no failing
\* case as they are; revised rules, which count only without an accepted action, leave
\* those they do not name and the number and order of all; and ids stay distinct.
THEOREM OthersUntouched == Spec => OnlyImplicatedChange
<1>1. Init => Asked
  BY DEF Init, Asked
<1>2. Asked /\ [Next]_vars => [at = "apply" => OthersStay]_vars
  BY ApplyKeepsOthers
<1> QED
  BY <1>1, <1>2, AskedStep, PTL DEF Spec, OnlyImplicatedChange, OthersStay

-----------------------------------------------------------------------------
(* Induction on the size of a set, and folds *)

\* The subsets of S with at most n elements.
UpTo(n, S) == {s \in SUBSET S : Cardinality(s) <= n}

LEMMA LeastNumber ==
    ASSUME NEW T \in SUBSET Nat, T # {}
    PROVE  \E n \in T : \A m \in T : n <= m
<1> DEFINE R == OpToRel(<, Nat)
<1>1. IsWellFoundedOn(R, Nat)
  BY NatLessThanWellFounded
<1> HIDE DEF R
<1>2. \E n \in T : \A m \in T : <<m, n>> \notin R
  BY <1>1, WFMin
<1>3. \A m, n \in Nat : m < n => <<m, n>> \in R
  BY DEF R, OpToRel
<1>4. \A m, n \in T : n <= m \/ m < n
  OBVIOUS
<1> QED
  BY <1>2, <1>3, <1>4

\* What holds for the first number, and for a number when it does for the one before it,
\* holds for all up to n.
LEMMA CountUp ==
    ASSUME NEW n \in Nat, NEW Good, 0 \in Good,
           \A k \in 1..n : k - 1 \in Good => k \in Good
    PROVE  \A k \in 0..n : k \in Good
<1> DEFINE Bad == {k \in 0..n : k \notin Good}
<1> SUFFICES ASSUME Bad # {} PROVE FALSE
  OBVIOUS
<1>1. PICK k \in Bad : \A m \in Bad : k <= m
  <2>1. Bad \in SUBSET Nat
    OBVIOUS
  <2> QED
    BY <2>1, LeastNumber
<1>2. k \in 1..n /\ k - 1 \in 0..n
  BY <1>1
<1>3. k - 1 \in Good
  BY <1>1, <1>2
<1> QED
  BY <1>1, <1>2, <1>3

\* A set without one of its elements is smaller.
LEMMA OneLess ==
    ASSUME NEW S, IsFiniteSet(S), NEW n \in Nat, NEW s \in UpTo(n, S), NEW x \in s
    PROVE  n > 0 /\ s \ {x} \in UpTo(n - 1, S)
<1>1. IsFiniteSet(s)
  BY FS_Subset DEF UpTo
<1>2. /\ IsFiniteSet(s \ {x})
      /\ Cardinality(s \ {x}) = Cardinality(s) - 1
  BY <1>1, FS_RemoveElement
<1>3. Cardinality(s \ {x}) \in Nat /\ Cardinality(s) \in Nat
  BY <1>1, <1>2, FS_CardinalityType
<1> QED
  BY <1>2, <1>3 DEF UpTo

\* A subset of S is good when it is without any one of its elements.
Inductive(S, Good) == \A s \in SUBSET S : (\A x \in s : s \ {x} \in Good) => s \in Good

\* Then all subsets are.
LEMMA SizeInduction ==
    ASSUME NEW S, IsFiniteSet(S), NEW Good, Inductive(S, Good)
    PROVE  SUBSET S \subseteq Good
<1> DEFINE Fit == {n \in Nat : UpTo(n, S) \subseteq Good}
<1>1. Cardinality(S) \in Nat /\ UpTo(Cardinality(S), S) = SUBSET S
  BY FS_Subset, FS_CardinalityType DEF UpTo
<1>2. 0 \in Fit
  <2>1. ASSUME NEW s \in UpTo(0, S) PROVE s \in Good
    <3>1. \A x \in s : 0 > 0
      BY OneLess
    <3>2. s \in SUBSET S
      BY DEF UpTo
    <3> QED
      BY <3>1, <3>2 DEF Inductive
  <2> QED
    BY <2>1
<1>3. ASSUME NEW k \in 1..Cardinality(S), k - 1 \in Fit PROVE k \in Fit
  <2>1. ASSUME NEW s \in UpTo(k, S) PROVE s \in Good
    <3>1. \A x \in s : s \ {x} \in Good
      BY <1>1, <1>3, OneLess
    <3> QED
      BY <3>1 DEF UpTo, Inductive
  <2> QED
    BY <1>1, <1>3, <2>1
<1>4. Cardinality(S) \in Fit
  <2> HIDE DEF Fit
  <2> QED
    BY <1>1, <1>2, <1>3, CountUp
<1> QED
  BY <1>1, <1>4

Picks(S, pick) == \A s \in SUBSET S : s # {} => pick[s] \in s

FoldsTo(h, S, pick, first, step) ==
    \A s \in SUBSET S : h[s] = IF s = {} THEN first ELSE step[pick[s]][h[s \ {pick[s]}]]

\* A function on the subsets of S can be defined by what it is without the element that is
\* picked: a fold of step over S.
LEMMA FoldExists ==
    ASSUME NEW S, IsFiniteSet(S), NEW pick, Picks(S, pick),
           NEW A, NEW first \in A, NEW step \in [S -> [A -> A]]
    PROVE  \E h \in [SUBSET S -> A] : FoldsTo(h, S, pick, first, step)
<1> DEFINE Rule(h, s) == IF s = {} THEN first ELSE step[pick[s]][h[s \ {pick[s]}]]
           Partial(n, h) == /\ h \in [UpTo(n, S) -> A]
                            /\ \A s \in UpTo(n, S) : h[s] = Rule(h, s)
           Fit == {n \in Nat : \E h : Partial(n, h)}
<1>1. 0 \in Fit
  <2>1. ASSUME NEW s \in UpTo(0, S) PROVE s = {}
    <3>1. \A x \in s : 0 > 0
      BY OneLess
    <3> QED
      BY <3>1
  <2>2. Partial(0, [s \in UpTo(0, S) |-> first])
    BY <2>1
  <2> QED
    BY <2>2
<1>2. ASSUME NEW n \in Nat, n > 0, n - 1 \in Fit PROVE n \in Fit
  <2>1. PICK g : Partial(n - 1, g)
    BY <1>2
  <2> DEFINE h == [s \in UpTo(n, S) |-> Rule(g, s)]
  <2>2. ASSUME NEW s \in UpTo(n, S) PROVE Rule(g, s) \in A /\ Rule(g, s) = Rule(h, s)
    <3>1. CASE s = {}
      BY <3>1
    <3>2. CASE s # {}
      <4> DEFINE t == s \ {pick[s]}
      <4>1. pick[s] \in s /\ pick[s] \in S
        BY <3>2 DEF UpTo, Picks
      <4>2. t \in UpTo(n - 1, S)
        BY <4>1, OneLess
      <4>3. t \in UpTo(n, S)
        <5>1. Cardinality(t) \in Nat
          BY <4>2, FS_Subset, FS_CardinalityType DEF UpTo
        <5> QED
          BY <4>2, <5>1 DEF UpTo
      <4> HIDE DEF t, Rule
      <4>4. g[t] \in A /\ g[t] = Rule(g, t) /\ h[t] = Rule(g, t)
        BY <2>1, <4>2, <4>3
      <4>5. step[pick[s]][g[t]] \in A
        BY <4>1, <4>4
      <4> QED
        BY <3>2, <4>4, <4>5 DEF Rule, t
    <3> QED
      BY <3>1, <3>2
  <2>3. Partial(n, h)
    <3> HIDE DEF Rule
    <3> QED
      BY <2>2
  <2> QED
    BY <2>3
<1>3. Cardinality(S) \in Nat /\ UpTo(Cardinality(S), S) = SUBSET S
  BY FS_Subset, FS_CardinalityType DEF UpTo
<1>4. Cardinality(S) \in Fit
  <2> HIDE DEF Fit
  <2> QED
    BY <1>1, <1>2, <1>3, CountUp
<1> QED
  BY <1>3, <1>4 DEF FoldsTo

-----------------------------------------------------------------------------
(* The tokens of a set of rules *)

Pick(s) == CHOOSE x \in s : TRUE

\* sum gives the tokens of the subsets of S.
SumsTo(S, sum) ==
    sum = [s \in SUBSET S |-> IF s = {} THEN 0 ELSE sum[s \ {Pick(s)}] + Cost(Pick(s))]

Costed(S) == IsFiniteSet(S) /\ \A r \in S : Cost(r) \in Nat

LEMMA SumsExist ==
    ASSUME NEW S, Costed(S)
    PROVE  \E sum \in [SUBSET S -> Nat] : SumsTo(S, sum) /\ Total(S) = sum[S]
<1> DEFINE pick == [s \in SUBSET S |-> Pick(s)]
           step == [r \in S |-> [n \in Nat |-> n + Cost(r)]]
<1>1. IsFiniteSet(S) /\ step \in [S -> [Nat -> Nat]] /\ Picks(S, pick)
  BY DEF Costed, Pick, Picks
<1>2. PICK h \in [SUBSET S -> Nat] : FoldsTo(h, S, pick, 0, step)
  <2> HIDE DEF pick, step
  <2> QED
    BY <1>1, FoldExists
<1>3. SumsTo(S, h)
  <2>1. ASSUME NEW s \in SUBSET S, s # {}
        PROVE  step[pick[s]][h[s \ {pick[s]}]] = h[s \ {Pick(s)}] + Cost(Pick(s))
    <3>1. Pick(s) \in S /\ h[s \ {Pick(s)}] \in Nat
      BY <1>2, <2>1 DEF Pick
    <3> QED
      BY <3>1
  <2> HIDE DEF pick, step
  <2> QED
    BY <1>2, <2>1 DEF SumsTo, FoldsTo
<1> DEFINE sum == CHOOSE g : SumsTo(S, g)
<1>4. SumsTo(S, sum)
  BY <1>3
<1>5. Total(S) = sum[S]
  BY DEF Total, FoldSet, MapThenFoldSet, SumsTo, Pick
<1> HIDE DEF sum
<1> DEFINE Good == {s \in SUBSET S : sum[s] \in Nat}
<1>6. ASSUME NEW s \in SUBSET S, \A x \in s : s \ {x} \in Good PROVE s \in Good
  <2>1. sum[s] = IF s = {} THEN 0 ELSE sum[s \ {Pick(s)}] + Cost(Pick(s))
    BY <1>4 DEF SumsTo
  <2>2. s # {} => Pick(s) \in s /\ Cost(Pick(s)) \in Nat
    BY DEF Pick, Costed
  <2>3. s # {} => sum[s \ {Pick(s)}] \in Nat
    BY <1>6, <2>2
  <2> QED
    BY <2>1, <2>2, <2>3
<1>7. SUBSET S \subseteq Good
  <2>1. Inductive(S, Good)
    BY <1>6 DEF Inductive
  <2>2. IsFiniteSet(S)
    BY <1>1
  <2> HIDE DEF Good
  <2> QED
    BY <2>1, <2>2, SizeInduction
<1>8. sum \in [SUBSET S -> Nat]
  <2>1. \A s \in SUBSET S : sum[s] \in Nat
    BY <1>7
  <2>2. sum = [s \in SUBSET S |-> sum[s]]
    BY <1>4 DEF SumsTo
  <2> QED
    BY <2>1, <2>2
<1> QED
  BY <1>4, <1>5, <1>8

\* The tokens of a subset are among the sums of the set.
LEMMA TotalIsSum ==
    ASSUME NEW S, Costed(S), NEW sum \in [SUBSET S -> Nat], SumsTo(S, sum), NEW T \in SUBSET S
    PROVE  Total(T) = sum[T]
<1>1. Costed(T)
  BY FS_Subset DEF Costed
<1>2. PICK own \in [SUBSET T -> Nat] : SumsTo(T, own) /\ Total(T) = own[T]
  BY <1>1, SumsExist
<1> DEFINE Good == {s \in SUBSET T : own[s] = sum[s]}
<1>3. ASSUME NEW s \in SUBSET T, \A x \in s : s \ {x} \in Good PROVE s \in Good
  <2>1. /\ own[s] = IF s = {} THEN 0 ELSE own[s \ {Pick(s)}] + Cost(Pick(s))
        /\ sum[s] = IF s = {} THEN 0 ELSE sum[s \ {Pick(s)}] + Cost(Pick(s))
    BY <1>2 DEF SumsTo
  <2>2. s # {} => own[s \ {Pick(s)}] = sum[s \ {Pick(s)}]
    BY <1>3 DEF Pick
  <2> QED
    BY <2>1, <2>2
<1>4. SUBSET T \subseteq Good
  <2>1. Inductive(T, Good)
    BY <1>3 DEF Inductive
  <2>2. IsFiniteSet(T)
    BY <1>1 DEF Costed
  <2> HIDE DEF Good
  <2> QED
    BY <2>1, <2>2, SizeInduction
<1> QED
  BY <1>2, <1>4

Additive(S, sum) == \A s \in SUBSET S : \A x \in s : sum[s] = sum[s \ {x}] + Cost(x)

\* Whichever element is taken out of a sum first, the sum is the same.
LEMMA SumWithout ==
    ASSUME NEW S, Costed(S), NEW sum \in [SUBSET S -> Nat], SumsTo(S, sum)
    PROVE  Additive(S, sum)
<1> DEFINE Good == {s \in SUBSET S : \A x \in s : sum[s] = sum[s \ {x}] + Cost(x)}
<1>1. ASSUME NEW s \in SUBSET S, \A x \in s : s \ {x} \in Good, NEW x \in s
      PROVE  sum[s] = sum[s \ {x}] + Cost(x)
  <2> DEFINE p == Pick(s)
  <2>1. p \in s /\ sum[s] = sum[s \ {p}] + Cost(p)
    BY DEF SumsTo, Pick
  <2> HIDE DEF p
  <2>2. CASE x = p
    BY <2>1, <2>2
  <2>3. CASE x # p
    <3>1. sum[s \ {p}] = sum[(s \ {p}) \ {x}] + Cost(x)
      BY <1>1, <2>1, <2>3
    <3>2. sum[s \ {x}] = sum[(s \ {x}) \ {p}] + Cost(p)
      BY <1>1, <2>1, <2>3
    <3>3. (s \ {p}) \ {x} = (s \ {x}) \ {p}
      OBVIOUS
    <3>4. Cost(x) \in Nat /\ Cost(p) \in Nat /\ sum[(s \ {x}) \ {p}] \in Nat
      BY <2>1 DEF Costed
    <3> QED
      BY <2>1, <3>1, <3>2, <3>3, <3>4
  <2> QED
    BY <2>2, <2>3
<1>2. SUBSET S \subseteq Good
  <2>1. Inductive(S, Good)
    BY <1>1 DEF Inductive
  <2>2. IsFiniteSet(S)
    BY DEF Costed
  <2> HIDE DEF Good
  <2> QED
    BY <2>1, <2>2, SizeInduction
<1> QED
  BY <1>2 DEF Additive

\* What the tokens of a set are.
LEMMA TotalEmpty == Total({}) = 0
<1>1. Costed({})
  BY FS_EmptySet DEF Costed
<1>2. PICK sum \in [SUBSET {} -> Nat] : SumsTo({}, sum) /\ Total({}) = sum[{}]
  BY <1>1, SumsExist
<1>3. {} \in SUBSET {}
  OBVIOUS
<1>4. \A s \in SUBSET {} : s = {} => sum[s] = 0
  BY <1>2 DEF SumsTo
<1> QED
  BY <1>2, <1>3, <1>4

LEMMA TotalAdd ==
    ASSUME NEW S, Costed(S), NEW x, x \notin S, Cost(x) \in Nat
    PROVE  Total(S) \in Nat /\ Costed(S \cup {x}) /\ Total(S \cup {x}) = Total(S) + Cost(x)
<1> DEFINE T == S \cup {x}
<1>1. Costed(T)
  BY FS_AddElement DEF Costed
<1>2. x \in T /\ T \ {x} = S /\ S \in SUBSET T /\ T \in SUBSET T
  OBVIOUS
<1> HIDE DEF T
<1>3. PICK sum \in [SUBSET T -> Nat] : SumsTo(T, sum) /\ Total(T) = sum[T]
  BY <1>1, SumsExist
<1>4. sum[T] = sum[S] + Cost(x) /\ sum[S] \in Nat
  <2>1. Additive(T, sum)
    BY <1>1, <1>3, SumWithout
  <2>2. sum[T] = sum[T \ {x}] + Cost(x)
    BY <1>2, <2>1 DEF Additive
  <2> QED
    BY <1>2, <1>3, <2>2
<1>5. Total(S) = sum[S]
  BY <1>1, <1>2, <1>3, TotalIsSum
<1> QED
  BY <1>1, <1>3, <1>4, <1>5 DEF T

LEMMA TotalMonotone ==
    ASSUME NEW S, Costed(S), NEW T \in SUBSET S
    PROVE  Total(T) \in Nat /\ Total(S) \in Nat /\ Total(T) <= Total(S)
<1>1. PICK sum \in [SUBSET S -> Nat] : SumsTo(S, sum) /\ Total(S) = sum[S]
  BY SumsExist
<1>2. Total(T) = sum[T]
  BY <1>1, TotalIsSum
<1> DEFINE Good == {s \in SUBSET S : \A t \in SUBSET s : sum[t] <= sum[s]}
<1>3. ASSUME NEW s \in SUBSET S, \A x \in s : s \ {x} \in Good, NEW t \in SUBSET s
      PROVE  sum[t] <= sum[s]
  <2>1. CASE t = s
    BY <1>1, <2>1
  <2>2. CASE t # s
    <3>1. PICK x \in s : x \notin t
      BY <2>2
    <3>2. sum[t] <= sum[s \ {x}]
      BY <1>3, <3>1
    <3>3. sum[s] = sum[s \ {x}] + Cost(x)
      BY <1>1, SumWithout DEF Additive
    <3>4. Cost(x) \in Nat /\ sum[s \ {x}] \in Nat /\ sum[t] \in Nat
      BY <1>1 DEF Costed
    <3> QED
      BY <3>2, <3>3, <3>4
  <2> QED
    BY <2>1, <2>2
<1>4. SUBSET S \subseteq Good
  <2>1. Inductive(S, Good)
    BY <1>3 DEF Inductive
  <2>2. IsFiniteSet(S)
    BY DEF Costed
  <2> HIDE DEF Good
  <2> QED
    BY <2>1, <2>2, SizeInduction
<1>5. sum[T] <= sum[S] /\ sum[T] \in Nat /\ sum[S] \in Nat
  BY <1>1, <1>4
<1> QED
  BY <1>1, <1>2, <1>5

-----------------------------------------------------------------------------
(* The prompt's budget *)

\* A step of the loop over the ranked rules.
Take(acc, r) ==
    IF acc.used + Cost(r) > MaxPromptTokens THEN acc
    ELSE [used |-> acc.used + Cost(r), kept |-> Append(acc.kept, r)]

\* What has been taken after the first k rules of a list.
TakesUpTo(acc, s) ==
    /\ acc[0] = [used |-> 0, kept |-> <<>>]
    /\ \A k \in 1..Len(s) : acc[k] = Take(acc[k - 1], s[k])

LEMMA LastOfInterval ==
    ASSUME NEW k \in Nat, k > 0
    PROVE  Max(1..k) = k
<1>1. Max(1..k) \in 1..k /\ \A i \in 1..k : Max(1..k) >= i
  BY DEF Max
<1> QED
  BY <1>1

LEMMA BudgetByRule ==
    ASSUME NEW R, NEW s \in Seq(R), \A r \in R : Cost(r) \in Nat
    PROVE  \E acc : TakesUpTo(acc, s) /\ WithinBudget(s) = acc[Len(s)].kept
<1> DEFINE n == Len(s)
           A == [used : Nat, kept : Seq(R)]
           first == [used |-> 0, kept |-> <<>>]
           pick == [t \in SUBSET (1..n) |-> Max(t)]
           step == [i \in 1..n |-> [acc \in A |-> Take(acc, s[i])]]
           Iter(f) == [t \in SUBSET (1..n) |->
                          IF t = {} THEN first ELSE Take(f[t \ {Max(t)}], s[Max(t)])]
           f == CHOOSE g : g = Iter(g)
<1>1. n \in Nat /\ DOMAIN s = 1..n /\ \A i \in 1..n : s[i] \in R /\ Cost(s[i]) \in Nat
  OBVIOUS
<1>2. first \in A
  OBVIOUS
<1>3. step \in [1..n -> [A -> A]]
  <2>1. ASSUME NEW i \in 1..n, NEW acc \in A PROVE Take(acc, s[i]) \in A
    BY <1>1 DEF Take
  <2> HIDE DEF A
  <2> QED
    BY <2>1
<1>4. Picks(1..n, pick)
  <2>1. ASSUME NEW t \in SUBSET (1..n), t # {} PROVE pick[t] \in t
    BY <1>1, <2>1, LastPosition
  <2> HIDE DEF pick
  <2> QED
    BY <2>1 DEF Picks
<1>5. IsFiniteSet(1..n)
  BY <1>1, FS_Interval
<1>6. PICK h \in [SUBSET (1..n) -> A] : FoldsTo(h, 1..n, pick, first, step)
  <2> HIDE DEF pick, step, first, A, n
  <2> QED
    BY <1>2, <1>3, <1>4, <1>5, FoldExists
<1>7. h = Iter(h)
  <2>1. ASSUME NEW t \in SUBSET (1..n), t # {}
        PROVE  step[pick[t]][h[t \ {pick[t]}]] = Take(h[t \ {Max(t)}], s[Max(t)])
    <3>1. pick[t] = Max(t) /\ Max(t) \in 1..n /\ h[t \ {Max(t)}] \in A
      BY <1>4, <1>6, <2>1 DEF Picks
    <3> HIDE DEF A, pick
    <3> QED
      BY <3>1
  <2> HIDE DEF pick, step, first, A, n
  <2> QED
    BY <1>6, <2>1 DEF FoldsTo
<1>8. f = Iter(f)
  <2> HIDE DEF Iter
  <2> QED
    BY <1>7
<1>9. WithinBudget(s) = f[1..n].kept
  BY <1>1 DEF WithinBudget, FoldLeft, MapThenFoldSet, Take
<1> HIDE DEF f
<1> DEFINE acc == [k \in 0..n |-> f[1..k]]
<1>10. acc[0] = first
  <2>1. 1..0 = {} /\ 0 \in 0..n /\ {} \in SUBSET (1..n)
    BY <1>1
  <2>2. f[{}] = first
    BY <1>8, <2>1
  <2> QED
    BY <2>1, <2>2
<1>11. ASSUME NEW k \in 1..n PROVE acc[k] = Take(acc[k - 1], s[k])
  <2>1. /\ k \in 0..n /\ k - 1 \in 0..n /\ 1..k \in SUBSET (1..n) /\ 1..k # {}
        /\ (1..k) \ {k} = 1..(k - 1)
    BY <1>1
  <2>2. Max(1..k) = k
    BY <1>1, LastOfInterval
  <2> HIDE DEF n, first
  <2>3. f[1..k] = Take(f[(1..k) \ {Max(1..k)}], s[Max(1..k)])
    BY <1>8, <2>1
  <2> QED
    BY <2>1, <2>2, <2>3
<1>12. WithinBudget(s) = acc[Len(s)].kept
  BY <1>1, <1>9
<1> HIDE DEF acc
<1>13. TakesUpTo(acc, s)
  BY <1>10, <1>11 DEF TakesUpTo
<1> QED
  BY <1>12, <1>13

\* The rules of a list that stand before the i-th.
Ahead(s, i) == {s[j] : j \in 1..(i - 1)}

\* Once the rules up to the k-th are tried: those kept fit; one that is not kept did not
\* fit with what was kept before it.
Budgeted(s, k, acc) ==
    LET kept == Range(acc.kept) IN
    /\ acc.kept \in Seq(kept) /\ Len(acc.kept) <= k
    /\ kept \subseteq Ahead(s, k + 1) /\ Costed(kept)
    /\ acc.used = Total(kept) /\ acc.used \in 0..MaxPromptTokens
    /\ \A i \in 1..k : s[i] \notin kept =>
          \E E \in SUBSET (kept \cap Ahead(s, i)) : Total(E) + Cost(s[i]) > MaxPromptTokens

IsInjectiveList(s) == \A i, j \in DOMAIN s : s[i] = s[j] => i = j

LEMMA BudgetStep ==
    ASSUME NEW R, NEW s \in Seq(R), \A r \in R : Cost(r) \in Nat, IsInjectiveList(s),
           NEW k \in 1..Len(s), NEW acc, Budgeted(s, k - 1, acc)
    PROVE  Budgeted(s, k, Take(acc, s[k]))
<1> DEFINE kept == Range(acc.kept)
           r == s[k]
<1>1. /\ k \in Nat /\ k - 1 \in Nat /\ k \in DOMAIN s /\ (k - 1) + 1 = k
      /\ Cost(r) \in Nat /\ MaxPromptTokens \in Nat
  BY PruningAssumption
<1>2. Ahead(s, k + 1) = Ahead(s, k) \cup {r}
  <2>1. 1..((k + 1) - 1) = (1..(k - 1)) \cup {k}
    BY <1>1
  <2> QED
    BY <2>1 DEF Ahead
<1>3. r \notin Ahead(s, k)
  <2>1. \A j \in 1..(k - 1) : j \in DOMAIN s /\ j # k
    BY <1>1
  <2> QED
    BY <1>1, <2>1 DEF Ahead, IsInjectiveList
<1>4. /\ acc.kept \in Seq(kept) /\ Len(acc.kept) <= k - 1
      /\ kept \subseteq Ahead(s, k) /\ Costed(kept)
      /\ acc.used = Total(kept) /\ acc.used \in 0..MaxPromptTokens
      /\ \A i \in 1..(k - 1) : s[i] \notin kept =>
            \E E \in SUBSET (kept \cap Ahead(s, i)) :
               Total(E) + Cost(s[i]) > MaxPromptTokens
  BY <1>1 DEF Budgeted
<1>5. \A i \in 1..k : i = k \/ i \in 1..(k - 1)
  BY <1>1
<1> HIDE DEF r
<1>6. CASE acc.used + Cost(r) > MaxPromptTokens
  <2>1. Take(acc, r) = acc
    BY <1>6 DEF Take
  <2>2. \E E \in SUBSET (kept \cap Ahead(s, k)) : Total(E) + Cost(r) > MaxPromptTokens
    BY <1>4, <1>6
  <2>3. \A i \in 1..k : s[i] \notin kept =>
            \E E \in SUBSET (kept \cap Ahead(s, i)) :
               Total(E) + Cost(s[i]) > MaxPromptTokens
    BY <1>4, <1>5, <2>2 DEF r
  <2>4. Len(acc.kept) <= k
    BY <1>1, <1>4
  <2> HIDE DEF kept
  <2>5. Budgeted(s, k, acc)
    BY <1>2, <1>4, <2>3, <2>4 DEF Budgeted, kept
  <2> QED
    BY <2>1, <2>5 DEF r
<1>7. CASE ~(acc.used + Cost(r) > MaxPromptTokens)
  <2> DEFINE new == kept \cup {r}
             list == Append(acc.kept, r)
  <2>1. Take(acc, r) = [used |-> acc.used + Cost(r), kept |-> list]
    BY <1>7 DEF Take
  <2>2. Range(list) = new
    <3> DEFINE m == Len(acc.kept)
    <3>1. /\ m \in Nat /\ DOMAIN acc.kept = 1..m /\ DOMAIN list = 1..(m + 1)
          /\ \A i \in 1..m : list[i] = acc.kept[i] /\ list[m + 1] = r
      BY <1>4, AppendProperties
    <3>2. list[m + 1] = r /\ m + 1 \in DOMAIN list
      BY <1>4, <3>1, AppendProperties
    <3>3. \A i \in DOMAIN list : i = m + 1 \/ i \in 1..m
      BY <3>1
    <3> HIDE DEF list, m
    <3>4. \A x \in Range(list) : x \in new
      BY <3>1, <3>2, <3>3 DEF Range
    <3>5. \A x \in Range(acc.kept) : x \in Range(list)
      <4>1. \A i \in 1..m : i \in DOMAIN list
        BY <3>1
      <4> QED
        BY <3>1, <4>1 DEF Range
    <3>6. r \in Range(list)
      BY <3>2 DEF Range
    <3> QED
      BY <3>4, <3>5, <3>6
  <2>3. list \in Seq(new) /\ Len(list) <= k
    <3>1. acc.kept \in Seq(new)
      BY <1>4
    <3> QED
      BY <1>1, <1>4, <3>1
  <2>4. r \notin kept
    BY <1>3, <1>4
  <2>5. Costed(new) /\ Total(new) = Total(kept) + Cost(r)
    BY <1>1, <1>4, <2>4, TotalAdd
  <2>6. acc.used + Cost(r) \in 0..MaxPromptTokens
    BY <1>1, <1>4, <1>7
  <2>7. \A i \in 1..k : s[i] \notin new =>
            \E E \in SUBSET (new \cap Ahead(s, i)) :
               Total(E) + Cost(s[i]) > MaxPromptTokens
    <3>1. SUFFICES ASSUME NEW i \in 1..k, s[i] \notin new
                   PROVE  \E E \in SUBSET (new \cap Ahead(s, i)) :
                             Total(E) + Cost(s[i]) > MaxPromptTokens
      OBVIOUS
    <3>2. i \in 1..(k - 1) /\ s[i] \notin kept
      BY <1>5, <3>1 DEF r
    <3>3. PICK E \in SUBSET (kept \cap Ahead(s, i)) : Total(E) + Cost(s[i]) > MaxPromptTokens
      BY <1>4, <3>2
    <3> QED
      BY <3>3
  <2> HIDE DEF list, new
  <2> DEFINE next == [used |-> acc.used + Cost(r), kept |-> list]
  <2>8. next.used = acc.used + Cost(r) /\ next.kept = list
    OBVIOUS
  <2>9. new \subseteq Ahead(s, k + 1)
    BY <1>2, <1>4 DEF new
  <2> HIDE DEF next, kept
  <2>10. Budgeted(s, k, next)
    BY <1>4, <2>2, <2>3, <2>5, <2>6, <2>7, <2>8, <2>9 DEF Budgeted
  <2> QED
    BY <2>1, <2>10 DEF r, next
<1> QED
  BY <1>6, <1>7

LEMMA BudgetKept ==
    ASSUME NEW R, NEW s \in Seq(R), \A r \in R : Cost(r) \in Nat, IsInjectiveList(s)
    PROVE  \E acc : Budgeted(s, Len(s), acc) /\ WithinBudget(s) = acc.kept
<1>1. PICK acc : TakesUpTo(acc, s) /\ WithinBudget(s) = acc[Len(s)].kept
  BY BudgetByRule
<1> DEFINE Good == {k \in 0..Len(s) : Budgeted(s, k, acc[k])}
<1>2. 0 \in Good
  <2>1. acc[0].used = 0 /\ acc[0].kept = <<>>
    BY <1>1 DEF TakesUpTo
  <2>2. Range(<<>>) = {} /\ <<>> \in Seq({}) /\ Len(<<>>) = 0
    BY DEF Range
  <2>3. Costed({}) /\ Total({}) = 0
    BY FS_EmptySet, TotalEmpty DEF Costed
  <2>4. /\ Len(s) \in Nat /\ 0 \in 0..Len(s) /\ 0 \in 0..MaxPromptTokens
        /\ \A i \in 1..0 : FALSE
    BY PruningAssumption
  <2>5. Budgeted(s, 0, acc[0])
    <3>1. PICK a : a = acc[0]
      OBVIOUS
    <3>2. a.used = 0 /\ a.kept = <<>> /\ Range(a.kept) = {}
      BY <2>1, <2>2, <3>1
    <3>3. Len(a.kept) <= 0
      <4>1. Len(a.kept) = 0
        BY <3>2
      <4> QED
        BY <4>1
    <3>4. a.kept \in Seq(Range(a.kept)) /\ a.used = Total(Range(a.kept))
      BY <2>2, <2>3, <3>2, Zenon
    <3>5. Budgeted(s, 0, a)
      BY <2>3, <2>4, <3>2, <3>3, <3>4 DEF Budgeted
    <3> QED
      BY <3>1, <3>5
  <2> QED
    BY <2>4, <2>5
<1>3. ASSUME NEW k \in 1..Len(s), k - 1 \in Good PROVE k \in Good
  <2>1. acc[k] = Take(acc[k - 1], s[k]) /\ k \in 0..Len(s)
    BY <1>1 DEF TakesUpTo
  <2>2. Budgeted(s, k - 1, acc[k - 1])
    BY <1>3
  <2>3. PICK before : before = acc[k - 1]
    OBVIOUS
  <2>4. Budgeted(s, k, Take(before, s[k]))
    BY <2>2, <2>3, BudgetStep
  <2> QED
    BY <2>1, <2>3, <2>4
<1>4. Len(s) \in Good
  <2>1. Len(s) \in Nat /\ Len(s) \in 0..Len(s)
    OBVIOUS
  <2> HIDE DEF Good
  <2> QED
    BY <1>2, <1>3, <2>1, CountUp
<1> QED
  BY <1>1, <1>4

-----------------------------------------------------------------------------
(* The ranking *)

\* What the ranking reads of the signals.
Weighed(signals) ==
    \A id \in DOMAIN signals : signals[id].fixed \in Int /\ signals[id].broken \in Int

LEMMA UtilityIsNumber ==
    ASSUME NEW r, IsRule(r), NEW signals, Weighed(signals)
    PROVE  Utility(r, signals) \in Int /\ Divisor(r) \in Nat \ {0} /\ Cost(r) \in Nat
<1>1. CASE r.id \in DOMAIN signals
  <2>1. Penalty * signals[r.id].broken \in Int
    BY <1>1, PruningAssumption DEF Weighed
  <2> QED
    BY <1>1, <2>1 DEF Utility, Weighed, Divisor, Cost, IsRule
<1>2. CASE r.id \notin DOMAIN signals
  BY <1>2 DEF Utility, Divisor, Cost, IsRule
<1> QED
  BY <1>1, <1>2

\* Fractions compared by their cross products.
LEMMA CrossProducts ==
    ASSUME NEW a \in Int, NEW b \in Int, NEW c \in Int,
           NEW d \in Nat \ {0}, NEW e \in Nat \ {0}, NEW f \in Nat \ {0},
           a * e <= b * d, b * f <= c * e
    PROVE  a * f <= c * d
<1>1. \A x, y \in Int : \A z \in Nat \ {0} : x <= y => x * z <= y * z
  OBVIOUS
<1>2. \A x, y \in Int : \A z \in Nat \ {0} : x * z <= y * z => x <= y
  OBVIOUS
<1>3. (a * e) * f <= (b * d) * f
  BY <1>1
<1>4. (b * f) * d <= (c * e) * d
  BY <1>1
<1>5. (a * e) * f = (a * f) * e /\ (b * d) * f = (b * f) * d /\ (c * e) * d = (c * d) * e
  OBVIOUS
<1>6. (a * f) * e <= (c * d) * e
  BY <1>3, <1>4, <1>5
<1> QED
  BY <1>2, <1>6

LEMMA BetterIsOrder ==
    ASSUME NEW mode, NEW signals, Weighed(signals),
           NEW r, NEW q, NEW t, IsRule(r), IsRule(q), IsRule(t)
    PROVE  /\ ~(Better(r, q, mode, signals) /\ Better(q, r, mode, signals))
           /\ Better(r, q, mode, signals) =>
                 Better(r, t, mode, signals) \/ Better(t, q, mode, signals)
<1> DEFINE u(x) == Utility(x, signals)
           d(x) == Divisor(x)
<1>1. /\ u(r) \in Int /\ d(r) \in Nat \ {0}
      /\ u(q) \in Int /\ d(q) \in Nat \ {0}
      /\ u(t) \in Int /\ d(t) \in Nat \ {0}
  BY UtilityIsNumber
<1>2. CASE mode \in {"utility", "anchor_utility"}
  BY <1>1, <1>2 DEF Better
<1>3. CASE mode = "utility_per_token"
  <2>1. \A x, y : Better(x, y, mode, signals) <=> u(x) * d(y) > u(y) * d(x)
    BY <1>3 DEF Better
  <2> HIDE DEF u, d
  <2>2. \A x, y \in Int : \A v, w \in Nat \ {0} :
            x * w \in Int /\ y * v \in Int /\ (~(x * w > y * v) <=> x * w <= y * v)
    OBVIOUS
  <2>3. u(r) * d(t) <= u(t) * d(r) /\ u(t) * d(q) <= u(q) * d(t)
            => u(r) * d(q) <= u(q) * d(r)
    BY <1>1, CrossProducts
  <2>4. /\ ~(u(r) * d(q) > u(q) * d(r)) <=> u(r) * d(q) <= u(q) * d(r)
        /\ ~(u(r) * d(t) > u(t) * d(r)) <=> u(r) * d(t) <= u(t) * d(r)
        /\ ~(u(t) * d(q) > u(q) * d(t)) <=> u(t) * d(q) <= u(q) * d(t)
        /\ ~(u(r) * d(q) > u(q) * d(r) /\ u(q) * d(r) > u(r) * d(q))
    BY <1>1, <2>2
  <2> QED
    BY <2>1, <2>3, <2>4
<1>4. CASE mode \in {"mean_classroom_utility", "worst_student_utility"}
  BY <1>4 DEF Better, IsRule
<1>5. CASE mode \notin {"utility", "anchor_utility", "utility_per_token",
                        "mean_classroom_utility", "worst_student_utility"}
  BY <1>5 DEF Better, IsRule
<1> QED
  BY <1>2, <1>3, <1>4, <1>5

LEMMA OutranksIsOrder ==
    ASSUME NEW mode, NEW signals, Weighed(signals),
           NEW r, NEW q, NEW t, IsRule(r), IsRule(q), IsRule(t)
    PROVE  /\ ~(Outranks(r, q, mode, signals) /\ Outranks(q, r, mode, signals))
           /\ Outranks(r, q, mode, signals) =>
                 Outranks(r, t, mode, signals) \/ Outranks(t, q, mode, signals)
<1>1. /\ ~(Better(r, q, mode, signals) /\ Better(q, r, mode, signals))
      /\ Better(r, q, mode, signals) =>
            Better(r, t, mode, signals) \/ Better(t, q, mode, signals)
  BY BetterIsOrder
<1>2. r.priority \in Int /\ q.priority \in Int /\ t.priority \in Int
  BY DEF IsRule
<1> QED
  BY <1>1, <1>2 DEF Outranks

AllRules(rs) == \A i \in DOMAIN rs : IsRule(rs[i])

\* The stable order of the positions is strict and total.
LEMMA PrecedesIsOrder ==
    ASSUME NEW rs, AllRules(rs), DOMAIN rs \subseteq Nat,
           NEW mode, NEW signals, Weighed(signals),
           NEW i \in DOMAIN rs, NEW j \in DOMAIN rs, NEW k \in DOMAIN rs
    PROVE  LET P(x, y) == Precedes(rs, x, y, mode, signals) IN
           /\ ~P(i, i)
           /\ i # j => P(i, j) \/ P(j, i)
           /\ P(i, j) => rs[i].priority <= rs[j].priority
           /\ P(i, j) /\ P(j, k) => P(i, k)
<1> DEFINE O(x, y) == Outranks(rs[x], rs[y], mode, signals)
           P(x, y) == Precedes(rs, x, y, mode, signals)
<1>1. IsRule(rs[i]) /\ IsRule(rs[j]) /\ IsRule(rs[k])
  BY DEF AllRules
<1>2. /\ ~O(i, i)
      /\ ~(O(i, j) /\ O(j, i)) /\ ~(O(j, k) /\ O(k, j)) /\ ~(O(i, k) /\ O(k, i))
      /\ O(k, i) => O(k, j) \/ O(j, i)
      /\ O(i, j) => O(i, k) \/ O(k, j)
      /\ O(j, k) => O(j, i) \/ O(i, k)
  BY <1>1, OutranksIsOrder
<1>3. \A x, y : P(x, y) <=> O(x, y) \/ (x < y /\ ~O(y, x))
  BY DEF Precedes
<1>4. P(i, j) => rs[i].priority <= rs[j].priority
  <2>1. P(i, j) => ~O(j, i)
    BY <1>2, <1>3
  <2>2. ~O(j, i) => ~(rs[j].priority < rs[i].priority)
    BY DEF Outranks
  <2>3. rs[i].priority \in Int /\ rs[j].priority \in Int
    BY <1>1 DEF IsRule
  <2> QED
    BY <2>1, <2>2, <2>3
<1> HIDE DEF O, P
<1>5. /\ ~(i < i) /\ (i # j => i < j \/ j < i) /\ (i < j /\ j < k => i < k)
  OBVIOUS
<1>6. P(i, j) /\ P(j, k) => P(i, k)
  BY <1>2, <1>3, <1>5
<1>7. ~P(i, i) /\ (i # j => P(i, j) \/ P(j, i))
  BY <1>2, <1>3, <1>5
<1> QED
  BY <1>4, <1>6, <1>7 DEF P

\* The positions of the rules that can stay, and how many of them come before one.
Able(rs) == {i \in DOMAIN rs : Eligible(rs[i])}
Sooner(rs, i, mode, signals) ==
    {j \in Able(rs) : Precedes(rs, j, i, mode, signals)}

\* Every place of the ranking is taken by exactly one of them.
LEMMA PlacesTaken ==
    ASSUME NEW rs, AllRules(rs), DOMAIN rs \subseteq Nat, IsFiniteSet(DOMAIN rs),
           NEW mode, NEW signals, Weighed(signals)
    PROVE  LET behind == [i \in Able(rs) |-> Cardinality(Sooner(rs, i, mode, signals))]
           IN /\ Cardinality(Able(rs)) \in Nat
              /\ behind \in Bijection(Able(rs), 0..(Cardinality(Able(rs)) - 1))
              /\ \A i, j \in Able(rs) :
                    behind[i] < behind[j] => rs[i].priority <= rs[j].priority
<1> DEFINE A == Able(rs)
           P(i, j) == Precedes(rs, i, j, mode, signals)
           S(i) == Sooner(rs, i, mode, signals)
           behind == [i \in A |-> Cardinality(S(i))]
           m == Cardinality(A)
<1>1. IsFiniteSet(A) /\ m \in Nat /\ A \subseteq DOMAIN rs
  <2>1. A \in SUBSET DOMAIN rs
    BY DEF Able
  <2> QED
    BY <2>1, FS_Subset, FS_CardinalityType
<1>2. \A i \in A : S(i) = {j \in A : P(j, i)}
  BY DEF Sooner
<1>3. \A i, j, k \in A :
         /\ ~P(i, i)
         /\ i # j => P(i, j) \/ P(j, i)
         /\ P(i, j) => rs[i].priority <= rs[j].priority
         /\ P(i, j) /\ P(j, k) => P(i, k)
  BY <1>1, PrecedesIsOrder
<1> HIDE DEF A, P, S, m
<1>4. ASSUME NEW T \in SUBSET A, NEW U \in SUBSET T, NEW x \in T, x \notin U
      PROVE  Cardinality(U) \in Nat /\ Cardinality(U) < Cardinality(T)
  <2>1. IsFiniteSet(T)
    BY <1>1, FS_Subset
  <2>2. IsFiniteSet(U) /\ Cardinality(U) <= Cardinality(T) /\ Cardinality(T) # Cardinality(U)
    BY <1>4, <2>1, FS_Subset
  <2>3. Cardinality(U) \in Nat /\ Cardinality(T) \in Nat
    BY <2>1, <2>2, FS_CardinalityType
  <2> QED
    BY <2>2, <2>3
<1>5. ASSUME NEW i \in A, NEW j \in A, P(i, j) PROVE behind[i] < behind[j]
  <2>1. S(j) \in SUBSET A /\ S(i) \in SUBSET S(j) /\ i \in S(j) /\ i \notin S(i)
    BY <1>2, <1>3, <1>5
  <2> QED
    BY <1>4, <2>1
<1>6. ASSUME NEW i \in A PROVE behind[i] \in 0..(m - 1)
  <2>1. S(i) \in SUBSET A /\ A \in SUBSET A /\ i \notin S(i)
    BY <1>2, <1>3
  <2>2. Cardinality(S(i)) \in Nat /\ Cardinality(S(i)) < m
    BY <1>4, <2>1 DEF m
  <2> QED
    BY <1>1, <2>2
<1>7. behind \in Injection(A, 0..(m - 1))
  <2>1. behind \in [A -> 0..(m - 1)]
    BY <1>6
  <2>2. ASSUME NEW i \in A, NEW j \in A, behind[i] = behind[j] PROVE i = j
    <3> HIDE DEF behind
    <3>1. behind[i] \in Int /\ behind[j] \in Int
      BY <2>1
    <3>2. ~P(i, j) /\ ~P(j, i)
      BY <1>5, <2>2, <3>1
    <3> QED
      BY <1>3, <3>2
  <2> HIDE DEF behind
  <2> QED
    BY <2>1, <2>2 DEF Injection, IsInjective
<1> HIDE DEF behind
<1>8. behind \in Surjection(A, 0..(m - 1))
  <2>1. IsFiniteSet(0..(m - 1)) /\ Cardinality(0..(m - 1)) = m
    <3>1. 0 \in Int /\ m - 1 \in Int
      BY <1>1
    <3>2. /\ IsFiniteSet(0..(m - 1))
          /\ Cardinality(0..(m - 1)) = IF 0 > m - 1 THEN 0 ELSE (m - 1) - 0 + 1
      BY <3>1, FS_Interval
    <3> QED
      BY <1>1, <3>2
  <2> QED
    BY <1>7, <2>1, FS_Injection DEF m
<1>9. ASSUME NEW i \in A, NEW j \in A, behind[i] < behind[j]
      PROVE  rs[i].priority <= rs[j].priority
  <2>1. behind[i] \in Int /\ behind[j] \in Int
    BY <1>7 DEF Injection
  <2>2. ~P(j, i) /\ i # j
    BY <1>5, <1>9, <2>1
  <2> QED
    BY <1>3, <2>2
<1> QED
  BY <1>1, <1>7, <1>8, <1>9 DEF A, m, behind, S, Bijection

EligibleOf(rs) == {r \in Range(rs) : Eligible(r)}

\* The ranking has every rule that can stay, once, and the priorities do not decrease.
LEMMA RankedRules ==
    ASSUME NEW rs, AllRules(rs), DOMAIN rs \subseteq Nat, IsFiniteSet(DOMAIN rs),
           IsInjectiveList(rs), NEW mode, NEW signals, Weighed(signals)
    PROVE  LET ranked == Ranked(rs, mode, signals) IN
           /\ ranked \in Seq(EligibleOf(rs)) /\ IsInjectiveList(ranked)
           /\ Range(ranked) = EligibleOf(rs)
           /\ \A a, b \in DOMAIN ranked : a < b => ranked[a].priority <= ranked[b].priority
<1> DEFINE A == Able(rs)
           behind == [i \in A |-> Cardinality(Sooner(rs, i, mode, signals))]
           m == Cardinality(A)
           place == [n \in 1..m |-> CHOOSE i \in A : behind[i] = n - 1]
           ranked == [n \in 1..m |-> rs[place[n]]]
<1>1. /\ m \in Nat
      /\ behind \in Bijection(A, 0..(m - 1))
      /\ \A i, j \in A : behind[i] < behind[j] => rs[i].priority <= rs[j].priority
  BY PlacesTaken
<1>2. Ranked(rs, mode, signals) = ranked
  <2>1. A = {i \in DOMAIN rs : Eligible(rs[i])}
    BY DEF Able
  <2>2. \A i \in A : behind[i] = Cardinality({j \in A : Precedes(rs, j, i, mode, signals)})
    BY DEF Sooner
  <2>3. \A n \in 1..m :
            (CHOOSE i \in A : behind[i] = n - 1)
          = (CHOOSE i \in A :
                Cardinality({j \in A : Precedes(rs, j, i, mode, signals)}) = n - 1)
    <3> HIDE DEF behind, m, A
    <3> QED
      BY <2>2
  <2>4. ranked = [n \in 1..m |-> rs[CHOOSE i \in A :
                Cardinality({j \in A : Precedes(rs, j, i, mode, signals)}) = n - 1]]
    <3> HIDE DEF behind, m, A
    <3>1. \A n \in 1..m : place[n] =
            CHOOSE i \in A :
               Cardinality({j \in A : Precedes(rs, j, i, mode, signals)}) = n - 1
      BY <2>3
    <3> HIDE DEF place
    <3> QED
      BY <3>1
  <2> HIDE DEF ranked, behind, A
  <2> QED
    BY <2>1, <2>4 DEF Ranked, m
<1>3. A \subseteq DOMAIN rs /\ \A i \in A : rs[i] \in EligibleOf(rs)
  BY DEF Able, EligibleOf, Range
<1>4. \A r \in EligibleOf(rs) : \E i \in A : rs[i] = r
  BY DEF Able, EligibleOf, Range
<1> HIDE DEF A, behind, m
<1>5. ASSUME NEW n \in 1..m PROVE place[n] \in A /\ behind[place[n]] = n - 1
  <2>1. n - 1 \in 0..(m - 1)
    BY <1>1
  <2>2. \E i \in A : behind[i] = n - 1
    BY <1>1, <2>1 DEF Bijection, Surjection
  <2> QED
    BY <2>2
<1>6. \A i \in A : \E n \in 1..m : place[n] = i
  <2>1. SUFFICES ASSUME NEW i \in A PROVE \E n \in 1..m : place[n] = i
    OBVIOUS
  <2>2. behind[i] \in 0..(m - 1)
    BY <1>1 DEF Bijection, Injection
  <2>3. behind[i] + 1 \in 1..m /\ (behind[i] + 1) - 1 = behind[i]
    BY <1>1, <2>2
  <2>4. place[behind[i] + 1] \in A /\ behind[place[behind[i] + 1]] = behind[i]
    BY <1>5, <2>3
  <2>5. place[behind[i] + 1] = i
    <3>1. \A x, y \in A : behind[x] = behind[y] => x = y
      BY <1>1 DEF Bijection, Injection, IsInjective
    <3> HIDE DEF place
    <3> QED
      BY <2>4, <3>1
  <2> HIDE DEF place
  <2> QED
    BY <2>3, <2>5
<1> HIDE DEF place
<1>7. ranked \in Seq(EligibleOf(rs)) /\ DOMAIN ranked = 1..m
  BY <1>1, <1>3, <1>5
<1>8. IsInjectiveList(ranked)
  <2>1. SUFFICES ASSUME NEW a \in 1..m, NEW b \in 1..m, rs[place[a]] = rs[place[b]]
                 PROVE  a = b
    BY DEF IsInjectiveList
  <2>2. place[a] = place[b]
    BY <1>3, <1>5, <2>1 DEF IsInjectiveList
  <2>3. a - 1 = b - 1
    BY <1>5, <2>2
  <2> QED
    BY <2>3
<1>9. Range(ranked) = EligibleOf(rs)
  <2>1. \A x \in Range(ranked) : x \in EligibleOf(rs)
    BY <1>3, <1>5 DEF Range
  <2>2. ASSUME NEW r \in EligibleOf(rs) PROVE r \in Range(ranked)
    <3>1. PICK n \in 1..m : rs[place[n]] = r
      BY <1>4, <1>6
    <3>2. ranked[n] = r /\ n \in DOMAIN ranked
      BY <3>1
    <3> HIDE DEF ranked
    <3> QED
      BY <3>2 DEF Range
  <2> QED
    BY <2>1, <2>2
<1>10. ASSUME NEW a \in 1..m, NEW b \in 1..m, a < b
       PROVE  ranked[a].priority <= ranked[b].priority
  <2>1. place[a] \in A /\ place[b] \in A /\ behind[place[a]] < behind[place[b]]
    BY <1>5, <1>10
  <2> QED
    BY <1>1, <2>1
<1> HIDE DEF ranked
<1> QED
  BY <1>2, <1>7, <1>8, <1>9, <1>10

-----------------------------------------------------------------------------
(* What pruning leaves out *)

LEMMA FirstRules ==
    ASSUME NEW R, NEW s \in Seq(R)
    PROVE  LET fit == IF Len(s) > MaxRules THEN MaxRules ELSE Len(s) IN
           /\ Capped(s) \in Seq(R) /\ Len(Capped(s)) = fit
           /\ fit \in Nat /\ fit <= Len(s) /\ fit <= MaxRules
           /\ \A i \in 1..fit : Capped(s)[i] = s[i]
<1> DEFINE fit == IF Len(s) > MaxRules THEN MaxRules ELSE Len(s)
<1>1. fit \in 0..Len(s) /\ fit <= MaxRules
  BY PruningAssumption
<1> HIDE DEF fit
<1>2. /\ SubSeq(s, 1, fit) \in Seq(R) /\ Len(SubSeq(s, 1, fit)) = fit
      /\ \A i \in 1..fit : SubSeq(s, 1, fit)[i] = s[i]
  BY <1>1
<1> QED
  BY <1>1, <1>2 DEF Capped, fit

\* The rules that stand before the i-th are as many as their places.
LEMMA AheadCounted ==
    ASSUME NEW R, NEW s \in Seq(R), IsInjectiveList(s), NEW n \in Nat, n < Len(s),
           NEW S, IsFiniteSet(S), \A j \in 1..n : s[j] \in S
    PROVE  Cardinality(S) >= n
<1> DEFINE f == [j \in 1..n |-> s[j]]
<1>1. \A j \in 1..n : j \in DOMAIN s
  OBVIOUS
<1>2. f \in Injection(1..n, S)
  BY <1>1 DEF Injection, IsInjective, IsInjectiveList
<1>3. Cardinality(1..n) <= Cardinality(S)
  <2> HIDE DEF f
  <2> QED
    BY <1>2, FS_Injection
<1>4. Cardinality(1..n) = n
  <2>1. Cardinality(1..n) = IF 1 > n THEN 0 ELSE n - 1 + 1
    BY FS_Interval
  <2> QED
    BY <2>1
<1>5. Cardinality(S) \in Nat
  BY FS_CardinalityType
<1> QED
  BY <1>3, <1>4, <1>5

NoLater(S, r) == {q \in S : q.priority <= r.priority}

LEMMA PrunedRules ==
    ASSUME NEW rs, AllRules(rs), DOMAIN rs \subseteq Nat, IsFiniteSet(DOMAIN rs),
           IsInjectiveList(rs), NEW mode, NEW signals, Weighed(signals)
    PROVE  LET left == Pruned(rs, mode, signals)
               kept == Range(left)
           IN /\ kept \subseteq Range(rs) /\ Len(left) <= MaxRules
              /\ Total(kept) <= MaxPromptTokens
              /\ \A r \in EligibleOf(rs) \ kept :
                    \/ Cardinality(NoLater(EligibleOf(rs) \ {r}, r)) >= MaxRules
                    \/ Total(NoLater(kept, r)) + Cost(r) > MaxPromptTokens
<1> DEFINE E == EligibleOf(rs)
           left == Pruned(rs, mode, signals)
           kept == Range(left)
<1>1. PICK s : s = Ranked(rs, mode, signals)
  OBVIOUS
<1>2. PICK c : c = Capped(s)
  OBVIOUS
<1>3. left = WithinBudget(c)
  BY <1>1, <1>2 DEF Pruned
<1>4. /\ s \in Seq(E) /\ IsInjectiveList(s) /\ Range(s) = E
      /\ \A a, b \in DOMAIN s : a < b => s[a].priority <= s[b].priority
  BY <1>1, RankedRules
<1>5. E \subseteq Range(rs) /\ \A r \in E : Cost(r) \in Nat /\ r.priority \in Int
  <2>1. \A r \in E : IsRule(r)
    BY DEF EligibleOf, Range, AllRules
  <2> QED
    BY <2>1 DEF EligibleOf, Cost, IsRule
<1> HIDE DEF E, left
<1> DEFINE fit == Len(c)
<1>6. /\ c \in Seq(E) /\ fit = IF Len(s) > MaxRules THEN MaxRules ELSE Len(s)
      /\ fit \in Nat /\ fit <= Len(s) /\ fit <= MaxRules
      /\ \A i \in 1..fit : c[i] = s[i]
  BY <1>2, <1>4, FirstRules
<1>7. DOMAIN s = 1..Len(s) /\ Len(s) \in Nat /\ DOMAIN c = 1..fit
      /\ \A i \in 1..fit : i \in DOMAIN s
  BY <1>4, <1>6
<1>8. IsInjectiveList(c)
  BY <1>4, <1>6, <1>7 DEF IsInjectiveList
<1>9. PICK acc : Budgeted(c, fit, acc) /\ left = acc.kept
  BY <1>3, <1>5, <1>6, <1>8, BudgetKept
<1>10. /\ left \in Seq(kept) /\ Len(left) <= fit
       /\ kept \subseteq Ahead(c, fit + 1) /\ Costed(kept)
       /\ Total(kept) \in 0..MaxPromptTokens
       /\ \A i \in 1..fit : c[i] \notin kept =>
             \E T \in SUBSET (kept \cap Ahead(c, i)) : Total(T) + Cost(c[i]) > MaxPromptTokens
  <2> HIDE DEF fit
  <2> QED
    BY <1>9 DEF Budgeted
<1> HIDE DEF fit
<1>11. \A i \in 1..fit : \A q \in Ahead(c, i) : q \in E /\ q.priority <= s[i].priority
  <2>1. SUFFICES ASSUME NEW i \in 1..fit, NEW j \in 1..(i - 1)
                 PROVE  c[j] \in E /\ c[j].priority <= s[i].priority
    BY DEF Ahead
  <2>2. j \in 1..fit /\ j < i
    BY <1>6
  <2> QED
    BY <1>4, <1>6, <1>7, <2>2
<1>12. kept \subseteq E
  <2>1. \A j \in 1..((fit + 1) - 1) : j \in DOMAIN c
    BY <1>6, <1>7
  <2>2. \A j \in DOMAIN c : c[j] \in E
    BY <1>6
  <2>3. Ahead(c, fit + 1) \subseteq E
    BY <2>1, <2>2 DEF Ahead
  <2> QED
    BY <1>10, <2>3
<1> HIDE DEF kept
<1>13. IsFiniteSet(E)
  <2>1. IsFiniteSet(DOMAIN s)
    BY <1>7, FS_Interval
  <2>2. s \in Surjection(DOMAIN s, E)
    BY <1>4 DEF Range, Surjection
  <2> QED
    BY <2>1, <2>2, FS_Surjection
<1>14. ASSUME NEW r \in E, r \notin kept
       PROVE  \/ Cardinality(NoLater(E \ {r}, r)) >= MaxRules
              \/ Total(NoLater(kept, r)) + Cost(r) > MaxPromptTokens
  <2>1. PICK i \in DOMAIN s : s[i] = r
    BY <1>4 DEF Range
  <2>2. i \in Nat
    BY <1>7
  <2>3. CASE i \in 1..fit
    <3>1. c[i] = r
      BY <1>6, <2>1, <2>3
    <3>2. PICK T \in SUBSET (kept \cap Ahead(c, i)) : Total(T) + Cost(r) > MaxPromptTokens
      BY <1>10, <1>14, <2>3, <3>1
    <3>3. T \in SUBSET NoLater(kept, r)
      BY <1>11, <2>1, <2>3 DEF NoLater
    <3>4. Costed(NoLater(kept, r))
      BY <1>10, FS_Subset DEF NoLater, Costed
    <3>5. /\ Total(T) \in Nat /\ Total(NoLater(kept, r)) \in Nat
          /\ Total(T) <= Total(NoLater(kept, r))
      BY <3>3, <3>4, TotalMonotone
    <3> QED
      BY <1>5, <3>2, <3>5, PruningAssumption
  <2>4. CASE i \notin 1..fit
    <3>1. fit = MaxRules /\ MaxRules \in Nat /\ MaxRules < i /\ i <= Len(s) /\ i \in Nat
      <4>1. PICK n : n = Len(s)
        OBVIOUS
      <4>2. i \in 1..n /\ n \in Nat /\ fit \in Nat
        BY <1>6, <1>7, <4>1
      <4>3. fit < i
        BY <2>4, <4>2
      <4>4. fit = IF n > MaxRules THEN MaxRules ELSE n
        BY <1>6, <4>1
      <4> QED
        BY <4>1, <4>2, <4>3, <4>4, PruningAssumption
    <3>2. \A j \in 1..MaxRules : s[j] \in NoLater(E \ {r}, r)
      <4>1. SUFFICES ASSUME NEW j \in 1..MaxRules PROVE s[j] \in NoLater(E \ {r}, r)
        OBVIOUS
      <4>2. j \in DOMAIN s /\ j < i
        BY <1>7, <3>1
      <4>3. s[j] \in E /\ s[j] # r /\ s[j].priority <= r.priority
        BY <1>4, <2>1, <4>2 DEF IsInjectiveList
      <4> QED
        BY <4>3 DEF NoLater
    <3>3. IsFiniteSet(NoLater(E \ {r}, r))
      BY <1>13, FS_Subset DEF NoLater
    <3>4. MaxRules < Len(s)
      BY <1>7, <3>1
    <3> QED
      BY <1>4, <3>1, <3>2, <3>3, <3>4, AheadCounted
  <2> QED
    BY <2>3, <2>4
<1>15. Len(left) <= MaxRules /\ Total(kept) <= MaxPromptTokens /\ kept \subseteq Range(rs)
  <2>1. Len(left) \in Nat
    BY <1>10
  <2> QED
    BY <1>5, <1>6, <1>10, <1>12, <2>1, PruningAssumption
<1> QED
  BY <1>14, <1>15 DEF E, left, kept

-----------------------------------------------------------------------------
(* The rules that are pruned *)

\* What is known of the analysis, and of the rules once the actions are applied.
Prunable ==
    /\ at \in {"ask", "apply", "prune"} => IsFiniteSet(DOMAIN analysis)
    /\ at = "prune" => /\ AllRules(rules) /\ IsInjectiveList(rules)
                       /\ \E n \in Nat : DOMAIN rules = 1..n

LEMMA SignalsAreNumbers ==
    ASSUME NEW a, IsFiniteSet(DOMAIN a)
    PROVE  Weighed(Signals(a))
<1>1. ASSUME NEW class, NEW id, NEW S \in SUBSET Having(a, class) PROVE Cardinality(S) \in Nat
  <2>1. S \in SUBSET DOMAIN a
    BY DEF Having
  <2> QED
    BY <2>1, FS_Subset, FS_CardinalityType
<1>2. ASSUME NEW id \in DOMAIN Signals(a)
      PROVE  Signals(a)[id].fixed \in Nat /\ Signals(a)[id].broken \in Nat
  <2> DEFINE fixed == {c \in Having(a, "fixed") : id \in a[c].matched}
             broken == {c \in Having(a, "broken") : id \in a[c].violated}
  <2>1. Cardinality(fixed) \in Nat /\ Cardinality(broken) \in Nat
    BY <1>1
  <2>2. /\ Signals(a)[id].fixed = Cardinality(fixed)
        /\ Signals(a)[id].broken = Cardinality(broken)
    BY <1>2 DEF Signals
  <2> QED
    BY <2>1, <2>2
<1> QED
  BY <1>2 DEF Weighed

LEMMA PrunableStep == ChoiceInv /\ Asked /\ Prunable /\ [Next]_vars => Prunable'
<1> SUFFICES ASSUME ChoiceInv, Asked, Prunable, [Next]_vars PROVE Prunable'
  OBVIOUS
<1>1. CASE CheckGates \/ SelectOne \/ Prune
  <2>1. at' \notin {"ask", "apply", "prune"}
    BY <1>1 DEF CheckGates, SelectOne, Prune
  <2> QED
    BY <2>1 DEF Prunable
<1>2. CASE Analyze
  <2>1. at' = "ask" /\ DOMAIN analysis' = DOMAIN evals[selected]
    BY <1>2 DEF Analyze, Analyzed
  <2>2. DOMAIN evals[selected] \in SUBSET Cases
    BY <1>2, EvaluatedNow DEF Evaluations
  <2>3. IsFiniteSet(DOMAIN analysis')
    BY <2>1, <2>2, FS_Subset, SelectAndRefineAssumption
  <2> QED
    BY <2>1, <2>3 DEF Prunable
<1>3. CASE AskTeacher
  <2>1. at = "ask" /\ at' = "apply" /\ analysis' = analysis
    BY <1>3 DEF AskTeacher
  <2> QED
    BY <2>1 DEF Prunable
<1>4. CASE ApplyActions
  <2>1. at = "apply" /\ at' = "prune" /\ rules' = Applied(rules, shown.answer)
        /\ analysis' = analysis
    BY <1>4 DEF ApplyActions
  <2>2. PICK rs : rs = rules'
    OBVIOUS
  <2>3. /\ \A i, j \in DOMAIN rs : rs[i].id = rs[j].id => i = j
        /\ \A i \in DOMAIN rs : IsRule(rs[i])
        /\ \E n \in Nat : DOMAIN rs = 1..n
    BY <2>1, <2>2, AppliedRules
  <2>4. AllRules(rs) /\ IsInjectiveList(rs)
    BY <2>3 DEF AllRules, IsInjectiveList
  <2> QED
    BY <2>1, <2>2, <2>3, <2>4 DEF Prunable, AllRules, IsInjectiveList
<1>5. CASE UNCHANGED vars
  BY <1>5 DEF vars, Prunable, AllRules, IsInjectiveList
<1> QED
  BY <1>1, <1>2, <1>3, <1>4, <1>5 DEF Next

\* What a step of pruning does.
PrunedWell ==
    LET kept == Range(rules')
        Before(S, r) == {q \in S : q.priority <= r.priority}
    IN /\ kept \subseteq Range(rules) /\ Len(rules') <= MaxRules
       /\ Total(kept) <= MaxPromptTokens
       /\ \A r \in {q \in Range(rules) : Eligible(q)} \ kept :
             \/ Cardinality(Before({q \in Range(rules) : Eligible(q)} \ {r}, r)) >= MaxRules
             \/ Total(Before(kept, r)) + Cost(r) > MaxPromptTokens

LEMMA PruneStep ==
    ASSUME Prunable, [Next]_vars, vars' # vars, at = "prune"
    PROVE  PrunedWell
<1>1. Prune
  BY DEF Next, CheckGates, SelectOne, Analyze, AskTeacher, ApplyActions, vars
<1>2. PICK mode \in RankingModes : rules' = Pruned(rules, mode, Signals(analysis))
  BY <1>1 DEF Prune
<1>3. PICK n \in Nat : DOMAIN rules = 1..n
  BY DEF Prunable
<1>4. AllRules(rules) /\ IsInjectiveList(rules) /\ IsFiniteSet(DOMAIN analysis)
  BY DEF Prunable
<1>5. DOMAIN rules \subseteq Nat /\ IsFiniteSet(DOMAIN rules)
  BY <1>3, FS_Interval
<1>6. Weighed(Signals(analysis))
  BY <1>4, SignalsAreNumbers
<1>7. PICK rs : rs = rules
  OBVIOUS
<1>8. PICK left : left = Pruned(rs, mode, Signals(analysis))
  OBVIOUS
<1>9. PICK signals : signals = Signals(analysis)
  OBVIOUS
<1>10. LET kept == Range(left) IN
       /\ kept \subseteq Range(rs) /\ Len(left) <= MaxRules
       /\ Total(kept) <= MaxPromptTokens
       /\ \A r \in EligibleOf(rs) \ kept :
             \/ Cardinality(NoLater(EligibleOf(rs) \ {r}, r)) >= MaxRules
             \/ Total(NoLater(kept, r)) + Cost(r) > MaxPromptTokens
  BY <1>4, <1>5, <1>6, <1>7, <1>8, <1>9, PrunedRules
<1>11. rules' = left
  BY <1>2, <1>7, <1>8
<1> QED
  BY <1>7, <1>10, <1>11 DEF PrunedWell, EligibleOf, NoLater

\* Whatever rules the teacher leaves and however they are ranked, those that go into the
\* prompt are within both limits, and a rule that could stay is left out only for rules of
\* its priority or before it.
THEOREM PruningHolds == Spec => PruningSound
<1>1. Init => Prunable
  BY DEF Init, Prunable
<1>2. Init => Asked
  BY DEF Init, Asked
<1>3. Spec => [](ChoiceInv /\ Asked /\ Prunable)
  BY <1>1, <1>2, ChoiceHolds, AskedStep, PrunableStep, PTL DEF Spec
<1>4. Prunable /\ [Next]_vars => [at = "prune" => PrunedWell]_vars
  BY PruneStep
<1> QED
  BY <1>3, <1>4, PTL DEF Spec, PruningSound, PrunedWell

=============================================================================
