----------------------------- MODULE ExecuteProofs -----------------------------
(***************************************************************************)
(* Proofs about Execute, for every set of books, titles and plans and      *)
(* every budget: type correctness, that no contribution is lost, that a    *)
(* loop settles for less only when its budget is spent, and what a         *)
(* screening decides, whether titles tell the books apart or not.          *)
(***************************************************************************)
EXTENDS Execute, TLAPS

(***************************************************************************)
(* The inductive invariant.                                                *)
(***************************************************************************)

\* The nodes a capability can be at.
NodesOf(c) ==
  CASE c = "recommend" -> {"off", "generate", "validate", "emit", "done"}
    [] c = "evaluate"  -> {"off", "prepare", "evaluate", "validate", "emit", "done"}
    [] OTHER           -> {"off", "run", "done"}

\* A capability is on from the dispatch if it is planned, and over at the end.
NodesFollowPlan ==
  /\ \A c \in REGISTRY : node[c] \in NodesOf(c)
  /\ pc = "dispatch" => \A c \in REGISTRY : node[c] = "off"
  /\ pc # "dispatch" => \A c \in REGISTRY : node[c] = "off" <=> c \notin steps
  /\ pc = "end" => Finished

\* What is contributed is that of a finished capability, as its loop left it.
Contributed ==
  /\ \A r \in results :
        /\ node[r.name] = "done"
        /\ r.name = "recommend" => r.material = (books # {})
        /\ r.name = "evaluate" => r.material = (evaluation # "")
  /\ \A c \in Graphs : node[c] = "done" => \E r \in results : r.name = c
  /\ pc = "end" => DOMAIN capability_results = {r.name : r \in results}

\* An attempt is made while one is left; a loop ends with its work or without
\* an attempt left.
RecommendBudget ==
  /\ node["recommend"] \in {"off", "generate"} => recommend_attempts < MaxAttempts
  /\ node["recommend"] \in {"emit", "done"} => books # {} \/ recommend_attempts = MaxAttempts

EvaluateBudget ==
  /\ node["evaluate"] \in {"off", "prepare", "evaluate"} => evaluate_attempts < MaxAttempts
  /\ node["evaluate"] \in {"emit", "done"} =>
        (reviewed /\ evaluation # "") \/ evaluate_attempts = MaxAttempts

IInv == TypeOK /\ NodesFollowPlan /\ Contributed /\ RecommendBudget /\ EvaluateBudget

-----------------------------------------------------------------------------
\* The budget.
LEMMA Budget == MaxAttempts \in Nat /\ 0 < MaxAttempts
BY ExecuteAssumption

LEMMA NextAttempt ==
  ASSUME NEW attempts \in 0..MaxAttempts, attempts < MaxAttempts
  PROVE  Attempt(attempts) \in 0..MaxAttempts
BY Budget DEF Attempt

LEMMA SpentOrNot ==
  ASSUME NEW attempts \in 0..MaxAttempts
  PROVE  IF BudgetSpent(attempts) THEN attempts = MaxAttempts ELSE attempts < MaxAttempts
BY Budget DEF BudgetSpent

\* A screening may say nothing of a list.
LEMMA NoJudgementType == \A list : NoJudgement \in Judgements(list)
<1>1. NoJudgement \in [{} -> BOOLEAN]
  BY DEF NoJudgement
<1> QED
  BY <1>1 DEF Judgements

LEMMA InitInv == Init => IInv
<1> SUFFICES ASSUME Init PROVE IInv
  OBVIOUS
<1>1. TypeOK
  <2>1. capability_results \in [{} -> Material]
    BY DEF Init
  <2>2. capability_results \in UNION {[names -> Material] : names \in SUBSET REGISTRY}
    BY <2>1
  <2>3. evaluation \in {"", "text"}
    BY Zenon DEF Init
  <2>4. steps \subseteq REGISTRY
    BY ExecuteAssumption DEF Init
  <2>5. node \in [REGISTRY -> Nodes]
    BY DEF Init, Nodes
  <2>6. recommend_attempts \in 0..MaxAttempts /\ evaluate_attempts \in 0..MaxAttempts
    <3>1. recommend_attempts = 0 /\ evaluate_attempts = 0
      BY DEF Init
    <3> QED
      BY <3>1, Budget
  <2> QED
    BY <2>2, <2>3, <2>4, <2>5, <2>6, NoJudgementType DEF Init, TypeOK
<1>2. NodesFollowPlan
  BY DEF Init, NodesFollowPlan, NodesOf, REGISTRY
<1>3. Contributed
  BY DEF Init, Contributed, Graphs, REGISTRY
<1>4. RecommendBudget /\ EvaluateBudget
  <2>1. /\ node["recommend"] = "off" /\ node["evaluate"] = "off"
        /\ recommend_attempts = 0 /\ evaluate_attempts = 0
    BY DEF Init, REGISTRY
  <2> QED
    BY <2>1, Budget DEF RecommendBudget, EvaluateBudget
<1> QED
  BY <1>1, <1>2, <1>3, <1>4 DEF IInv

LEMMA DispatchInv == IInv /\ Dispatch => IInv'
<1> SUFFICES ASSUME IInv, Dispatch PROVE IInv'
  OBVIOUS
<1> USE DEF IInv, Dispatch, recommend_vars, evaluate_vars
<1>1. \A c \in REGISTRY : node'[c] = IF c \in steps THEN Entry(c) ELSE "off"
  OBVIOUS
<1>2. \A c \in REGISTRY : Entry(c) \in NodesOf(c) \ {"off", "done", "emit"}
  BY DEF Entry, NodesOf, REGISTRY
<1>3. \A c \in REGISTRY : NodesOf(c) \subseteq Nodes
  BY DEF NodesOf, Nodes, REGISTRY
<1>4. results = {}
  <2>1. \A c \in REGISTRY : node[c] = "off"
    BY DEF NodesFollowPlan
  <2>2. \A r \in results : r.name \in REGISTRY
    BY DEF TypeOK
  <2> HIDE DEF IInv, Dispatch
  <2> QED
    BY <2>1, <2>2 DEF IInv, Contributed
<1>5. TypeOK'
  BY <1>1, <1>2, <1>3 DEF TypeOK, Nodes
<1>6. NodesFollowPlan'
  BY <1>1, <1>2 DEF NodesFollowPlan, NodesOf, REGISTRY
<1>7. Contributed'
  BY <1>1, <1>2, <1>4 DEF Contributed, Graphs, REGISTRY
<1>8. node["recommend"] = "off" /\ node["evaluate"] = "off"
  BY DEF NodesFollowPlan, REGISTRY
<1>9. RecommendBudget' /\ EvaluateBudget'
  BY <1>1, <1>2, <1>8 DEF RecommendBudget, EvaluateBudget, REGISTRY
<1> QED
  BY <1>5, <1>6, <1>7, <1>9

\* What a step of one capability leaves to show: the others stand where they
\* stood, and the channels of the end are untouched.
LEMMA OneMoves ==
  ASSUME NEW c \in REGISTRY, NEW to \in NodesOf(c) \ {"off"}, IInv,
         node[c] \notin {"off", "done"}, node' = [node EXCEPT ![c] = to],
         UNCHANGED <<steps, pc, capability_results>>
  PROVE  /\ node' \in [REGISTRY -> Nodes]
         /\ NodesFollowPlan'
         /\ node'[c] = to /\ \A d \in REGISTRY \ {c} : node'[d] = node[d]
         /\ pc # "end"
<1>1. node'[c] = to /\ \A d \in REGISTRY \ {c} : node'[d] = node[d]
  BY DEF IInv, TypeOK
<1>2. to \in Nodes
  BY DEF NodesOf, Nodes, REGISTRY
<1>3. pc # "end"
  BY DEF IInv, NodesFollowPlan, Finished
<1> QED
  BY <1>1, <1>2, <1>3 DEF IInv, TypeOK, NodesFollowPlan

LEMMA RunCapabilityInv == \A c \in REGISTRY : IInv /\ RunCapability(c) => IInv'
<1> SUFFICES ASSUME NEW c \in REGISTRY, IInv, RunCapability(c) PROVE IInv'
  OBVIOUS
<1> USE DEF RunCapability, recommend_vars, evaluate_vars
<1>1. c \notin Graphs
  BY DEF IInv, NodesFollowPlan, NodesOf, Graphs
<1>2. "done" \in NodesOf(c) \ {"off"}
  BY DEF NodesOf
<1>3. /\ node' \in [REGISTRY -> Nodes] /\ NodesFollowPlan' /\ pc # "end"
      /\ node'[c] = "done" /\ \A d \in REGISTRY \ {c} : node'[d] = node[d]
  <2>1. /\ node[c] \notin {"off", "done"} /\ node' = [node EXCEPT ![c] = "done"]
        /\ UNCHANGED <<steps, pc, capability_results>>
    OBVIOUS
  <2> HIDE DEF RunCapability
  <2> QED
    BY <1>2, <2>1, OneMoves
<1>4. results' = results \/ \E m \in Material : results' = results \cup {[name |-> c, material |-> m]}
  OBVIOUS
<1>5. TypeOK'
  <2>1. results' \subseteq [name : REGISTRY, material : Material]
    <3>1. \A m \in Material : [name |-> c, material |-> m] \in [name : REGISTRY, material : Material]
      OBVIOUS
    <3>2. results \subseteq [name : REGISTRY, material : Material]
      BY DEF IInv, TypeOK
    <3> HIDE DEF RunCapability
    <3> QED
      BY <1>4, <3>1, <3>2
  <2> QED
    BY <1>3, <2>1 DEF IInv, TypeOK
<1>6. \A r \in results' : r \in results \/ r.name = c
  BY <1>4
<1>7. \A r \in results : r.name \in REGISTRY
  BY DEF IInv, TypeOK
<1>8. Contributed'
  <2>1. UNCHANGED <<recommend_vars, evaluate_vars>>
    OBVIOUS
  <2> HIDE DEF RunCapability
  <2>2. Contributed
    BY DEF IInv
  <2>3. \A r \in results' : /\ node'[r.name] = "done"
                            /\ r.name = "recommend" => r.material = (books # {})
                            /\ r.name = "evaluate" => r.material = (evaluation # "")
    BY <1>1, <1>3, <1>6, <1>7, <2>2 DEF Contributed, Graphs
  <2>4. ASSUME NEW d \in Graphs, node'[d] = "done"
        PROVE  \E r \in results' : r.name = d
    <3>1. d \in REGISTRY \ {c}
      BY <1>1 DEF Graphs, REGISTRY
    <3>2. node[d] = "done" /\ results \subseteq results'
      BY <1>3, <1>4, <2>4, <3>1
    <3> QED
      BY <2>2, <3>2 DEF Contributed
  <2>5. pc' = pc
    BY DEF RunCapability
  <2> QED
    BY <1>3, <2>1, <2>3, <2>4, <2>5 DEF Contributed
<1>9. RecommendBudget' /\ EvaluateBudget'
  BY <1>1, <1>3 DEF IInv, RecommendBudget, EvaluateBudget, Graphs, REGISTRY
<1> QED
  BY <1>3, <1>5, <1>8, <1>9 DEF IInv

LEMMA GenerateInv == IInv /\ Generate => IInv'
<1> SUFFICES ASSUME IInv, Generate PROVE IInv'
  OBVIOUS
<1> USE DEF Generate, evaluate_vars
<1>1. "recommend" \in REGISTRY /\ "validate" \in NodesOf("recommend") \ {"off"}
  BY DEF NodesOf, REGISTRY
<1>2. /\ node' \in [REGISTRY -> Nodes] /\ NodesFollowPlan' /\ pc # "end"
      /\ node'["recommend"] = "validate"
      /\ \A d \in REGISTRY \ {"recommend"} : node'[d] = node[d]
  BY <1>1, OneMoves
<1>3. recommend_attempts' \in 0..MaxAttempts
  BY NextAttempt DEF IInv, TypeOK, RecommendBudget
<1>4. TypeOK'
  BY <1>2, <1>3 DEF IInv, TypeOK
<1>5. \A r \in results : r.name \in REGISTRY \ {"recommend"}
  BY DEF IInv, TypeOK, Contributed
<1>6. Contributed'
  BY <1>2, <1>5 DEF IInv, Contributed, Graphs, REGISTRY
<1>7. RecommendBudget' /\ EvaluateBudget'
  BY <1>2 DEF IInv, RecommendBudget, EvaluateBudget, REGISTRY
<1> QED
  BY <1>2, <1>4, <1>6, <1>7 DEF IInv

LEMMA ScreenInv == IInv /\ Screen => IInv'
<1> SUFFICES ASSUME IInv, Screen PROVE IInv'
  OBVIOUS
<1>1. /\ node["recommend"] = "validate"
      /\ node' = [node EXCEPT !["recommend"] = IF RetryRecommend THEN "generate" ELSE "emit"]
      /\ UNCHANGED <<steps, pc, recommend_attempts, evaluate_vars, results, capability_results>>
  BY DEF Screen
<1>2. /\ books' \subseteq Books /\ proposed' \subseteq Books /\ rejections' \in BOOLEAN
      /\ judged' \in Judgements(Books)
  <2>1. books \subseteq Books /\ proposed' = books
    BY DEF Screen, IInv, TypeOK
  <2>2. Judgements(books) \subseteq Judgements(Books)
    BY <2>1 DEF Judgements
  <2>3. books' \subseteq books /\ rejections' \in BOOLEAN
    BY DEF Screen, Kept
  <2>4. judged' \in Judgements(Books)
    BY <2>2, NoJudgementType DEF Screen
  <2> QED
    BY <2>1, <2>3, <2>4
<1>3. PICK to \in {"generate", "emit"} :
        /\ node' = [node EXCEPT !["recommend"] = to]
        /\ to = "generate" => recommend_attempts < MaxAttempts
        /\ to = "emit" => books' # {} \/ recommend_attempts = MaxAttempts
  <2>1. IF BudgetSpent(recommend_attempts) THEN recommend_attempts = MaxAttempts
                                           ELSE recommend_attempts < MaxAttempts
    BY SpentOrNot DEF IInv, TypeOK
  <2>2. CASE RetryRecommend
    BY <1>1, <2>1, <2>2 DEF RetryRecommend
  <2>3. CASE ~RetryRecommend
    BY <1>1, <2>1, <2>3 DEF RetryRecommend
  <2> QED
    BY <2>2, <2>3
<1>4. "recommend" \in REGISTRY /\ to \in NodesOf("recommend") \ {"off"}
  BY DEF NodesOf, REGISTRY
<1>5. /\ node' \in [REGISTRY -> Nodes] /\ NodesFollowPlan' /\ pc # "end"
      /\ node'["recommend"] = to
      /\ \A d \in REGISTRY \ {"recommend"} : node'[d] = node[d]
  BY <1>1, <1>3, <1>4, OneMoves
<1>6. TypeOK'
  BY <1>1, <1>2, <1>5 DEF IInv, TypeOK, evaluate_vars
<1>7. \A r \in results : r.name \in REGISTRY \ {"recommend"}
  BY <1>1 DEF IInv, TypeOK, Contributed
<1>8. Contributed'
  BY <1>1, <1>5, <1>7 DEF IInv, Contributed, Graphs, REGISTRY, evaluate_vars
<1>9. RecommendBudget' /\ EvaluateBudget'
  BY <1>1, <1>3, <1>5 DEF IInv, RecommendBudget, EvaluateBudget, REGISTRY, evaluate_vars
<1> QED
  BY <1>5, <1>6, <1>8, <1>9 DEF IInv

LEMMA PrepareInv == IInv /\ Prepare => IInv'
<1> SUFFICES ASSUME IInv, Prepare PROVE IInv'
  OBVIOUS
<1> USE DEF Prepare, recommend_vars
<1>1. "evaluate" \in REGISTRY /\ "evaluate" \in NodesOf("evaluate") \ {"off"}
  BY DEF NodesOf, REGISTRY
<1>2. /\ node' \in [REGISTRY -> Nodes] /\ NodesFollowPlan' /\ pc # "end"
      /\ node'["evaluate"] = "evaluate"
      /\ \A d \in REGISTRY \ {"evaluate"} : node'[d] = node[d]
  BY <1>1, OneMoves
<1>3. 0 < MaxAttempts /\ 0 \in 0..MaxAttempts
  BY ExecuteAssumption
<1>4. TypeOK'
  BY <1>2, <1>3 DEF IInv, TypeOK
<1>5. \A r \in results : r.name \in REGISTRY \ {"evaluate"}
  BY DEF IInv, TypeOK, Contributed
<1>6. Contributed'
  BY <1>2, <1>5 DEF IInv, Contributed, Graphs, REGISTRY
<1>7. RecommendBudget' /\ EvaluateBudget'
  BY <1>2, <1>3 DEF IInv, RecommendBudget, EvaluateBudget, REGISTRY
<1> QED
  BY <1>2, <1>4, <1>6, <1>7 DEF IInv

LEMMA AnalyseInv == IInv /\ Analyse => IInv'
<1> SUFFICES ASSUME IInv, Analyse PROVE IInv'
  OBVIOUS
<1> USE DEF Analyse, recommend_vars
<1>1. "evaluate" \in REGISTRY /\ "validate" \in NodesOf("evaluate") \ {"off"}
  BY DEF NodesOf, REGISTRY
<1>2. /\ node' \in [REGISTRY -> Nodes] /\ NodesFollowPlan' /\ pc # "end"
      /\ node'["evaluate"] = "validate"
      /\ \A d \in REGISTRY \ {"evaluate"} : node'[d] = node[d]
  BY <1>1, OneMoves
<1>3. evaluate_attempts' \in 0..MaxAttempts
  BY NextAttempt DEF IInv, TypeOK, EvaluateBudget
<1>4. TypeOK'
  BY <1>2, <1>3 DEF IInv, TypeOK
<1>5. \A r \in results : r.name \in REGISTRY \ {"evaluate"}
  BY DEF IInv, TypeOK, Contributed
<1>6. Contributed'
  BY <1>2, <1>5 DEF IInv, Contributed, Graphs, REGISTRY
<1>7. RecommendBudget' /\ EvaluateBudget'
  BY <1>2 DEF IInv, RecommendBudget, EvaluateBudget, REGISTRY
<1> QED
  BY <1>2, <1>4, <1>6, <1>7 DEF IInv

LEMMA ReviewInv == IInv /\ Review => IInv'
<1> SUFFICES ASSUME IInv, Review PROVE IInv'
  OBVIOUS
<1>1. /\ node["evaluate"] = "validate"
      /\ node' = [node EXCEPT !["evaluate"] = IF Revise THEN "evaluate" ELSE "emit"]
      /\ UNCHANGED <<steps, pc, recommend_vars, evaluation, evaluate_attempts, results,
                     capability_results>>
  BY DEF Review
<1>2. /\ feedback' \in BOOLEAN /\ reviewed' = ~feedback'
      /\ evaluation = "" => feedback'
  <2>1. feedback' \in Gaps /\ reviewed' = ~feedback'
    BY DEF Review
  <2>2. CASE evaluation = ""
    BY <2>1, <2>2, Zenon DEF Gaps
  <2>3. CASE evaluation # ""
    BY <2>1, <2>3, Zenon DEF Gaps
  <2> QED
    BY <2>2, <2>3
<1>3. PICK to \in {"evaluate", "emit"} :
        /\ node' = [node EXCEPT !["evaluate"] = to]
        /\ to = "evaluate" => evaluate_attempts < MaxAttempts
        /\ to = "emit" => ~feedback' \/ evaluate_attempts = MaxAttempts
  <2>1. IF BudgetSpent(evaluate_attempts) THEN evaluate_attempts = MaxAttempts
                                          ELSE evaluate_attempts < MaxAttempts
    BY SpentOrNot DEF IInv, TypeOK
  <2>2. CASE Revise
    BY <1>1, <2>1, <2>2 DEF Revise
  <2>3. CASE ~Revise
    BY <1>1, <2>1, <2>3 DEF Revise
  <2> QED
    BY <2>2, <2>3
<1>4. "evaluate" \in REGISTRY /\ to \in NodesOf("evaluate") \ {"off"}
  BY DEF NodesOf, REGISTRY
<1>5. /\ node' \in [REGISTRY -> Nodes] /\ NodesFollowPlan' /\ pc # "end"
      /\ node'["evaluate"] = to
      /\ \A d \in REGISTRY \ {"evaluate"} : node'[d] = node[d]
  BY <1>1, <1>3, <1>4, OneMoves
<1>6. TypeOK'
  BY <1>1, <1>2, <1>5 DEF IInv, TypeOK, recommend_vars
<1>7. \A r \in results : r.name \in REGISTRY \ {"evaluate"}
  BY <1>1 DEF IInv, TypeOK, Contributed
<1>8. Contributed'
  BY <1>1, <1>5, <1>7 DEF IInv, Contributed, Graphs, REGISTRY, recommend_vars
<1>9. RecommendBudget' /\ EvaluateBudget'
  BY <1>1, <1>2, <1>3, <1>5 DEF IInv, RecommendBudget, EvaluateBudget, REGISTRY, recommend_vars
<1> QED
  BY <1>5, <1>6, <1>8, <1>9 DEF IInv

LEMMA EmitInv == \A c \in REGISTRY : IInv /\ Emit(c) => IInv'
<1> SUFFICES ASSUME NEW c \in REGISTRY, IInv, Emit(c) PROVE IInv'
  OBVIOUS
<1> USE DEF Emit, recommend_vars, evaluate_vars
<1> DEFINE material == IF c = "recommend" THEN books # {} ELSE evaluation # ""
<1> DEFINE contribution == [name |-> c, material |-> material]
<1>1. material \in Material
  BY DEF Material
<1>2. /\ results' = results \cup {contribution}
      /\ contribution.name = c /\ contribution.material = material
      /\ contribution \in [name : REGISTRY, material : Material]
  BY <1>1
<1>3. "done" \in NodesOf(c) \ {"off"}
  BY DEF NodesOf
<1>4. /\ node' \in [REGISTRY -> Nodes] /\ NodesFollowPlan' /\ pc # "end"
      /\ node'[c] = "done" /\ \A d \in REGISTRY \ {c} : node'[d] = node[d]
  BY <1>3, OneMoves
<1>5. TypeOK'
  BY <1>2, <1>4 DEF IInv, TypeOK
<1>6. \A r \in results : r.name \in REGISTRY \ {c}
  BY DEF IInv, TypeOK, Contributed
<1>7. c = "evaluate" => material = (evaluation # "")
  OBVIOUS
<1>8. c = "recommend" => material = (books # {})
  OBVIOUS
<1> HIDE DEF contribution, material
<1>9. Contributed'
  <2>1. ASSUME NEW r \in results'
        PROVE  /\ node'[r.name] = "done"
               /\ r.name = "recommend" => r.material = (books # {})
               /\ r.name = "evaluate" => r.material = (evaluation # "")
    <3>1. CASE r = contribution
      BY <1>2, <1>4, <1>7, <1>8, <3>1
    <3>2. CASE r \in results
      BY <1>4, <1>6, <3>2 DEF IInv, Contributed
    <3> QED
      BY <1>2, <2>1, <3>1, <3>2
  <2>2. ASSUME NEW d \in Graphs, node'[d] = "done" PROVE \E r \in results' : r.name = d
    <3>1. CASE d = c
      BY <1>2, <3>1
    <3>2. CASE d # c
      <4>1. node[d] = "done"
        BY <1>4, <2>2, <3>2 DEF Graphs, REGISTRY
      <4> QED
        BY <1>2, <4>1 DEF IInv, Contributed
    <3> QED
      BY <3>1, <3>2
  <2>3. pc' # "end" /\ UNCHANGED <<books, evaluation>>
    BY <1>4
  <2> QED
    BY <2>1, <2>2, <2>3 DEF Contributed
<1>10. RecommendBudget' /\ EvaluateBudget'
  BY <1>4 DEF IInv, RecommendBudget, EvaluateBudget, Graphs, REGISTRY
<1> QED
  BY <1>4, <1>5, <1>9, <1>10 DEF IInv

LEMMA AggregateInv == IInv /\ Aggregate => IInv'
<1> SUFFICES ASSUME IInv, Aggregate PROVE IInv'
  OBVIOUS
<1> USE DEF Aggregate, recommend_vars, evaluate_vars
<1> DEFINE names == {r.name : r \in results}
<1>1. names \in SUBSET REGISTRY
  BY DEF IInv, TypeOK
<1>2. capability_results' = [c \in names |-> \E r \in results : r.name = c /\ r.material]
  OBVIOUS
<1>3. capability_results' \in [names -> Material]
  BY <1>2 DEF Material
<1>4. capability_results' \in UNION {[ns -> Material] : ns \in SUBSET REGISTRY}
  BY <1>1, <1>3
<1>5. TypeOK'
  BY <1>4 DEF IInv, TypeOK
<1>6. NodesFollowPlan'
  BY DEF IInv, NodesFollowPlan, FannedIn, Finished
<1>7. Contributed'
  BY <1>2 DEF IInv, Contributed
<1>8. RecommendBudget' /\ EvaluateBudget'
  BY DEF IInv, RecommendBudget, EvaluateBudget
<1> QED
  BY <1>5, <1>6, <1>7, <1>8 DEF IInv

LEMMA StutterInv == IInv /\ UNCHANGED vars => IInv'
<1> SUFFICES ASSUME IInv, UNCHANGED vars PROVE IInv'
  OBVIOUS
<1>1. /\ UNCHANGED <<steps, pc, node, results, capability_results>>
      /\ UNCHANGED <<books, rejections, recommend_attempts, proposed, judged>>
      /\ UNCHANGED <<evaluation, feedback, evaluate_attempts, reviewed>>
  BY DEF vars, recommend_vars, evaluate_vars
<1>2. TypeOK'
  BY <1>1 DEF IInv, TypeOK
<1>3. NodesFollowPlan'
  BY <1>1 DEF IInv, NodesFollowPlan, Finished
<1>4. Contributed'
  BY <1>1 DEF IInv, Contributed
<1>5. RecommendBudget' /\ EvaluateBudget'
  BY <1>1 DEF IInv, RecommendBudget, EvaluateBudget
<1> QED
  BY <1>2, <1>3, <1>4, <1>5 DEF IInv

LEMMA NextInv == IInv /\ [Next]_vars => IInv'
BY DispatchInv, RunCapabilityInv, GenerateInv, ScreenInv, PrepareInv, AnalyseInv, ReviewInv,
   EmitInv, AggregateInv, StutterInv DEF Next

(***************************************************************************)
(* The invariant of the execute subgraph: where each capability stands,    *)
(* what it contributed, and how many attempts its loop has left.           *)
(***************************************************************************)
THEOREM Inductive == Spec => []IInv
<1>1. Init => IInv
  BY InitInv
<1>2. IInv /\ [Next]_vars => IInv'
  BY NextInv
<1> QED
  BY <1>1, <1>2, PTL DEF Spec

(***************************************************************************)
(* Type correctness; in particular no loop of any plan makes more attempts *)
(* than MAX_ATTEMPTS (recommend.py, evaluate.py).                          *)
(***************************************************************************)
THEOREM TypeCorrect == Spec => []TypeOK
<1>1. IInv => TypeOK
  BY DEF IInv
<1> QED
  BY <1>1, Inductive, PTL

(***************************************************************************)
(* No contribution is lost at the fan-in, and both self-critique loops     *)
(* have one, whatever fails in any capability (execute.py, aggregate).     *)
(***************************************************************************)
THEOREM Arrives == Spec => []NothingSunk
<1>1. IInv => NothingSunk
  <2> SUFFICES ASSUME IInv, pc = "end"
               PROVE  /\ {r.name : r \in results} = DOMAIN capability_results
                      /\ steps \cap Graphs \subseteq DOMAIN capability_results
                      /\ DOMAIN capability_results \subseteq steps
    BY DEF NothingSunk
  <2>1. {r.name : r \in results} = DOMAIN capability_results
    BY DEF IInv, Contributed
  <2>2. \A c \in REGISTRY : c \in steps => node[c] = "done"
    BY DEF IInv, NodesFollowPlan, Finished
  <2>3. steps \cap Graphs \subseteq {r.name : r \in results}
    BY <2>2 DEF IInv, Contributed, Graphs, REGISTRY
  <2>4. {r.name : r \in results} \subseteq steps
    <3>1. \A r \in results : r.name \in REGISTRY /\ node[r.name] = "done"
      BY DEF IInv, TypeOK, Contributed
    <3>2. \A c \in REGISTRY : node[c] = "off" <=> c \notin steps
      BY DEF IInv, NodesFollowPlan
    <3> QED
      BY <3>1, <3>2
  <2> QED
    BY <2>1, <2>3, <2>4
<1> QED
  BY <1>1, Inductive, PTL

(***************************************************************************)
(* Neither loop settles for an empty booklist, or for an evaluation that   *)
(* is empty or has gaps, with an attempt left (route_after_validate).      *)
(***************************************************************************)
THEOREM SpendsItsBudget == Spec => []ShortOnlyAfterBudget
<1>1. IInv => ShortOnlyAfterBudget
  BY DEF IInv, Contributed, RecommendBudget, EvaluateBudget, ShortOnlyAfterBudget
<1> QED
  BY <1>1, Inductive, PTL

-----------------------------------------------------------------------------
\* What the verdicts of a screening make of a list.
Decided(list, kept, judgement) ==
  /\ kept \subseteq list
  /\ \A b \in kept : b \in DOMAIN judgement /\ ~judgement[b] =>
        \E a \in DOMAIN judgement : TitleOf[a] = TitleOf[b] /\ judgement[a] = TRUE
  /\ \A b \in list \ kept :
        \E a \in DOMAIN judgement : TitleOf[a] = TitleOf[b] /\ judgement[a] = FALSE
  /\ \A a, b \in list : TitleOf[a] = TitleOf[b] => (a \in kept <=> b \in kept)

LEMMA VerdictsDecide ==
  ASSUME NEW list, NEW judgement \in Judgements(list), NEW verdicts \in Filed(judgement)
  PROVE  Decided(list, Kept(list, verdicts), judgement)
<1> DEFINE kept == Kept(list, verdicts)
<1>1. \A a \in DOMAIN judgement : judgement[a] \in BOOLEAN
  BY DEF Judgements
<1>2. /\ DOMAIN verdicts = {TitleOf[a] : a \in DOMAIN judgement}
      /\ \A t \in DOMAIN verdicts : verdicts[t] \in BOOLEAN
  BY DEF Filed
<1>3. \A t \in DOMAIN verdicts :
        \E a \in DOMAIN judgement : TitleOf[a] = t /\ judgement[a] = verdicts[t]
  BY DEF Filed
<1>4. \A b \in list : b \in kept <=> (TitleOf[b] \in DOMAIN verdicts => verdicts[TitleOf[b]])
  BY DEF Kept
<1>5. kept \subseteq list
  BY DEF Kept
<1> HIDE DEF kept
<1>6. ASSUME NEW b \in kept, b \in DOMAIN judgement, ~judgement[b]
      PROVE  \E a \in DOMAIN judgement : TitleOf[a] = TitleOf[b] /\ judgement[a] = TRUE
  <2>1. TitleOf[b] \in DOMAIN verdicts
    BY <1>2, <1>6
  <2>2. verdicts[TitleOf[b]] = TRUE
    BY <1>2, <1>4, <1>5, <1>6, <2>1
  <2> QED
    BY <1>3, <2>1, <2>2
<1>7. ASSUME NEW b \in list \ kept
      PROVE  \E a \in DOMAIN judgement : TitleOf[a] = TitleOf[b] /\ judgement[a] = FALSE
  <2>1. TitleOf[b] \in DOMAIN verdicts /\ verdicts[TitleOf[b]] = FALSE
    BY <1>2, <1>4, <1>7
  <2> QED
    BY <1>3, <2>1
<1>8. \A a, b \in list : TitleOf[a] = TitleOf[b] => (a \in kept <=> b \in kept)
  BY <1>4
<1> QED
  BY <1>5, <1>6, <1>7, <1>8 DEF Decided, kept

(***************************************************************************)
(* What a screening decides (validate of recommend), for any titles: books *)
(* of one title are shown or dropped together, a rejected one is shown     *)
(* only when another with its title was kept, and one the screening left   *)
(* out is dropped only when another with its title was rejected.           *)
(***************************************************************************)
THEOREM RejectsAreDropped == Spec => []RejectedIsDropped
<1>1. Init => RejectedIsDropped
  BY DEF Init, RejectedIsDropped
<1>2. IInv /\ RejectedIsDropped /\ [Next]_vars => RejectedIsDropped'
  <2> SUFFICES ASSUME IInv, RejectedIsDropped, [Next]_vars PROVE RejectedIsDropped'
    OBVIOUS
  <2>1. CASE Screen
    <3>1. Decided(books, books', judged')
      <4>1. CASE books' = books /\ judged' = NoJudgement
        BY <4>1 DEF Decided, NoJudgement
      <4>2. CASE /\ judged' \in Judgements(books)
                 /\ \E verdicts \in Filed(judged') : books' = Kept(books, verdicts)
        BY <4>2, VerdictsDecide
      <4> QED
        BY <2>1, <4>1, <4>2 DEF Screen
    <3>2. proposed' = books
      BY <2>1 DEF Screen
    <3> QED
      BY <3>1, <3>2 DEF RejectedIsDropped, Said, Decided
  <2>2. CASE Generate \/ Dispatch
    <3>1. "recommend" \in REGISTRY /\ node \in [REGISTRY -> Nodes]
      BY DEF IInv, TypeOK, REGISTRY
    <3>2. node'["recommend"] \in {"off", "generate", "validate"}
      BY <2>2, <3>1 DEF Generate, Dispatch, Entry
    <3> QED
      BY <3>2 DEF RejectedIsDropped
  <2>3. ASSUME NEW c \in REGISTRY, c # "recommend", NEW to,
               node' = [node EXCEPT ![c] = to], UNCHANGED <<books, proposed, judged>>
        PROVE  RejectedIsDropped'
    <3>1. node'["recommend"] = node["recommend"]
      BY <2>3 DEF IInv, TypeOK, REGISTRY
    <3> QED
      BY <2>3, <3>1 DEF RejectedIsDropped, Said
  <2>4. CASE \E c \in REGISTRY : RunCapability(c)
    <3>1. PICK c \in REGISTRY : RunCapability(c)
      BY <2>4
    <3>2. c # "recommend"
      BY <3>1 DEF RunCapability, IInv, NodesFollowPlan, NodesOf
    <3> QED
      BY <2>3, <3>1, <3>2 DEF RunCapability, recommend_vars
  <2>5. CASE \E c \in REGISTRY : Emit(c)
    <3>1. PICK c \in REGISTRY : Emit(c)
      BY <2>5
    <3>2. node[c] = "emit" /\ UNCHANGED <<books, proposed, judged>> /\ node' = [node EXCEPT ![c] = "done"]
      BY <3>1 DEF Emit, recommend_vars
    <3>3. CASE c = "recommend"
      BY <3>2, <3>3 DEF RejectedIsDropped, Said
    <3> QED
      BY <2>3, <3>2, <3>3
  <2>6. CASE Prepare \/ Analyse \/ Review
    <3>1. "evaluate" \in REGISTRY /\ UNCHANGED <<books, proposed, judged>>
      BY <2>6 DEF Prepare, Analyse, Review, recommend_vars, REGISTRY
    <3>2. \E to \in Nodes : node' = [node EXCEPT !["evaluate"] = to]
      BY <2>6 DEF Prepare, Analyse, Review, Nodes
    <3> QED
      BY <2>3, <3>1, <3>2
  <2>7. CASE Aggregate \/ UNCHANGED vars
    BY <2>7 DEF Aggregate, vars, RejectedIsDropped, Said, recommend_vars
  <2> QED
    BY <2>1, <2>2, <2>4, <2>5, <2>6, <2>7 DEF Next
<1> QED
  BY <1>1, <1>2, Inductive, PTL DEF Spec
===============================================================================
