-------------------------------- MODULE Execute --------------------------------
(***************************************************************************)
(* The execute subgraph of one turn (agent/pipeline/execute): the planned  *)
(* capabilities run in parallel, each hands at most one contribution to    *)
(* `results', and aggregate merges them when all have finished.            *)
(*                                                                         *)
(* Two capabilities are subgraphs that criticise themselves and try again  *)
(* (capabilities/recommend, capabilities/evaluate); the others are one     *)
(* call.  What a model proposes or says is a nondeterministic choice, and  *)
(* any call may fail.  A book is a model value with a title; an evaluation *)
(* is a text or the empty string.                                          *)
(***************************************************************************)
EXTENDS Naturals, FiniteSets

CONSTANTS
  Books,        \* what the generator may propose
  Titles,       \* normalised titles: stripped, in lower case
  TitleOf,      \* [Books -> Titles]
  Plans,        \* the plans to run: sets of capabilities
  MaxAttempts   \* MAX_ATTEMPTS of both loops

REGISTRY == {"recommend", "evaluate", "compare", "discussion", "path", "content"}
Graphs   == {"recommend", "evaluate"}  \* declared with `graph', the others with `run'

ASSUME ExecuteAssumption ==
  /\ TitleOf \in [Books -> Titles]
  /\ Plans \subseteq SUBSET REGISTRY
  /\ MaxAttempts \in Nat \ {0}

VARIABLES
  steps,               \* the plan
  pc,                  \* "dispatch", "running" or "end"
  node,                \* next node of each capability, or "off" or "done"
  \* RecommendState
  books, rejections, recommend_attempts,
  \* EvaluateState
  evaluation, feedback, evaluate_attempts,
  results,             \* the fan-in channel: [name, material]
  capability_results,  \* name -> material, or the function without names
  \* history
  proposed, judged,    \* the books of the last screening, and what it said of some
  reviewed             \* the last review found no gap, or could not run

recommend_vars == <<books, rejections, recommend_attempts, proposed, judged>>
evaluate_vars  == <<evaluation, feedback, evaluate_attempts, reviewed>>
vars == <<steps, pc, node, recommend_vars, evaluate_vars, results, capability_results>>

Nodes    == {"off", "run", "generate", "validate", "prepare", "evaluate", "emit", "done"}
Material == {TRUE, FALSE}  \* whether a contribution has anything to show

\* A screening keeps or rejects some of the books, and may leave others out.
Judgements(list) == UNION {[some -> BOOLEAN] : some \in SUBSET list}
NoJudgement      == [b \in {} |-> TRUE]

TypeOK ==
  /\ steps \subseteq REGISTRY
  /\ pc \in {"dispatch", "running", "end"}
  /\ node \in [REGISTRY -> Nodes]
  /\ books \subseteq Books /\ proposed \subseteq Books /\ rejections \in BOOLEAN
  /\ judged \in Judgements(Books)
  /\ evaluation \in {"", "text"} /\ feedback \in BOOLEAN
  /\ recommend_attempts \in 0..MaxAttempts /\ evaluate_attempts \in 0..MaxAttempts
  /\ results \subseteq [name : REGISTRY, material : Material]
  /\ capability_results \in UNION {[names -> Material] : names \in SUBSET REGISTRY}
  /\ reviewed \in BOOLEAN

Init ==
  /\ steps \in Plans
  /\ pc = "dispatch"
  /\ node = [c \in REGISTRY |-> "off"]
  /\ books = {} /\ rejections = FALSE /\ recommend_attempts = 0
  /\ proposed = {} /\ judged = NoJudgement
  /\ evaluation = "" /\ feedback = FALSE /\ evaluate_attempts = 0
  /\ reviewed = FALSE
  /\ results = {} /\ capability_results = [c \in {} |-> TRUE]

-----------------------------------------------------------------------------
Entry(c) == CASE c = "recommend" -> "generate" [] c = "evaluate" -> "prepare" [] OTHER -> "run"

\* dispatch and fan_out: the nodes of the plan, or aggregate when it is empty.
Dispatch ==
  /\ pc = "dispatch"
  /\ pc' = "running"
  /\ node' = [c \in REGISTRY |-> IF c \in steps THEN Entry(c) ELSE "off"]
  /\ UNCHANGED <<steps, recommend_vars, evaluate_vars, results, capability_results>>

\* _capability_node: a capability that raises contributes nothing.
RunCapability(c) ==
  /\ node[c] = "run"
  /\ node' = [node EXCEPT ![c] = "done"]
  /\ results' \in {results} \cup {results \cup {[name |-> c, material |-> m]} : m \in Material}
  /\ UNCHANGED <<steps, pc, recommend_vars, evaluate_vars, capability_results>>

\* Mutant: the budget is checked one attempt too late.
BudgetSpent_late(attempts) == attempts > MaxAttempts

\* Both loops stop when their attempts are used up.
BudgetSpent(attempts) == attempts >= MaxAttempts

\* Mutant: a retry does not count as an attempt.
Attempt_uncounted(attempts) == IF attempts = 0 THEN 1 ELSE attempts

Attempt(attempts) == attempts + 1

\* generate: a fresh list; a failed call gives the empty one.
Generate ==
  /\ node["recommend"] = "generate"
  /\ books' \in SUBSET Books
  /\ recommend_attempts' = Attempt(recommend_attempts)
  /\ node' = [node EXCEPT !["recommend"] = "validate"]
  /\ UNCHANGED <<steps, pc, rejections, proposed, judged, evaluate_vars, results,
                 capability_results>>

\* Mutant: the verdicts are not applied.
Kept_ignores_verdicts(list, verdicts) == list

\* verdict_by_title: a book stays unless the verdict on its title rejects it.
Kept(list, verdicts) ==
  {b \in list : TitleOf[b] \in DOMAIN verdicts => verdicts[TitleOf[b]]}

\* The verdicts of a screening, filed by title; of two books with one title the
\* later verdict remains, whichever that is.
Filed(judgement) ==
  {v \in [{TitleOf[b] : b \in DOMAIN judgement} -> BOOLEAN] :
     \A t \in DOMAIN v : \E b \in DOMAIN judgement : TitleOf[b] = t /\ judgement[b] = v[t]}

\* route_after_validate of recommend, on the screened list.
RetryRecommend == books' = {} /\ ~BudgetSpent(recommend_attempts)

\* validate of recommend: nothing to screen, or the screening is unavailable
\* and the list stays, or the verdicts are applied.
Screen ==
  /\ node["recommend"] = "validate"
  /\ \/ books = {} /\ books' = {} /\ rejections' = TRUE /\ judged' = NoJudgement
     \/ books # {} /\ books' = books /\ rejections' = FALSE /\ judged' = NoJudgement
     \/ /\ books # {}
        /\ judged' \in Judgements(books)
        /\ \E verdicts \in Filed(judged') : books' = Kept(books, verdicts)
        /\ rejections' = (books' # books)
  /\ proposed' = books
  /\ node' = [node EXCEPT !["recommend"] = IF RetryRecommend THEN "generate" ELSE "emit"]
  /\ UNCHANGED <<steps, pc, recommend_attempts, evaluate_vars, results, capability_results>>

\* prepare: the loop starts afresh.
Prepare ==
  /\ node["evaluate"] = "prepare"
  /\ feedback' = FALSE /\ evaluate_attempts' = 0
  /\ node' = [node EXCEPT !["evaluate"] = "evaluate"]
  /\ UNCHANGED <<steps, pc, recommend_vars, evaluation, reviewed, results,
                 capability_results>>

\* evaluate: the text of this attempt, empty when the call failed.
Analyse ==
  /\ node["evaluate"] = "evaluate"
  /\ evaluation' \in {"", "text"}
  /\ evaluate_attempts' = Attempt(evaluate_attempts)
  /\ reviewed' = FALSE
  /\ node' = [node EXCEPT !["evaluate"] = "validate"]
  /\ UNCHANGED <<steps, pc, recommend_vars, feedback, results, capability_results>>

\* Mutant: an empty text passes when the review is unavailable.
Gaps_trusts_empty == BOOLEAN

\* validate of evaluate: an empty text has gaps; a failed review finds none.
Gaps == IF evaluation = "" THEN {TRUE} ELSE BOOLEAN

\* route_after_validate of evaluate, on the review just made.
Revise == feedback' /\ ~BudgetSpent(evaluate_attempts)

Review ==
  /\ node["evaluate"] = "validate"
  /\ feedback' \in Gaps
  /\ reviewed' = ~feedback'
  /\ node' = [node EXCEPT !["evaluate"] = IF Revise THEN "evaluate" ELSE "emit"]
  /\ UNCHANGED <<steps, pc, recommend_vars, evaluation, evaluate_attempts, results,
                 capability_results>>

\* emit of both subgraphs: what is left is contributed, even when it is empty.
Emit(c) ==
  /\ c \in Graphs
  /\ node[c] = "emit"
  /\ node' = [node EXCEPT ![c] = "done"]
  /\ results' = results \cup {[name     |-> c,
                               material |-> IF c = "recommend" THEN books # {} ELSE evaluation # ""]}
  /\ UNCHANGED <<steps, pc, recommend_vars, evaluate_vars, capability_results>>

Finished == \A c \in REGISTRY : node[c] \in {"off", "done"}

\* Mutant: aggregate runs with the first capability that ends.
FannedIn_first == steps = {} \/ \E c \in steps : node[c] = "done"

\* aggregate waits for every dispatched node.
FannedIn == Finished

\* aggregate: every contribution by its name, written even when there is none.
Aggregate ==
  /\ pc = "running"
  /\ FannedIn
  /\ capability_results' = [c \in {r.name : r \in results} |->
                              \E r \in results : r.name = c /\ r.material]
  /\ pc' = "end"
  /\ UNCHANGED <<steps, node, recommend_vars, evaluate_vars, results>>

Next == \/ Dispatch \/ Generate \/ Screen \/ Prepare \/ Analyse \/ Review \/ Aggregate
        \/ \E c \in REGISTRY : RunCapability(c) \/ Emit(c)

Spec == Init /\ [][Next]_vars

\* The runtime keeps running nodes; every call returns or raises.
FairSpec == Spec /\ WF_vars(Next)

-----------------------------------------------------------------------------
(***************************************************************************)
(* One broken capability never sinks the turn: when aggregate has run,     *)
(* nothing that was contributed is missing from capability_results, and    *)
(* both self-critique subgraphs are there whatever failed in them.         *)
(***************************************************************************)
NothingSunk ==
  pc = "end" =>
     /\ {r.name : r \in results} = DOMAIN capability_results
     /\ steps \cap Graphs \subseteq DOMAIN capability_results
     /\ DOMAIN capability_results \subseteq steps

(***************************************************************************)
(* Neither loop settles for less than it was asked for while it has        *)
(* attempts left: a contribution that falls short -- an empty booklist, an *)
(* evaluation that is empty or whose review found gaps -- has cost the     *)
(* whole budget, whichever of its calls failed on the way.                 *)
(***************************************************************************)
ShortOnlyAfterBudget ==
  \A r \in results :
     /\ r.name = "recommend" /\ ~r.material => recommend_attempts = MaxAttempts
     /\ r.name = "evaluate" /\ (~r.material \/ ~reviewed) => evaluate_attempts = MaxAttempts

(***************************************************************************)
(* What a screening decides, books of one title included: its verdicts are *)
(* filed by title (verdict_by_title), so that those books are shown or     *)
(* dropped together.  A rejected book is shown only if another with its    *)
(* title was kept, and a book the screening left out is dropped only if    *)
(* one with its title was rejected.                                        *)
(***************************************************************************)
Said(book, verdict) ==
  \E b \in DOMAIN judged : TitleOf[b] = TitleOf[book] /\ judged[b] = verdict

RejectedIsDropped ==
  node["recommend"] \in {"emit", "done"} =>
     /\ books \subseteq proposed
     /\ \A b \in books : b \in DOMAIN judged /\ ~judged[b] => Said(b, TRUE)
     /\ \A b \in proposed \ books : Said(b, FALSE)
     /\ \A a, b \in proposed : TitleOf[a] = TitleOf[b] => (a \in books <=> b \in books)

(***************************************************************************)
(* Execute always hands a result to respond: both loops are bounded,       *)
(* whatever their models say.                                              *)
(***************************************************************************)
ExecuteEnds == <>(pc = "end")
===============================================================================
