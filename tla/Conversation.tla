----------------------------- MODULE Conversation -----------------------------
(***************************************************************************)
(* One conversation thread through the main graph (agent/graph), turn      *)
(* after turn:                                                             *)
(*                                                                         *)
(*   guard -> load_context -> understand -> plan -> clarify                *)
(*         -> {execute, memory} -> respond                                 *)
(*                                                                         *)
(* Channels outlive the turn in the checkpoint; each product is a record   *)
(* with the turn that wrote it, so that a stale one can be told apart.     *)
(* execute and memory run in parallel in one superstep: each works on the  *)
(* channels as clarify left them, their writes become visible together     *)
(* when both are done, and are lost when one raises, when the process      *)
(* dies, or when a new message arrives while the popup is open.  The       *)
(* memory branch is reduced to its nodes, the popup, the writes that make  *)
(* a child, and its outcome: MemoryGate models what it writes and when.    *)
(* Language models are nondeterministic choices.                           *)
(***************************************************************************)
EXTENDS Naturals, FiniteSets

CONSTANTS
  ChildIds,    \* the ids accounts can give children
  NoChild,     \* None
  IntentSets,  \* the sets of intents understand may find in a message
  Reemission,  \* may the memory subgraph hand back channels it only read?
  MaxTurns     \* bound: messages the parent sends

Targets == ChildIds \cup {NoChild}

\* Intent; the intents of _NO_CAPABILITY only feed the memory branch.
TaskIntents == {"book_recommendation", "book_evaluation", "book_comparison",
                "reading_discussion", "reading_path_planning", "content_creation"}
Intents     == TaskIntents \cup {"child_profile_update", "parent_profile_update",
                                 "parent_goal_update", "clarify"}

\* REGISTRY: the capability of each task intent, and its required inputs.
Capability == [book_recommendation   |-> "recommend",
               book_evaluation       |-> "evaluate",
               book_comparison       |-> "compare",
               reading_discussion    |-> "discussion",
               reading_path_planning |-> "path",
               content_creation      |-> "content"]

RequiredInputs == [recommend  |-> {"target_child"},
                   evaluate   |-> {"target_child", "books"},
                   compare    |-> {"books"},
                   discussion |-> {"target_child", "books"},
                   path       |-> {"target_child", "reading_profile"},
                   content    |-> {}]

Capabilities == DOMAIN RequiredInputs

ASSUME ConversationAssumption ==
  /\ NoChild \notin ChildIds
  /\ IntentSets \subseteq SUBSET Intents
  /\ Reemission \subseteq BOOLEAN
  /\ MaxTurns \in Nat

VARIABLES
  on_file,     \* children in accounts
  reemits,     \* which of Reemission this deployment shows
  turn,        \* number of the turn, 0 before the first message
  pc,          \* next node, "fan_out" for the parallel superstep, or "idle"
  child_id,    \* AppContext.child_id of the request
  \* channels
  children,            \* keys of children
  target_child_id,
  child_switch,        \* [turn, from, to]; to = NoChild when there was none
  understanding,
  plan,                \* [turn, steps]
  clarification,       \* decision
  capability_results,  \* [turn, names, child]: what ran and for whom
  confirmation,        \* [turn, status]
  \* the two branches of the superstep, and what each has written in it
  execute,             \* "waiting" or "done"
  memory,              \* next node of the memory subgraph, or "done"
  results,             \* execute: names of the capabilities that succeeded
  operations,          \* memory: kind of memory_operations
  approved,            \* memory: confirmation_decision
  outcome,             \* memory: its copy of confirmation
  new_target,          \* memory: a child created, or NoChild
  refetched,           \* memory: keys of children after the writes
  \* history of the current turn
  answers,             \* popups the parent answered
  replies,
  collided,            \* the two branches wrote the same channel
  created,             \* children the turn created
  recorded             \* the recommendation stored: [child, made_for]

thread_vars == <<children, target_child_id, child_switch, understanding, plan, clarification,
                 capability_results, confirmation>>
memory_vars  == <<memory, operations, approved, outcome, new_target, refetched>>
branch_vars  == <<execute, results, memory_vars>>
history_vars == <<answers, replies, collided, created, recorded>>
vars == <<on_file, reemits, turn, pc, child_id, thread_vars, branch_vars, history_vars>>

NoRecommendation == [child |-> NoChild, made_for |-> NoChild]
OperationKinds   == {"none", "soft", "update", "create"}
Outcome          == [turn : 0..MaxTurns, status : {"none", "applied", "rejected", "error"}]

ThreadTypeOK ==
  /\ children \subseteq ChildIds
  /\ target_child_id \in Targets
  /\ child_switch \in [turn : 0..MaxTurns, from : Targets, to : Targets]
  /\ understanding \in [turn : 0..MaxTurns, intents : SUBSET Intents, child_is_new : BOOLEAN,
                        child_ambiguous : BOOLEAN, books : BOOLEAN, signals : BOOLEAN]
  /\ plan \in [turn : 0..MaxTurns, steps : SUBSET Capabilities]
  /\ clarification \in {"none", "continue", "best_effort", "ask_user"}
  /\ capability_results \in [turn : 0..MaxTurns, names : SUBSET Capabilities, child : Targets]
  /\ confirmation \in Outcome

BranchTypeOK ==
  /\ execute \in {"waiting", "done"}
  /\ memory \in {"memory_policy", "prepare_confirmation", "request_confirmation",
                 "apply_confirmation", "profile_update", "done"}
  /\ results \subseteq Capabilities
  /\ operations \in OperationKinds /\ approved \in BOOLEAN
  /\ outcome \in Outcome
  /\ new_target \in Targets
  /\ refetched \subseteq ChildIds

TypeOK ==
  /\ on_file \subseteq ChildIds /\ reemits \in BOOLEAN
  /\ turn \in 0..MaxTurns
  /\ pc \in {"idle", "guard", "load_context", "understand", "plan", "clarify", "fan_out",
             "respond", "reply"}
  /\ child_id \in Targets
  /\ ThreadTypeOK /\ BranchTypeOK
  /\ answers \in 0..1 /\ replies \in 0..1 /\ collided \in BOOLEAN
  /\ created \subseteq ChildIds
  /\ recorded \in [child : Targets, made_for : Targets]

Init ==
  /\ on_file \in SUBSET ChildIds /\ reemits \in Reemission
  /\ turn = 0 /\ pc = "idle" /\ child_id = NoChild
  /\ children = {} /\ target_child_id = NoChild
  /\ child_switch = [turn |-> 0, from |-> NoChild, to |-> NoChild]
  /\ understanding = [turn |-> 0, intents |-> {}, child_is_new |-> FALSE,
                      child_ambiguous |-> FALSE, books |-> FALSE, signals |-> FALSE]
  /\ plan = [turn |-> 0, steps |-> {}]
  /\ clarification = "none"
  /\ capability_results = [turn |-> 0, names |-> {}, child |-> NoChild]
  /\ confirmation = [turn |-> 0, status |-> "none"]
  /\ execute = "waiting" /\ memory = "memory_policy"
  /\ results = {} /\ operations = "none" /\ approved = FALSE
  /\ outcome = [turn |-> 0, status |-> "none"] /\ new_target = NoChild /\ refetched = {}
  /\ answers = 0 /\ replies = 0 /\ collided = FALSE
  /\ created = {} /\ recorded = NoRecommendation

-----------------------------------------------------------------------------
\* The branches of a superstep that is over, or of one that is given up.
NoBranches ==
  /\ execute' = "waiting" /\ memory' = "memory_policy"
  /\ results' = {} /\ operations' = "none" /\ approved' = FALSE
  /\ outcome' = [turn |-> 0, status |-> "none"] /\ new_target' = NoChild /\ refetched' = {}

\* The run stopped on interrupt(): execute is done, the popup is open.
Paused == pc = "fan_out" /\ execute = "done" /\ memory = "request_confirmation"

(***************************************************************************)
(* A new message with the request's child_id, which may be stale.  It runs *)
(* from guard; the tasks of an open popup are dropped with their writes.   *)
(***************************************************************************)
NewMessage(c) ==
  /\ pc = "idle" \/ Paused
  /\ turn < MaxTurns
  /\ turn' = turn + 1
  /\ child_id' = c
  /\ pc' = "guard"
  /\ answers' = 0 /\ replies' = 0 /\ collided' = FALSE
  /\ created' = {} /\ recorded' = NoRecommendation
  /\ NoBranches
  /\ UNCHANGED <<on_file, reemits, thread_vars>>

Ends(count) == pc' = "idle" /\ replies' = replies + count

\* guard: a refusal ends the turn; an unavailable classifier lets it pass.
Guard ==
  /\ pc = "guard"
  /\ Ends(1) \/ (pc' = "load_context" /\ UNCHANGED replies)
  /\ UNCHANGED <<on_file, reemits, turn, child_id, thread_vars, branch_vars, answers, collided,
                 created, recorded>>

\* Mutant: the sole child on file is not pinned.
Pin_explicit_only(c, kids) == IF c \in kids THEN c ELSE NoChild

\* _pin_target_child
Pin(c, kids) ==
  IF c \in kids THEN c
  ELSE IF Cardinality(kids) = 1 THEN CHOOSE kid \in kids : TRUE
  ELSE NoChild

LoadContext ==
  /\ pc = "load_context"
  /\ children' = on_file
  /\ target_child_id' = Pin(child_id, on_file)
  /\ pc' = "understand"
  /\ UNCHANGED <<on_file, reemits, turn, child_id, child_switch, understanding, plan,
                 clarification, capability_results, confirmation, branch_vars, history_vars>>

Resolution(target, new, ambiguous) ==
  [target |-> target, child_is_new |-> new, child_ambiguous |-> ambiguous]

\* Mutant: the id the model gives is not looked up on the roster.
ResolveChild_trusts_id(ref, kids, preset) ==
  CASE ref.status = "matched" -> Resolution(ref.child_id, FALSE, FALSE)
    [] ref.status = "new" -> Resolution(NoChild, TRUE, FALSE)
    [] ref.status = "ambiguous" /\ preset \notin kids -> Resolution(NoChild, FALSE, TRUE)
    [] OTHER -> Resolution(preset, FALSE, FALSE)

\* resolve_child: a mention of a child on file wins over the pinned one, and
\* the parent is asked only when there is nothing to fall back on.
ResolveChild(ref, kids, preset) ==
  CASE ref.status = "matched" /\ ref.child_id \in kids -> Resolution(ref.child_id, FALSE, FALSE)
    [] ref.status = "new" -> Resolution(NoChild, TRUE, FALSE)
    [] ref.status = "ambiguous" /\ preset \notin kids -> Resolution(NoChild, FALSE, TRUE)
    [] OTHER -> Resolution(preset, FALSE, FALSE)

\* Mutant: the switch announces the child the model named.
SwitchTo_named(ref, target, preset) ==
  IF ref.status = "matched" /\ ref.child_id # preset THEN ref.child_id ELSE NoChild

\* switch_signal: only a confident move to another child is announced.
SwitchTo(ref, target, preset) ==
  IF ref.status = "matched" /\ target # preset THEN target ELSE NoChild

\* What the message points at; a matched id may be one the model made up.
References == [status : {"new", "ambiguous", "none"}, child_id : {NoChild}]
                \cup [status : {"matched"}, child_id : Targets]

Understand ==
  /\ pc = "understand"
  /\ \E ref \in References, intents \in IntentSets, books, signals \in BOOLEAN :
        LET found == ResolveChild(ref, children, target_child_id)
            to    == SwitchTo(ref, found.target, target_child_id)
        IN
        /\ understanding' = [turn |-> turn, intents |-> intents, books |-> books,
                             signals |-> signals, child_is_new |-> found.child_is_new,
                             child_ambiguous |-> found.child_ambiguous]
        /\ target_child_id' = found.target
        /\ child_switch' = [turn |-> turn, to |-> to,
                            from |-> IF to = NoChild THEN NoChild ELSE target_child_id]
  /\ pc' = "plan"
  /\ UNCHANGED <<on_file, reemits, turn, child_id, children, plan, clarification,
                 capability_results, confirmation, branch_vars, history_vars>>

\* plan: intents to capabilities, nothing pruned.
Plan ==
  /\ pc = "plan"
  /\ plan' = [turn |-> turn, steps |-> {Capability[i] : i \in understanding.intents \cap TaskIntents}]
  /\ pc' = "clarify"
  /\ UNCHANGED <<on_file, reemits, turn, child_id, children, target_child_id, child_switch,
                 understanding, clarification, capability_results, confirmation, branch_vars,
                 history_vars>>

ChildKnown == target_child_id # NoChild \/ understanding.child_is_new

\* ambient_satisfied
Ambient(input) ==
  \/ input \in {"target_child", "reading_profile"} /\ ChildKnown
  \/ input = "policies"
  \/ input = "books" /\ understanding.books

Needs == {input \in UNION {RequiredInputs[s] : s \in plan.steps} : ~Ambient(input)}

\* clarify: a needed but unknown child is always asked for, satisfied inputs
\* never are, and in between the model decides.
Decisions ==
  IF understanding.child_ambiguous THEN {"ask_user"}
  ELSE IF Needs = {} THEN {"continue"}
  ELSE {"continue", "best_effort", "ask_user"}

\* Mutant: a question does not stop the turn.
RouteAfterClarify_always_fans_out == pc' = "fan_out"

RouteAfterClarify == pc' = IF clarification' = "ask_user" THEN "idle" ELSE "fan_out"

\* Two fresh branches start from the channels as they are.
Clarify ==
  /\ pc = "clarify"
  /\ clarification' \in Decisions
  /\ replies' = replies + (IF clarification' = "ask_user" THEN 1 ELSE 0)
  /\ RouteAfterClarify
  /\ execute' = "waiting" /\ memory' = "memory_policy"
  /\ results' = {} /\ operations' = "none" /\ approved' = FALSE
  /\ outcome' = confirmation /\ new_target' = NoChild /\ refetched' = children
  /\ UNCHANGED <<on_file, reemits, turn, child_id, children, target_child_id, child_switch,
                 understanding, plan, capability_results, confirmation, answers, collided,
                 created, recorded>>

-----------------------------------------------------------------------------
\* Mutant: an empty result is not written.
Aggregate_skips_empty ==
  IF results = {} THEN capability_results
  ELSE [turn |-> turn, names |-> results, child |-> target_child_id]

\* aggregate writes its channel in full, even when nothing ran.
Aggregate == [turn |-> turn, names |-> results, child |-> target_child_id]

\* The planned capabilities run; one that fails contributes nothing.
Execute ==
  /\ pc = "fan_out" /\ execute = "waiting"
  /\ results' \in SUBSET plan.steps
  /\ execute' = "done"
  /\ UNCHANGED <<on_file, reemits, turn, pc, child_id, thread_vars, memory_vars, history_vars>>

\* memory_policy: only a signal or a new child is worth remembering.
MemoryPolicy ==
  /\ pc = "fan_out" /\ memory = "memory_policy"
  /\ operations' \in IF understanding.signals \/ understanding.child_is_new
                     THEN OperationKinds ELSE {"none"}
  /\ memory' = "prepare_confirmation"
  /\ UNCHANGED <<on_file, reemits, turn, pc, child_id, thread_vars, execute, results, approved,
                 outcome, new_target, refetched, history_vars>>

\* Mutant: the outcome in the thread is taken over.
ClearedOutcome_keeps == outcome

ClearedOutcome == [turn |-> turn, status |-> "none"]

\* prepare_confirmation: earlier outcomes are cleared, identity writes gated.
PrepareConfirmation ==
  /\ pc = "fan_out" /\ memory = "prepare_confirmation"
  /\ outcome' = ClearedOutcome
  /\ memory' = IF operations \in {"update", "create"} THEN "request_confirmation"
               ELSE "profile_update"
  /\ UNCHANGED <<on_file, reemits, turn, pc, child_id, thread_vars, execute, results, operations,
                 approved, new_target, refetched, history_vars>>

\* The parent answers the open popup: only the paused node runs again.
Resume(yes) ==
  /\ Paused
  /\ approved' = yes
  /\ answers' = answers + 1
  /\ memory' = "apply_confirmation"
  /\ UNCHANGED <<on_file, reemits, turn, pc, child_id, thread_vars, execute, results, operations,
                 outcome, new_target, refetched, replies, collided, created, recorded>>

\* apply_confirmation: a rejected create takes its facts with it.
ApplyConfirmation ==
  /\ pc = "fan_out" /\ memory = "apply_confirmation"
  /\ outcome' = [turn |-> turn, status |-> IF approved THEN "applied" ELSE "rejected"]
  /\ operations' \in IF approved THEN {operations, "none"}
                     ELSE IF operations = "create" THEN {"none"} ELSE {"none", "soft"}
  /\ memory' = "profile_update"
  /\ UNCHANGED <<on_file, reemits, turn, pc, child_id, thread_vars, execute, results, approved,
                 new_target, refetched, history_vars>>

\* create_child inside profile_update; a lost reply leaves the target alone.
CreateChild(c, reply_lost) ==
  /\ pc = "fan_out" /\ memory = "profile_update" /\ operations = "create"
  /\ c \in ChildIds \ on_file
  /\ on_file' = on_file \cup {c}
  /\ created' = created \cup {c}
  /\ new_target' = IF reply_lost THEN new_target ELSE c
  /\ UNCHANGED <<reemits, turn, pc, child_id, thread_vars, execute, memory, results, operations,
                 approved, outcome, refetched, answers, replies, collided, recorded>>

\* The rest of profile_update: nothing to write, or the outcome downgraded
\* when writes failed and the family's context read again.
ProfileUpdate ==
  /\ pc = "fan_out" /\ memory = "profile_update"
  /\ IF operations = "none"
     THEN UNCHANGED <<outcome, refetched>>
     ELSE /\ outcome' \in {outcome} \cup (IF outcome.status = "applied"
                                          THEN {[outcome EXCEPT !.status = "error"]} ELSE {})
          /\ refetched' = on_file
  /\ memory' = "done"
  /\ UNCHANGED <<on_file, reemits, turn, pc, child_id, thread_vars, execute, results, operations,
                 approved, new_target, history_vars>>

-----------------------------------------------------------------------------
\* The channels each branch hands back: execute only its output schema, memory
\* what it wrote and, when it re-emits, every channel that holds a value.
ExecuteWrites == {"capability_results"}
MemoryWrites  ==
  {"memory_operations", "confirmation", "children", "target_child_id"}
     \cup (IF reemits /\ capability_results.turn # 0 THEN {"capability_results"} ELSE {})

\* Mutant: the target is pinned again from the context just read.
FinalTarget_repins == IF new_target # NoChild THEN new_target ELSE Pin(child_id, refetched)

\* A child created in the session becomes the turn's target.
FinalTarget == IF new_target # NoChild THEN new_target ELSE target_child_id

\* Both branches are done; a channel takes one write per superstep.
FanIn ==
  /\ pc = "fan_out" /\ execute = "done" /\ memory = "done"
  /\ IF ExecuteWrites \cap MemoryWrites # {}
     THEN /\ collided' = TRUE
          /\ pc' = "idle"
          /\ UNCHANGED thread_vars
     ELSE /\ capability_results' = Aggregate
          /\ confirmation' = outcome
          /\ children' = refetched
          /\ target_child_id' = FinalTarget
          /\ pc' = "respond"
          /\ UNCHANGED <<child_switch, understanding, plan, clarification, collided>>
  /\ NoBranches
  /\ UNCHANGED <<on_file, reemits, turn, child_id, answers, replies, created, recorded>>

\* respond composes, and stores a recommendation made in a turn with a child;
\* storing may fail without harm to the reply.
Respond ==
  /\ pc = "respond"
  /\ \/ /\ "recommend" \in capability_results.names /\ target_child_id # NoChild
        /\ recorded' = [child |-> target_child_id, made_for |-> capability_results.child]
     \/ UNCHANGED recorded
  /\ pc' = "reply"
  /\ UNCHANGED <<on_file, reemits, turn, child_id, thread_vars, branch_vars, answers, replies,
                 collided, created>>

Reply ==
  /\ pc = "reply"
  /\ Ends(1)
  /\ UNCHANGED <<on_file, reemits, turn, child_id, thread_vars, branch_vars, answers, collided,
                 created, recorded>>

\* A node raises, or the process dies: the superstep leaves no trace in the
\* thread, whatever it did to accounts.
TurnFails ==
  /\ pc # "idle" /\ ~Paused
  /\ Ends(0)
  /\ NoBranches
  /\ UNCHANGED <<on_file, reemits, turn, child_id, thread_vars, answers, collided,
                 created, recorded>>

\* Another conversation of the family adds a child.
OtherConversation(c) ==
  /\ c \notin on_file
  /\ on_file' = on_file \cup {c}
  /\ UNCHANGED <<reemits, turn, pc, child_id, thread_vars, branch_vars, history_vars>>

Node == \/ Guard \/ LoadContext \/ Understand \/ Plan \/ Clarify
        \/ Execute \/ MemoryPolicy \/ PrepareConfirmation \/ ApplyConfirmation
        \/ \E c \in ChildIds, reply_lost \in BOOLEAN : CreateChild(c, reply_lost)
        \/ ProfileUpdate \/ FanIn \/ Respond \/ Reply

Parent == (\E c \in Targets : NewMessage(c)) \/ (\E yes \in BOOLEAN : Resume(yes))

Next == Node \/ Parent \/ TurnFails \/ \E c \in ChildIds : OtherConversation(c)

Spec == Init /\ [][Next]_vars

\* The runtime keeps running nodes: every call to a model or to accounts
\* returns or times out.  The parent need not ever answer or write.
FairSpec == Spec /\ WF_vars(Node)

-----------------------------------------------------------------------------
(***************************************************************************)
(* Everything respond reads was written in this turn, although the thread  *)
(* keeps every channel: no result, outcome, switch or plan of an earlier,  *)
(* failed or abandoned turn is composed or stored (aggregate writes in     *)
(* full, prepare_confirmation clears, understand rewrites the switch).     *)
(***************************************************************************)
RespondReadsThisTurn ==
  pc \in {"respond", "reply"} =>
     {capability_results.turn, confirmation.turn, child_switch.turn, understanding.turn, plan.turn}
        = {turn}

(***************************************************************************)
(* The target is None or a child whose data the turn holds: capabilities   *)
(* and tools never look up a stale, foreign or made-up id (resolve_child,  *)
(* _pin_target_child, and the refetch after a create).                     *)
(***************************************************************************)
TargetOnFile == target_child_id \in children \cup {NoChild}

(***************************************************************************)
(* A family with one child is never asked which child a message is about:  *)
(* the pin of load_context is what resolve_child falls back on.            *)
(***************************************************************************)
SoleChildNeverAsked ==
  pc = "clarify" /\ understanding.child_ambiguous => Cardinality(children) # 1

(***************************************************************************)
(* The switch the reply announces is the child the turn was about, unless  *)
(* the memory branch created a child meanwhile.                            *)
(***************************************************************************)
SwitchMatchesTarget ==
  pc \in {"respond", "reply"} /\ child_switch.to # NoChild =>
     target_child_id \in {child_switch.to} \cup created

(***************************************************************************)
(* A recommendation is stored for the child it was made for, or for one    *)
(* created in the same turn: never for another child of the family,        *)
(* although the memory branch may move the target while execute runs.      *)
(***************************************************************************)
RecordedForItsChild ==
  recorded # NoRecommendation => recorded.child \in {recorded.made_for} \cup created

(***************************************************************************)
(* The strengthening that steps preserve: what each stage leaves behind    *)
(* for respond, the branch-local facts that make the fan-in safe (a child  *)
(* made in the superstep is in the context read after it, the target of    *)
(* the turn is on file), and the counts a chat client sees.                *)
(***************************************************************************)
StageInv ==
  /\ pc = "understand" /\ Cardinality(children) = 1 => target_child_id # NoChild
  /\ pc = "plan" /\ understanding.child_ambiguous => Cardinality(children) # 1
  /\ pc \in {"plan", "clarify", "fan_out"} =>
        /\ understanding.turn = turn /\ child_switch.turn = turn
        /\ child_switch.to \in {NoChild, target_child_id}
  /\ pc \in {"clarify", "fan_out"} => plan.turn = turn
  /\ pc \in {"respond", "reply"} => target_child_id \in {capability_results.child} \cup created
  /\ pc \notin {"idle", "reply"} => recorded = NoRecommendation

FilesInv ==
  /\ children \subseteq on_file /\ created \subseteq on_file
  /\ pc = "fan_out" => children \subseteq refetched /\ refetched \subseteq on_file

BranchInv ==
  pc = "fan_out" =>
     /\ new_target \in created \cup {NoChild}
     /\ memory \in {"request_confirmation", "apply_confirmation", "profile_update", "done"} =>
           outcome.turn = turn
     /\ memory \notin {"profile_update", "done"} => new_target = NoChild
     /\ memory = "profile_update" /\ new_target # NoChild => operations = "create"
     /\ memory = "done" => new_target \in refetched \cup {NoChild}

CountInv ==
  /\ pc # "idle" => replies = 0
  /\ pc \in {"guard", "load_context", "understand", "plan", "clarify"} => answers = 0
  /\ pc = "fan_out" /\ memory \in {"memory_policy", "prepare_confirmation", "request_confirmation"} =>
        answers = 0

PipelineInv ==
  /\ TypeOK
  /\ RespondReadsThisTurn /\ TargetOnFile /\ SoleChildNeverAsked
  /\ SwitchMatchesTarget /\ RecordedForItsChild
  /\ StageInv /\ FilesInv /\ BranchInv /\ CountInv

(***************************************************************************)
(* What graph.py says: the two branches touch disjoint channels, so there  *)
(* is no write conflict at the fan-in.                                     *)
(***************************************************************************)
NoWriteConflict == ~collided

(***************************************************************************)
(* Seen by a chat client, the thread keeps the turn protocol: at most one  *)
(* popup and at most one reply per turn, none after an error, no popup     *)
(* after the reply, and a turn always ends or waits for an answer.         *)
(***************************************************************************)
Turn == INSTANCE TurnProtocol
          WITH phase  <- IF pc = "idle" THEN "quiet" ELSE IF Paused THEN "waiting" ELSE "busy",
               popups <- answers + (IF Paused THEN 1 ELSE 0)
KeepsTurnProtocol == Turn!Spec
===============================================================================
